--------------------------- MODULE Cluster_proofs ---------------------------
EXTENDS OnlineIndex, ClusterLinks, FiniteSetTheorems, TLAPS

(***************************************************************************)
(* Theorems about OnlineIndex.  IndexInv is about Redis, ConnInv about     *)
(* connections, the messages that carry their age and the work of nodes.   *)
(***************************************************************************)

\* The types that the invariants rest on.
IndexType ==
  /\ setup \in Setups
  /\ has \in [Clients -> SUBSET Keys] /\ life \in [Clients -> 0..TTL]
  /\ home \in [Clients -> Nodes \cup {None}]
  /\ allUsers \in [Users -> 0..TTL] /\ offset \in [Users -> Int]

\* Whoever has a key has an offset; renewals never give one.
OffsetsGiven == \A c \in Clients : has[c] # {} => offset[UserOf[c]] # Gone

IndexInv == IndexType /\ AllUsersCovers /\ OffsetsGiven

\* A connection is never younger than what is said of its client.
Ages ==
  /\ \A n \in Nodes : \A t \in tasks[n] : t.gen <= gen[t.client]
  /\ \A r \in reclaims : r.gen <= gen[r.client]

ConnInv ==
  /\ gen \in [Clients -> Nat] /\ at \in [Clients -> Nodes \cup {None}]
  /\ local \in [Nodes -> [Clients -> Nat]]
  /\ tasks \in [Nodes -> SUBSET Task] /\ dead \in [Nodes -> SUBSET Clients]
  /\ reclaims \in SUBSET [to : Nodes, client : Clients, gen : Nat]
  /\ faults \in Nat
  /\ LiveStaysRegistered /\ Ages

Inv == IndexInv /\ ConnInv

-----------------------------------------------------------------------------
LEMMA TTLPositive == IndexType => TTL \in Nat \ {0}
BY IndexAssumption DEF IndexType, TTL

LEMMA SetupKept == setup' = setup => TTL' = TTL
BY DEF TTL

LEMMA IndexUnchanged ==
  IndexInv /\ UNCHANGED <<setup, index>> => IndexInv'
BY SetupKept, Zenon DEF IndexInv, IndexType, AllUsersCovers, OffsetsGiven, index, TTL

\* The counter of offsets is a number, so a user without one gets one.
LEMMA FreshOffset == Cardinality({v \in Users : offset[v] # Gone}) \in Nat
<1>1. IsFiniteSet({v \in Users : offset[v] # Gone})
  BY IndexAssumption, FS_Subset
<1> QED
  BY <1>1, FS_CardinalityType

LEMMA OnlineStep ==
  ASSUME IndexInv, NEW n \in Nodes, NEW c \in Clients,
         SetClientOnline(n, c), UNCHANGED setup
  PROVE  IndexInv'
<1> USE IndexAssumption
<1> DEFINE u == UserOf[c]
           off == IF offset[u] # Gone THEN offset[u]
                  ELSE Cardinality({v \in Users : offset[v] # Gone})
<1>t. TTL \in Nat \ {0} /\ TTL' = TTL
  BY TTLPositive, SetupKept DEF IndexInv
<1>u. u \in Users /\ NsOf[c] \in Namespaces
  OBVIOUS
<1>1. off \in Int /\ off # Gone
  BY FreshOffset, <1>u DEF IndexInv, IndexType, Gone
<1>2. offset' = [offset EXCEPT ![u] = off]
  BY Zenon DEF SetClientOnline
<1>3. offset' \in [Users -> Int]
  BY <1>1, <1>2, <1>u, Zenon DEF IndexInv, IndexType
<1>4. has' = [has EXCEPT ![c] = Keys] /\ home' = [home EXCEPT ![c] = n]
  BY Zenon DEF SetClientOnline
<1>5. life' = [life EXCEPT ![c] = TTL] /\ allUsers' = [allUsers EXCEPT ![u] = TTL]
  BY Zenon DEF SetClientOnline, Refresh
<1>8. IndexType'
  BY <1>t, <1>u, <1>3, <1>4, <1>5 DEF IndexInv, IndexType
<1>9. AllUsersCovers'
  <2> SUFFICES ASSUME NEW d \in Clients, "unscoped" \in has'[d]
               PROVE  allUsers'[UserOf[d]] >= life'[d]
    BY Zenon DEF AllUsersCovers
  <2>1. life'[d] \in 0..TTL
    BY <1>8, <1>t, Zenon DEF IndexType
  <2>2. CASE UserOf[d] = u
    <3>1. allUsers'[UserOf[d]] = TTL
      BY <2>2, <1>5, <1>u, Zenon DEF IndexInv, IndexType
    <3> QED
      BY <3>1, <2>1, <1>t
  <2>3. CASE UserOf[d] # u
    <3>1. d # c
      BY <2>3
    <3>2. has'[d] = has[d] /\ life'[d] = life[d] /\ allUsers'[UserOf[d]] = allUsers[UserOf[d]]
      BY <3>1, <2>3, <1>4, <1>5, <1>u, Zenon DEF IndexInv, IndexType
    <3> QED
      BY <3>2, Zenon DEF IndexInv, AllUsersCovers
  <2> QED
    BY <2>2, <2>3, Zenon
<1>10. OffsetsGiven'
  <2> SUFFICES ASSUME NEW d \in Clients, has'[d] # {}
               PROVE  offset'[UserOf[d]] # Gone
    BY Zenon DEF OffsetsGiven
  <2>1. CASE UserOf[d] = u
    <3>1. offset'[u] = off
      BY <1>2, <1>u, Zenon DEF IndexInv, IndexType
    <3> QED
      BY <3>1, <2>1, <1>1, Zenon
  <2>2. CASE UserOf[d] # u
    <3>1. d # c /\ offset'[UserOf[d]] = offset[UserOf[d]]
      BY <2>2, <1>2, Zenon DEF IndexInv, IndexType
    <3>2. has'[d] = has[d]
      BY <3>1, <1>4, Zenon DEF IndexInv, IndexType
    <3> QED
      BY <3>1, <3>2, Zenon DEF IndexInv, OffsetsGiven
  <2> QED
    BY <2>1, <2>2, Zenon
<1> QED
  BY <1>8, <1>9, <1>10 DEF IndexInv

LEMMA RenewStep ==
  ASSUME IndexInv, NEW n \in Nodes, NEW c \in Clients,
         "detail" \in has[c], RenewClientOnline(n, c), UNCHANGED setup
  PROVE  IndexInv'
<1> USE IndexAssumption
<1> DEFINE u == UserOf[c]
<1>t. TTL \in Nat \ {0} /\ TTL' = TTL /\ u \in Users
  BY TTLPositive, SetupKept, Zenon DEF IndexInv
<1>1. has' = [has EXCEPT ![c] = @ \cup {"scoped", "unscoped"}] /\ UNCHANGED <<home, offset>>
  BY Zenon DEF RenewClientOnline
<1>2. life' = [life EXCEPT ![c] = TTL] /\ allUsers' = [allUsers EXCEPT ![u] = TTL]
  BY Zenon DEF RenewClientOnline, Refresh
<1>3. IndexType'
  BY <1>t, <1>1, <1>2 DEF IndexInv, IndexType, Keys
<1>4. AllUsersCovers'
  <2> SUFFICES ASSUME NEW d \in Clients, "unscoped" \in has'[d]
               PROVE  allUsers'[UserOf[d]] >= life'[d]
    BY Zenon DEF AllUsersCovers
  <2>1. life'[d] \in 0..TTL
    BY <1>3, <1>t, Zenon DEF IndexType
  <2>2. CASE UserOf[d] = u
    <3>1. allUsers'[UserOf[d]] = TTL
      BY <2>2, <1>2, <1>t, Zenon DEF IndexInv, IndexType
    <3> QED
      BY <3>1, <2>1, <1>t
  <2>3. CASE UserOf[d] # u
    <3>1. d # c
      BY <2>3
    <3>2. has'[d] = has[d] /\ life'[d] = life[d] /\ allUsers'[UserOf[d]] = allUsers[UserOf[d]]
      BY <3>1, <2>3, <1>1, <1>2, Zenon DEF IndexInv, IndexType
    <3> QED
      BY <3>2, Zenon DEF IndexInv, AllUsersCovers
  <2> QED
    BY <2>2, <2>3, Zenon
<1>5. OffsetsGiven'
  <2> SUFFICES ASSUME NEW d \in Clients, has'[d] # {}
               PROVE  offset[UserOf[d]] # Gone
    BY <1>1, Zenon DEF OffsetsGiven
  <2>1. has[d] # {}
    BY <1>1, Zenon DEF IndexInv, IndexType
  <2> QED
    BY <2>1, Zenon DEF IndexInv, OffsetsGiven
<1> QED
  BY <1>3, <1>4, <1>5, Zenon DEF IndexInv

\* The last client of a user leaves nobody who needs the user in all_users.
LEMMA OfflineStep ==
  ASSUME IndexInv, NEW n \in Nodes, NEW c \in Clients,
         SetClientOffline(n, c), UNCHANGED setup
  PROVE  IndexInv'
<1> USE IndexAssumption
<1> DEFINE u == UserOf[c]
<1>t. TTL \in Nat \ {0} /\ TTL' = TTL /\ u \in Users
  BY TTLPositive, SetupKept DEF IndexInv
<1>1. CASE Migrated(n, c)
  BY <1>1, IndexUnchanged DEF SetClientOffline
<1>2. CASE ~Migrated(n, c)
  <2>1. /\ has' = [has EXCEPT ![c] = {}] /\ life' = [life EXCEPT ![c] = 0]
        /\ allUsers' = [allUsers EXCEPT ![u] = IF AllEmpty(c) THEN 0 ELSE @]
        /\ offset' = offset /\ home' = [home EXCEPT ![c] = None]
    BY <1>2, Zenon DEF SetClientOffline, Erase
  <2>2. IndexType'
    BY <1>t, <2>1 DEF IndexInv, IndexType
  <2>3. AllUsersCovers'
    <3> SUFFICES ASSUME NEW d \in Clients, "unscoped" \in has'[d]
                 PROVE  allUsers'[UserOf[d]] >= life'[d]
      BY Zenon DEF AllUsersCovers
    <3>1. d # c /\ "unscoped" \in has[d] /\ life'[d] = life[d]
      BY <2>1, Zenon DEF IndexInv, IndexType
    <3>2. allUsers'[UserOf[d]] = allUsers[UserOf[d]]
      <4>1. CASE UserOf[d] = u
        <5>1. ~AllEmpty(c)
          BY <3>1, <4>1, Zenon DEF AllEmpty, ClientsIn
        <5> QED
          BY <5>1, <2>1, <1>t, Zenon DEF IndexInv, IndexType
      <4>2. CASE UserOf[d] # u
        BY <4>2, <2>1, Zenon DEF IndexInv, IndexType
      <4> QED
        BY <4>1, <4>2, Zenon
    <3> QED
      BY <3>1, <3>2, Zenon DEF IndexInv, AllUsersCovers
  <2>4. OffsetsGiven'
    BY <2>1, Zenon DEF IndexInv, IndexType, OffsetsGiven
  <2> QED
    BY <2>2, <2>3, <2>4 DEF IndexInv
<1> QED
  BY <1>1, <1>2

LEMMA TickStep ==
  ASSUME IndexInv, Tick
  PROVE  IndexInv'
<1> USE IndexAssumption
<1>t. TTL \in Nat \ {0} /\ TTL' = TTL
  BY TTLPositive, SetupKept, Zenon DEF IndexInv, Tick
<1>1. /\ life' = [c \in Clients |-> Less(life[c])]
      /\ has' = [c \in Clients |-> IF life[c] > 1 THEN has[c] ELSE {}]
      /\ allUsers' = [u \in Users |-> Less(allUsers[u])]
      /\ home' = [c \in Clients |-> IF life[c] > 1 THEN home[c] ELSE None]
      /\ offset' = offset /\ setup' = setup
  BY Zenon DEF Tick
<1>2. IndexType'
  <2>1. \A x \in 0..TTL : Less(x) \in 0..TTL
    BY <1>t DEF Less
  <2> QED
    BY <2>1, <1>t, <1>1, Zenon DEF IndexInv, IndexType
<1>3. AllUsersCovers'
  <2> SUFFICES ASSUME NEW d \in Clients, "unscoped" \in has'[d]
               PROVE  allUsers'[UserOf[d]] >= life'[d]
    BY Zenon DEF AllUsersCovers
  <2>1. "unscoped" \in has[d] /\ UserOf[d] \in Users
    BY <1>1, Zenon
  <2>2. allUsers[UserOf[d]] >= life[d]
    BY <2>1, Zenon DEF IndexInv, AllUsersCovers
  <2>3. life[d] \in Nat /\ allUsers[UserOf[d]] \in Nat
    BY <2>1, <1>t DEF IndexInv, IndexType
  <2>4. life'[d] = Less(life[d]) /\ allUsers'[UserOf[d]] = Less(allUsers[UserOf[d]])
    BY <1>1, <2>1, Zenon
  <2> QED
    BY <2>2, <2>3, <2>4 DEF Less
<1>4. OffsetsGiven'
  BY <1>1, Zenon DEF IndexInv, OffsetsGiven
<1> QED
  BY <1>2, <1>3, <1>4 DEF IndexInv

LEMMA EvictStep ==
  ASSUME IndexInv, Evict
  PROVE  IndexInv'
<1>1. UNCHANGED <<setup, life, home, allUsers, offset>>
  BY Zenon DEF Evict
<1>2. has' \in [Clients -> SUBSET Keys] /\ \A c \in Clients : has'[c] \subseteq has[c]
  BY Zenon DEF Evict, IndexInv, IndexType
<1>3. IndexType'
  BY <1>1, <1>2, SetupKept, Zenon DEF IndexInv, IndexType
<1>4. AllUsersCovers'
  BY <1>1, <1>2 DEF IndexInv, AllUsersCovers
<1>5. OffsetsGiven'
  BY <1>1, <1>2 DEF IndexInv, OffsetsGiven
<1> QED
  BY <1>3, <1>4, <1>5 DEF IndexInv

LEMMA IndexStep == Inv /\ [Next]_vars => IndexInv'
<1> SUFFICES ASSUME Inv, [Next]_vars
             PROVE  IndexInv'
  OBVIOUS
<1> USE DEF Inv
<1>1. CASE UNCHANGED vars
  BY <1>1, IndexUnchanged DEF vars
<1>2. CASE Tick
  BY <1>2, TickStep
<1>3. CASE Evict
  BY <1>3, EvictStep
<1>4. ASSUME NEW n \in Nodes, SyncOnlineStatus(n)
      PROVE  IndexInv'
  <2>1. PICK t \in tasks[n] : SetClientOnline(n, t.client)
    BY <1>4, Zenon DEF SyncOnlineStatus
  <2>2. UNCHANGED setup /\ t.client \in Clients
    BY <1>4 DEF SyncOnlineStatus, ConnInv, Task
  <2> QED
    BY <2>1, <2>2, OnlineStep
<1>5. ASSUME NEW n \in Nodes, SetOffline(n)
      PROVE  IndexInv'
  <2>1. PICK c \in dead[n] : SetClientOffline(n, c)
    BY <1>5 DEF SetOffline
  <2>2. UNCHANGED setup /\ c \in Clients
    BY <1>5, Zenon DEF SetOffline, ConnInv
  <2> QED
    BY <2>1, <2>2, OfflineStep
<1>6. ASSUME NEW n \in Nodes, NEW c \in Clients, RenewClientsOnline(n, c)
      PROVE  IndexInv'
  BY <1>6, RenewStep, IndexUnchanged, Zenon DEF RenewClientsOnline
<1>7. ASSUME NEW n \in Nodes, NEW c \in Clients, Rebuild(n, c)
      PROVE  IndexInv'
  BY <1>7, OnlineStep DEF Rebuild
<1>8. ASSUME NEW n \in Nodes,
             \/ ClientReclaim(n) \/ Shutdown(n) \/ Exit(n) \/ Crash(n) \/ Restart(n) \/ Fail(n)
             \/ \E c \in Clients : Register(n, c) \/ Unregister(n, c) \/ Heartbeat(n, c)
             \/ \E k \in Bitmaps, u \in Users : SelfHeal(n, k, u)
      PROVE  IndexInv'
  <2>1. UNCHANGED <<setup, index>>
    BY <1>8, Zenon DEF ClientReclaim, Shutdown, Exit, Crash, Restart, Fail, Register, Unregister,
       Heartbeat, SelfHeal
  <2> QED
    BY <2>1, IndexUnchanged
<1> QED
  BY <1>1, <1>2, <1>3, <1>4, <1>5, <1>6, <1>7, <1>8, Zenon DEF Next

-----------------------------------------------------------------------------
(* Connections. *)

LEMMA ConnUnchanged ==
  ConnInv /\ UNCHANGED <<conns, tasks, dead, reclaims, faults>> => ConnInv'
BY Zenon DEF ConnInv, conns, LiveStaysRegistered, Ages

LEMMA RegisterStep ==
  ASSUME Inv, NEW n \in Nodes, NEW c \in Clients, Register(n, c)
  PROVE  ConnInv'
<1> DEFINE t0 == [client |-> c, gen |-> gen[c] + 1, from |-> GetClientOwner(c)]
<1>1. /\ gen' = [gen EXCEPT ![c] = @ + 1] /\ at' = [at EXCEPT ![c] = n]
      /\ local' = [local EXCEPT ![n][c] = gen[c] + 1]
      /\ tasks' = [tasks EXCEPT ![n] = @ \cup {t0}]
      /\ UNCHANGED <<dead, reclaims, faults>>
  BY Zenon DEF Register
<1>2. t0 \in Task
  BY DEF Task, Inv, IndexInv, IndexType, ConnInv, GetClientOwner
<1>3. \A d \in Clients : gen'[d] \in Nat /\ gen[d] <= gen'[d]
  BY <1>1 DEF Inv, ConnInv
<1>4. LiveStaysRegistered'
  <2> SUFFICES ASSUME NEW d \in Clients, at'[d] # None
               PROVE  local'[at'[d]][d] = gen'[d]
    BY DEF LiveStaysRegistered
  <2>1. CASE d = c
    BY <2>1, <1>1, Zenon DEF Inv, ConnInv
  <2>2. CASE d # c
    <3>1. at'[d] = at[d] /\ gen'[d] = gen[d] /\ at[d] \in Nodes
      BY <2>2, <1>1, Zenon DEF Inv, ConnInv
    <3>2. local'[at[d]][d] = local[at[d]][d]
      BY <2>2, <3>1, <1>1, Zenon DEF Inv, ConnInv
    <3> QED
      BY <3>1, <3>2, Zenon DEF Inv, ConnInv, LiveStaysRegistered
  <2> QED
    BY <2>1, <2>2, Zenon
<1>5. \A m \in Nodes : \A t \in tasks'[m] : t.gen <= gen'[t.client]
  <2> SUFFICES ASSUME NEW m \in Nodes, NEW t \in tasks'[m]
               PROVE  t.gen <= gen'[t.client]
    OBVIOUS
  <2>1. CASE t = t0
    BY <2>1, <1>1 DEF Inv, ConnInv
  <2>2. CASE t \in tasks[m]
    <3>1. t.client \in Clients /\ t.gen \in Nat /\ t.gen <= gen[t.client]
      BY <2>2 DEF Inv, ConnInv, Ages, Task
    <3> QED
      BY <3>1, <1>3 DEF Inv, ConnInv
  <2> QED
    BY <2>1, <2>2, <1>1, Zenon DEF Inv, ConnInv
<1>6. \A r \in reclaims' : r.gen <= gen'[r.client]
  <2> SUFFICES ASSUME NEW r \in reclaims
               PROVE  r.gen <= gen'[r.client]
    BY <1>1, Zenon
  <2>1. r.client \in Clients /\ r.gen \in Nat /\ r.gen <= gen[r.client]
    BY Zenon DEF Inv, ConnInv, Ages
  <2> QED
    BY <2>1, <1>3 DEF Inv, ConnInv
<1> QED
  BY <1>1, <1>2, <1>4, <1>5, <1>6 DEF Inv, ConnInv, Ages

\* Tasks are taken away, and messages of the age of a task are added.
LEMMA SyncStep ==
  ASSUME ConnInv, NEW n \in Nodes, NEW t \in tasks[n],
         UNCHANGED <<conns, dead>>, faults' \in Nat,
         tasks' = [tasks EXCEPT ![n] = @ \ {t}],
         reclaims' \in {reclaims, reclaims \cup notifyClientReclaim(n, t)}
  PROVE  ConnInv'
<1>1. t \in Task /\ t.gen <= gen[t.client]
  BY Zenon DEF ConnInv, Ages
<1>2. \A r \in notifyClientReclaim(n, t) :
        /\ r \in [to : Nodes, client : Clients, gen : Nat]
        /\ r.gen <= gen[r.client]
  BY <1>1 DEF notifyClientReclaim, Task
<1>3. \A r \in reclaims' : r \in [to : Nodes, client : Clients, gen : Nat] /\ r.gen <= gen[r.client]
  BY <1>2, Zenon DEF ConnInv, Ages
<1>4. /\ tasks' \in [Nodes -> SUBSET Task]
      /\ \A m \in Nodes : tasks'[m] \subseteq tasks[m]
  BY Zenon DEF ConnInv
<1>5. LiveStaysRegistered'
  BY Zenon DEF ConnInv, LiveStaysRegistered, conns
<1>6. Ages'
  BY <1>3, <1>4, Zenon DEF ConnInv, Ages, conns
<1> QED
  BY <1>3, <1>4, <1>5, <1>6, Zenon DEF ConnInv, conns

LEMMA ReclaimStep ==
  ASSUME ConnInv, NEW n \in Nodes, ClientReclaim(n)
  PROVE  ConnInv'
<1>1. PICK r \in reclaims :
        /\ reclaims' = reclaims \ {r}
        /\ local' = [local EXCEPT ![n][r.client] = IF Ghost(n, r) THEN 0 ELSE @]
  BY ZenonT(60) DEF ClientReclaim
<1>2. UNCHANGED <<gen, at, tasks, dead, faults>>
  BY Zenon DEF ClientReclaim, work
<1>3. r.client \in Clients /\ r.gen \in Nat /\ r.gen <= gen[r.client]
  BY Zenon DEF ConnInv, Ages
<1>4. local' \in [Nodes -> [Clients -> Nat]]
  BY <1>1, <1>3 DEF ConnInv
<1>5. LiveStaysRegistered'
  <2> SUFFICES ASSUME NEW c \in Clients, at[c] # None
               PROVE  local'[at[c]][c] = gen[c]
    BY <1>2, Zenon DEF LiveStaysRegistered
  <2>1. at[c] \in Nodes /\ local[at[c]][c] = gen[c] /\ gen[c] \in Nat
    BY Zenon DEF ConnInv, LiveStaysRegistered
  <2>2. CASE at[c] = n /\ c = r.client
    <3>1. ~Ghost(n, r)
      BY <2>1, <2>2, <1>3 DEF Ghost
    <3> QED
      BY <3>1, <2>1, <2>2, <1>1, <1>3, Zenon DEF ConnInv
  <2>3. CASE ~(at[c] = n /\ c = r.client)
    BY <2>1, <2>3, <1>1, <1>3, Zenon DEF ConnInv
  <2> QED
    BY <2>2, <2>3, Zenon
<1>6. Ages'
  BY <1>1, <1>2, Zenon DEF ConnInv, Ages
<1> QED
  BY <1>1, <1>2, <1>4, <1>5, <1>6, Zenon DEF ConnInv

LEMMA UnregisterStep ==
  ASSUME ConnInv, NEW n \in Nodes, NEW c \in Clients, Unregister(n, c)
  PROVE  ConnInv'
<1>1. /\ local' = [local EXCEPT ![n][c] = 0]
      /\ at' = [at EXCEPT ![c] = IF @ = n /\ local[n][c] = gen[c] THEN None ELSE @]
      /\ UNCHANGED <<gen, tasks, dead, reclaims, faults>>
  BY Zenon DEF Unregister, work
<1>2. LiveStaysRegistered'
  <2> SUFFICES ASSUME NEW d \in Clients, at'[d] # None
               PROVE  local'[at'[d]][d] = gen[d]
    BY <1>1, Zenon DEF LiveStaysRegistered
  <2>1. at'[d] = at[d] /\ at[d] \in Nodes /\ local[at[d]][d] = gen[d]
    BY <1>1, Zenon DEF ConnInv, LiveStaysRegistered
  <2>2. ~(d = c /\ at[d] = n)
    BY <2>1, <1>1, Zenon DEF ConnInv
  <2> QED
    BY <2>1, <2>2, <1>1, Zenon DEF ConnInv
<1> QED
  BY <1>1, <1>2, Zenon DEF ConnInv, Ages

\* A node loses its connections and perhaps its tasks and messages.
LEMMA DisconnectStep ==
  ASSUME ConnInv, NEW n \in Nodes, Disconnect(n), faults' \in Nat,
         dead' \in [Nodes -> SUBSET Clients],
         tasks' \in [Nodes -> SUBSET Task], \A m \in Nodes : tasks'[m] \subseteq tasks[m],
         reclaims' \subseteq reclaims
  PROVE  ConnInv'
<1>1. /\ local' = [local EXCEPT ![n] = [c \in Clients |-> 0]]
      /\ at' = [c \in Clients |-> IF at[c] = n THEN None ELSE at[c]]
      /\ UNCHANGED gen
  BY DEF Disconnect
<1>2. LiveStaysRegistered'
  <2> SUFFICES ASSUME NEW d \in Clients, at'[d] # None
               PROVE  local'[at'[d]][d] = gen[d]
    BY <1>1, Zenon DEF LiveStaysRegistered
  <2>1. at'[d] = at[d] /\ at[d] \in Nodes /\ at[d] # n /\ local[at[d]][d] = gen[d]
    BY <1>1, Zenon DEF ConnInv, LiveStaysRegistered
  <2> QED
    BY <2>1, <1>1, Zenon DEF ConnInv
<1>3. local' \in [Nodes -> [Clients -> Nat]] /\ at' \in [Clients -> Nodes \cup {None}]
  BY <1>1, Zenon DEF ConnInv
<1>4. Ages'
  BY <1>1, Zenon DEF ConnInv, Ages
<1> QED
  BY <1>1, <1>2, <1>3, <1>4, Zenon DEF ConnInv

LEMMA ConnStep == Inv /\ [Next]_vars => ConnInv'
<1> SUFFICES ASSUME Inv, [Next]_vars
             PROVE  ConnInv'
  OBVIOUS
<1>c. ConnInv
  BY DEF Inv
<1>1. CASE UNCHANGED vars
  BY <1>1, <1>c, ConnUnchanged DEF vars, work
<1>2. CASE Tick
  BY <1>2, <1>c, ConnUnchanged, Zenon DEF Tick, work
<1>3. CASE Evict
  <2>1. UNCHANGED <<conns, tasks, dead, reclaims>> /\ faults' = faults + 1
    BY <1>3, Zenon DEF Evict, work
  <2> QED
    BY <2>1, <1>c DEF ConnInv, conns, LiveStaysRegistered, Ages
<1>4. ASSUME NEW n \in Nodes, SyncOnlineStatus(n)
      PROVE  ConnInv'
  <2>1. PICK t \in tasks[n] : /\ tasks' = [tasks EXCEPT ![n] = @ \ {t}]
                              /\ reclaims' = reclaims \cup notifyClientReclaim(n, t)
    BY <1>4, Zenon DEF SyncOnlineStatus
  <2>2. UNCHANGED <<conns, dead>> /\ faults' \in Nat
    BY <1>4, <1>c, Zenon DEF SyncOnlineStatus, ConnInv
  <2> QED
    BY <2>1, <2>2, <1>c, SyncStep, Zenon
<1>5. ASSUME NEW n \in Nodes, SetOffline(n)
      PROVE  ConnInv'
  <2>1. dead' \in [Nodes -> SUBSET Clients] /\ UNCHANGED <<conns, tasks, reclaims, faults>>
    BY <1>5, <1>c DEF SetOffline, ConnInv
  <2> QED
    BY <2>1, <1>c, Zenon DEF ConnInv, conns, LiveStaysRegistered, Ages
<1>6. ASSUME NEW n \in Nodes, NEW c \in Clients,
             RenewClientsOnline(n, c) \/ Rebuild(n, c) \/ Heartbeat(n, c)
      PROVE  ConnInv'
  BY <1>6, <1>c, ConnUnchanged, Zenon DEF RenewClientsOnline, Rebuild, Heartbeat
<1>7. ASSUME NEW n \in Nodes, NEW c \in Clients, Register(n, c) \/ Unregister(n, c)
      PROVE  ConnInv'
  BY <1>7, <1>c, RegisterStep, UnregisterStep
<1>8. ASSUME NEW n \in Nodes, ClientReclaim(n)
      PROVE  ConnInv'
  BY <1>8, <1>c, ReclaimStep
<1>9. ASSUME NEW n \in Nodes, Shutdown(n)
      PROVE  ConnInv'
  <2>1. dead' \in [Nodes -> SUBSET Clients]
    BY <1>9, <1>c, Zenon DEF Shutdown, ConnInv
  <2>2. Disconnect(n) /\ faults' = faults + 1 /\ UNCHANGED <<tasks, reclaims>>
    BY <1>9, Zenon DEF Shutdown
  <2> QED
    BY <2>1, <2>2, <1>c, DisconnectStep DEF ConnInv
<1>10. ASSUME NEW n \in Nodes, Forget(n)
       PROVE  /\ dead' \in [Nodes -> SUBSET Clients] /\ tasks' \in [Nodes -> SUBSET Task]
              /\ \A m \in Nodes : tasks'[m] \subseteq tasks[m]
              /\ reclaims' \subseteq reclaims
  BY <1>10, <1>c, Zenon DEF Forget, ConnInv
<1>11. ASSUME NEW n \in Nodes, Exit(n)
       PROVE  ConnInv'
  <2>1. Forget(n) /\ UNCHANGED <<conns, faults>>
    BY <1>11 DEF Exit
  <2> QED
    BY <2>1, <1>10, <1>c, Zenon DEF ConnInv, conns, LiveStaysRegistered, Ages
<1>12. ASSUME NEW n \in Nodes, Crash(n)
       PROVE  ConnInv'
  <2>1. Forget(n) /\ Disconnect(n) /\ faults' \in Nat
    BY <1>12, <1>c DEF Crash, ConnInv
  <2> QED
    BY <2>1, <1>10, <1>c, DisconnectStep
<1>13. ASSUME NEW n \in Nodes, Restart(n)
       PROVE  ConnInv'
  BY <1>13, <1>c, ConnUnchanged DEF Restart, work
<1>14. ASSUME NEW n \in Nodes, Fail(n)
       PROVE  ConnInv'
  <2>1. UNCHANGED conns /\ faults' \in Nat
    BY <1>14, <1>c DEF Fail, ConnInv
  <2>2. CASE \E t \in tasks[n] :
               /\ tasks' = [tasks EXCEPT ![n] = @ \ {t}]
               /\ reclaims' \in {reclaims, reclaims \cup notifyClientReclaim(n, t)}
               /\ UNCHANGED dead
    BY <2>1, <2>2, <1>c, SyncStep, Zenon
  <2>3. CASE UNCHANGED <<tasks, reclaims>> /\ dead' \in {dead, [dead EXCEPT ![n] = {}]}
    BY <2>1, <2>3, <1>c, Zenon DEF ConnInv, conns, LiveStaysRegistered, Ages
  <2> QED
    BY <1>14, <2>2, <2>3, Zenon DEF Fail
<1>15. ASSUME NEW n \in Nodes, NEW k \in Bitmaps, NEW u \in Users, SelfHeal(n, k, u)
       PROVE  ConnInv'
  <2>1. dead' \in [Nodes -> SUBSET Clients] /\ UNCHANGED <<conns, tasks, reclaims, faults>>
    BY <1>15, <1>c, Zenon DEF SelfHeal, ConnInv, GetUserClients, ClientsIn
  <2> QED
    BY <2>1, <1>c, Zenon DEF ConnInv, conns, LiveStaysRegistered, Ages
<1> QED
  BY <1>1, <1>2, <1>3, <1>4, <1>5, <1>6, <1>7, <1>8, <1>9, <1>11, <1>12, <1>13, <1>14,
     <1>15 DEF Next

LEMMA InitInv == Init => Inv
<1> SUFFICES ASSUME Init
             PROVE  Inv
  OBVIOUS
<1>1. IndexType
  BY IndexAssumption DEF Init, IndexType, TTL, Gone
<1>2. AllUsersCovers /\ OffsetsGiven
  BY Zenon DEF Init, AllUsersCovers, OffsetsGiven
<1>3. ConnInv
  BY Zenon DEF Init, ConnInv, LiveStaysRegistered, Ages
<1> QED
  BY <1>1, <1>2, <1>3 DEF Inv, IndexInv

LEMMA Invariant == Spec => []Inv
<1>1. Inv /\ [Next]_vars => Inv'
  BY IndexStep, ConnStep DEF Inv
<1> QED
  BY InitInv, <1>1, PTL DEF Spec

-----------------------------------------------------------------------------
(* all_users names every user with an indexed client, for at least as long  *)
(* as the client's entry lives, whatever the order of the three scripts:    *)
(* GetAllOnlineUsers misses no indexed user.                                *)
THEOREM UsersCovered == Spec => []AllUsersCovers
<1>1. Inv => AllUsersCovers
  BY DEF Inv, IndexInv
<1> QED
  BY Invariant, <1>1, PTL

(* IsUserOnline and BatchIsUserOnline name every user with an indexed       *)
(* client, with or without the bitmap: an indexed user has an offset, and   *)
(* the count of the sorted set stands in for a bit that is missing.         *)
THEOREM IndexedOnline == Spec => []IndexedIsOnline
<1>1. Inv => IndexedIsOnline
  <2> SUFFICES ASSUME Inv, NEW c \in Clients
               PROVE  /\ "scoped" \in has[c] =>
                            /\ IsUserOnline(NsOf[c], UserOf[c])
                            /\ UserOf[c] \in BatchIsUserOnline(NsOf[c], Users)
                      /\ {"unscoped", "detail"} \subseteq has[c] =>
                            /\ IsUserOnline(Global, UserOf[c])
                            /\ UserOf[c] \in BatchIsUserOnline(Global, Users)
    BY Zenon DEF IndexedIsOnline
  <2>1. has[c] # {} => offset[UserOf[c]] # Gone
    BY DEF Inv, IndexInv, OffsetsGiven
  <2>2. NsOf[c] # Global
    BY IndexAssumption
  <2>3. c \in ClientsIn(NsOf[c], UserOf[c]) /\ c \in ClientsIn(Global, UserOf[c])
    BY DEF ClientsIn
  <2>4. "scoped" \in has[c] => zcountScoped(NsOf[c], UserOf[c])
    BY <2>2, <2>3 DEF zcountScoped
  <2>5. {"unscoped", "detail"} \subseteq has[c] => zcountScoped(Global, UserOf[c])
    BY <2>3 DEF zcountScoped, GetUserClients
  <2>6. UserOf[c] \in Users
    BY IndexAssumption
  <2>7. ASSUME NEW k, offset[UserOf[c]] # Gone, zcountScoped(k, UserOf[c])
        PROVE  IsUserOnline(k, UserOf[c]) /\ UserOf[c] \in BatchIsUserOnline(k, Users)
    BY <2>6, <2>7, Zenon DEF IsUserOnline, BatchIsUserOnline
  <2> QED
    BY <2>1, <2>4, <2>5, <2>7, Zenon
<1> QED
  BY Invariant, <1>1, PTL

(* No reclaim message, however late, takes the connection a client uses out *)
(* of its node's registry (handleDistributedClientReclaim compares ages).   *)
THEOREM LiveRegistered == Spec => []LiveStaysRegistered
<1>1. Inv => LiveStaysRegistered
  BY DEF Inv, ConnInv
<1> QED
  BY Invariant, <1>1, PTL

LEMMA KeysKept ==
  ASSUME Inv, [Next]_vars, NEW c \in Clients,
         at[c] # None, GetClientOwner(c) = at[c], c \notin dead[at[c]]
  PROVE  has[c] \subseteq has'[c] \/ faults' # faults \/ Tick
<1> USE DEF Inv, ConnInv, IndexInv, IndexType
<1>1. CASE UNCHANGED has
  BY <1>1, Zenon
<1>3. ASSUME NEW n \in Nodes, NEW d \in Clients, SetClientOnline(n, d)
      PROVE  has[c] \subseteq has'[c]
  BY <1>3, Zenon DEF SetClientOnline
<1>4. ASSUME NEW n \in Nodes, SyncOnlineStatus(n)
      PROVE  has[c] \subseteq has'[c]
  <2>1. PICK t \in tasks[n] : SetClientOnline(n, t.client)
    BY <1>4, Zenon DEF SyncOnlineStatus
  <2>2. t.client \in Clients
    BY DEF Task
  <2> QED
    BY <2>1, <2>2, <1>3, Zenon
<1>5. ASSUME NEW n \in Nodes, SetOffline(n)
      PROVE  has[c] \subseteq has'[c]
  <2>1. PICK d \in dead[n] : SetClientOffline(n, d)
    BY <1>5, Zenon DEF SetOffline
  <2>2. CASE d = c
    <3>1. n # at[c]
      BY <2>1, <2>2, Zenon
    <3>2. Migrated(n, c)
      BY <3>1, Zenon DEF Migrated
    <3> QED
      BY <3>2, <2>1, <2>2, Zenon DEF SetClientOffline, index
  <2>3. CASE d # c
    BY <2>1, <2>3, Zenon DEF SetClientOffline, Erase, index
  <2> QED
    BY <2>2, <2>3, Zenon
<1>6. ASSUME NEW n \in Nodes, NEW d \in Clients, RenewClientsOnline(n, d)
      PROVE  has[c] \subseteq has'[c]
  <2>1. \/ has' = has
        \/ has' = [has EXCEPT ![d] = @ \cup {"scoped", "unscoped"}]
    BY <1>6, Zenon DEF RenewClientsOnline, RenewClientOnline, index
  <2> QED
    BY <2>1
<1>7. ASSUME NEW n \in Nodes, NEW d \in Clients, Rebuild(n, d)
      PROVE  has[c] \subseteq has'[c]
  BY <1>7, <1>3, Zenon DEF Rebuild
<1>8. ASSUME NEW n \in Nodes,
             \/ ClientReclaim(n) \/ Exit(n) \/ Restart(n)
             \/ \E d \in Clients : Register(n, d) \/ Unregister(n, d) \/ Heartbeat(n, d)
             \/ \E k \in Bitmaps, u \in Users : SelfHeal(n, k, u)
      PROVE  UNCHANGED has
  BY <1>8, Zenon DEF ClientReclaim, Exit, Restart, Register, Unregister, Heartbeat, SelfHeal, index
<1>9. ASSUME Evict \/ \E n \in Nodes : Shutdown(n) \/ Crash(n) \/ Fail(n)
      PROVE  faults' = faults + 1
  BY <1>9, Zenon DEF Evict, Shutdown, Crash, Fail
<1>10. UNCHANGED vars => UNCHANGED has
  BY Zenon DEF vars, index
<1>11. faults' = faults + 1 => faults' # faults
  OBVIOUS
<1> HIDE DEF Inv, ConnInv, IndexInv, IndexType
<1> QED
  BY <1>1, <1>4, <1>5, <1>6, <1>7, <1>8, <1>9, <1>10, <1>11, Zenon DEF Next

(* A node that does not own a client never deletes its keys: the owner test *)
(* of the offline script decides, in any order of shutdowns, self-heals and *)
(* reconnections.                                                           *)
THEOREM OwnerProtected == Spec => OwnerKeepsIndex
<1>1. Inv /\ [Next]_vars =>
        [\A c \in Clients :
           /\ at[c] # None /\ GetClientOwner(c) = at[c] /\ c \notin dead[at[c]]
           => \/ has[c] \subseteq has'[c]
              \/ faults' # faults
              \/ Tick]_vars
  BY KeysKept, Zenon
<1> QED
  BY Invariant, <1>1, PTL DEF Spec, OwnerKeepsIndex

-----------------------------------------------------------------------------
(***************************************************************************)
(* Theorems about ClusterLinks.  NcInv is about the node index cache,      *)
(* NrInv about the registry and the pool; they share no state.             *)
(***************************************************************************)

-----------------------------------------------------------------------------
(* The count of the node index cache.                                      *)

\* The lookups at given points.
LookupsAt(f, P) == {l \in Lookups : f[l] \in P}
AddPoints == {"add"}
SubPoints == {"sub_do", "sub_evict", "sub_done"}
NcPoints == {"load", "drop", "do", "lead", "wait", "store", "evict", "done"} \cup AddPoints \cup SubPoints

\* They are finitely many.
LEMMA LookupsAtFinite ==
    ASSUME NEW f, NEW P
    PROVE  IsFiniteSet(LookupsAt(f, P)) /\ Cardinality(LookupsAt(f, P)) \in Nat
<1>1. LookupsAt(f, P) \subseteq Lookups
  BY DEF LookupsAt
<1> QED  BY <1>1, LookupsFinite, FS_Subset, FS_CardinalityType

\* A lookup that comes to one of the points adds one, one that leaves them takes
\* one away.
LEMMA LookupMoves ==
    ASSUME NEW f, NEW h, NEW P, NEW l \in Lookups,
           \A x \in Lookups \ {l} : h[x] = f[x]
    PROVE  /\ f[l] \notin P /\ h[l] \in P => Cardinality(LookupsAt(h, P)) = Cardinality(LookupsAt(f, P)) + 1
           /\ f[l] \in P /\ h[l] \notin P => Cardinality(LookupsAt(h, P)) = Cardinality(LookupsAt(f, P)) - 1
           /\ (f[l] \in P <=> h[l] \in P) => Cardinality(LookupsAt(h, P)) = Cardinality(LookupsAt(f, P))
<1>0. IsFiniteSet(LookupsAt(f, P)) /\ Cardinality(LookupsAt(f, P)) \in Nat
  BY LookupsAtFinite, Zenon
<1>1. ASSUME f[l] \notin P, h[l] \in P  PROVE Cardinality(LookupsAt(h, P)) = Cardinality(LookupsAt(f, P)) + 1
  <2>1. LookupsAt(h, P) = LookupsAt(f, P) \cup {l} /\ l \notin LookupsAt(f, P)
    BY <1>1 DEF LookupsAt
  <2> QED  BY <1>0, <2>1, FS_AddElement, Zenon
<1>2. ASSUME f[l] \in P, h[l] \notin P  PROVE Cardinality(LookupsAt(h, P)) = Cardinality(LookupsAt(f, P)) - 1
  <2>1. LookupsAt(h, P) = LookupsAt(f, P) \ {l} /\ l \in LookupsAt(f, P)
    BY <1>2 DEF LookupsAt
  <2> QED  BY <1>0, <2>1, FS_RemoveElement, Zenon
<1>3. ASSUME f[l] \in P <=> h[l] \in P  PROVE LookupsAt(h, P) = LookupsAt(f, P)
  BY <1>3 DEF LookupsAt
<1> QED  BY <1>1, <1>2, <1>3, Zenon

NcTypes ==
    /\ clSize \in Int /\ IsFiniteSet(DOMAIN clCache)
    /\ clAt \in [Lookups -> NcPoints]

\* The count, over the points of the lookups.
NcExact == clSize = Cardinality(DOMAIN clCache) - Cardinality(LookupsAt(clAt, AddPoints)) + Cardinality(LookupsAt(clAt, SubPoints))
NcInv == NcTypes /\ NcExact

LEMMA NcExactIs == NcExact <=> CacheCountIsExact
BY DEF NcExact, CacheCountIsExact, Adding, Subtracting, LookupsAt, AddPoints, SubPoints

\* What a lookup at a point has still to add to the size.
Owing(where) == IF where \in AddPoints THEN 1 ELSE IF where \in SubPoints THEN 0 - 1 ELSE 0

\* A lookup that moves changes what is owed by the difference.
LEMMA OwingMoves ==
    ASSUME NEW f, NEW h, NEW l \in Lookups,
           \A x \in Lookups \ {l} : h[x] = f[x]
    PROVE  Cardinality(LookupsAt(h, AddPoints)) - Cardinality(LookupsAt(h, SubPoints))
             = Cardinality(LookupsAt(f, AddPoints)) - Cardinality(LookupsAt(f, SubPoints)) + Owing(h[l]) - Owing(f[l])
<1> DEFINE A == Cardinality(LookupsAt(f, AddPoints))
           B == Cardinality(LookupsAt(h, AddPoints))
           C == Cardinality(LookupsAt(f, SubPoints))
           D == Cardinality(LookupsAt(h, SubPoints))
<1>1. A \in Nat /\ B \in Nat /\ C \in Nat /\ D \in Nat
  BY LookupsAtFinite, Zenon
<1>2. /\ f[l] \notin AddPoints /\ h[l] \in AddPoints => B = A + 1
      /\ f[l] \in AddPoints /\ h[l] \notin AddPoints => B = A - 1
      /\ (f[l] \in AddPoints <=> h[l] \in AddPoints) => B = A
  BY LookupMoves
<1>3. /\ f[l] \notin SubPoints /\ h[l] \in SubPoints => D = C + 1
      /\ f[l] \in SubPoints /\ h[l] \notin SubPoints => D = C - 1
      /\ (f[l] \in SubPoints <=> h[l] \in SubPoints) => D = C
  BY LookupMoves
<1> HIDE DEF A, B, C, D
<1>4. B - D = A - C + Owing(h[l]) - Owing(f[l])
  BY <1>1, <1>2, <1>3 DEF Owing, AddPoints, SubPoints
<1> QED  BY <1>4 DEF A, B, C, D

\* A step of one lookup: the entries, the size and what the lookup owes change
\* together.
LEMMA NcOneMoves ==
    ASSUME NcInv, NEW l \in Lookups, NEW to \in NcPoints, Goes(l, to),
           clSize' \in Int, IsFiniteSet(DOMAIN clCache'),
           clSize' - clSize = Cardinality(DOMAIN clCache') - Cardinality(DOMAIN clCache) + Owing(clAt[l]) - Owing(to)
    PROVE  NcInv'
<1>1. clAt' \in [Lookups -> NcPoints] /\ clAt'[l] = to /\ \A x \in Lookups \ {l} : clAt'[x] = clAt[x]
  BY Zenon DEF NcInv, NcTypes, Goes
<1> DEFINE A == Cardinality(LookupsAt(clAt, AddPoints))
           B == Cardinality(LookupsAt(clAt', AddPoints))
           C == Cardinality(LookupsAt(clAt, SubPoints))
           D == Cardinality(LookupsAt(clAt', SubPoints))
<1>2. A \in Nat /\ B \in Nat /\ C \in Nat /\ D \in Nat /\ Owing(clAt[l]) \in Int /\ Owing(to) \in Int
  BY LookupsAtFinite DEF Owing
<1>3. B - D = A - C + Owing(to) - Owing(clAt[l])
  BY <1>1, OwingMoves, Zenon
<1>5. Cardinality(DOMAIN clCache) \in Nat /\ Cardinality(DOMAIN clCache') \in Nat
  BY FS_CardinalityType, Zenon DEF NcInv, NcTypes
<1>6. clSize = Cardinality(DOMAIN clCache) - A + C /\ clSize \in Int
  BY Zenon DEF NcInv, NcExact, NcTypes
<1>7. clSize' = Cardinality(DOMAIN clCache') - B + D
  <2> HIDE DEF A, B, C, D
  <2> QED  BY <1>2, <1>3, <1>5, <1>6
<1> QED  BY <1>1, <1>7, Zenon DEF NcInv, NcExact, NcTypes

\* In particular a step that touches neither the entries nor the size, and leaves
\* a lookup owing what it did.
LEMMA NcMovesOn ==
    ASSUME NcInv, NEW l \in Lookups, NEW to \in NcPoints, Goes(l, to),
           UNCHANGED <<clCache, clSize>>, Owing(clAt[l]) = 0, Owing(to) = 0
    PROVE  NcInv'
<1>1. clSize \in Int /\ IsFiniteSet(DOMAIN clCache) /\ Cardinality(DOMAIN clCache) \in Nat
  BY FS_CardinalityType, Zenon DEF NcInv, NcTypes
<1> QED  BY <1>1, NcOneMoves

\* What putting and dropping an entry does to the number of entries.
LEMMA CacheChanges ==
    ASSUME NEW f, IsFiniteSet(DOMAIN f), NEW u, NEW v
    PROVE  /\ IsFiniteSet(DOMAIN Put(f, u, v)) /\ IsFiniteSet(DOMAIN Drop(f, {u}))
           /\ Cardinality(DOMAIN f) \in Nat
           /\ Cardinality(DOMAIN Put(f, u, v)) = Cardinality(DOMAIN f) + IF u \in DOMAIN f THEN 0 ELSE 1
           /\ u \in DOMAIN f => Cardinality(DOMAIN Drop(f, {u})) = Cardinality(DOMAIN f) - 1
<1>1. DOMAIN Put(f, u, v) = DOMAIN f \cup {u} /\ DOMAIN Drop(f, {u}) = DOMAIN f \ {u}
  BY Zenon DEF Put, Drop
<1>2. Cardinality(DOMAIN f) \in Nat
  BY FS_CardinalityType, Zenon
<1> QED  BY <1>1, <1>2, FS_AddElement, FS_RemoveElement

\* Every step of a lookup, and every expiry, keeps the count.
LEMMA NcCountStep ==
    ASSUME NcInv, NcNext
    PROVE  NcInv'
<1>p. {"load", "drop", "do", "lead", "wait", "store", "evict", "done", "add", "sub_do", "sub_evict", "sub_done"} = NcPoints
  BY DEF NcPoints, AddPoints, SubPoints
<1>o. /\ Owing("add") = 1 /\ Owing("sub_do") = 0 - 1 /\ Owing("sub_evict") = 0 - 1 /\ Owing("sub_done") = 0 - 1
      /\ \A w \in {"load", "do", "drop", "done", "wait", "lead", "store", "evict"} : Owing(w) = 0
  BY DEF Owing, AddPoints, SubPoints
<1>0. clSize \in Int /\ IsFiniteSet(DOMAIN clCache) /\ Cardinality(DOMAIN clCache) \in Nat
  BY FS_CardinalityType, Zenon DEF NcInv, NcTypes
<1>1. ASSUME NEW u, Expires(u)  PROVE NcInv'
  <2>1. DOMAIN clCache' = DOMAIN clCache /\ clSize' = clSize /\ clAt' = clAt
    BY <1>1, Zenon DEF Expires
  <2> QED  BY <2>1, Zenon DEF NcInv, NcTypes, NcExact
<1>2. ASSUME NEW l \in Lookups, LoadEntry(l)  PROVE NcInv'
  <2>1. clAt[l] = "load" /\ (Goes(l, "do") \/ Goes(l, "drop") \/ Goes(l, "done")) /\ UNCHANGED <<clCache, clSize>>
    BY <1>2, Zenon DEF LoadEntry
  <2> QED  BY <1>o, <2>1, <1>p, NcMovesOn, Zenon
<1>3. ASSUME NEW l \in Lookups, DropExpired(l)  PROVE NcInv'
  <2>1. CASE Same(l)
    <3>1. clAt[l] = "drop" /\ Goes(l, "sub_do") /\ clCache' = Drop(clCache, {ClLookups[l]}) /\ clSize' = clSize
      BY <1>3, <2>1, Zenon DEF DropExpired
    <3>2. ClLookups[l] \in DOMAIN clCache
      BY <2>1, Zenon DEF Same
    <3>3. IsFiniteSet(DOMAIN clCache') /\ Cardinality(DOMAIN clCache') = Cardinality(DOMAIN clCache) - 1
      BY <1>0, <3>1, <3>2, CacheChanges, Zenon
    <3>4. clSize' - clSize = Cardinality(DOMAIN clCache') - Cardinality(DOMAIN clCache) + Owing(clAt[l]) - Owing("sub_do")
      BY <1>0, <1>o, <3>1, <3>3
    <3> QED  BY <1>0, <3>1, <3>3, <3>4, <1>p, NcOneMoves, Zenon
  <2>2. CASE ~ Same(l)
    <3>1. clAt[l] = "drop" /\ Goes(l, "do") /\ UNCHANGED <<clCache, clSize>>
      BY <1>3, <2>2, Zenon DEF DropExpired
    <3> QED  BY <1>o, <3>1, <1>p, NcMovesOn, Zenon
  <2> QED  BY <2>1, <2>2, Zenon
<1>4. ASSUME NEW l \in Lookups, CountDown(l)  PROVE NcInv'
  <2>1. /\ clAt[l] \in {"sub_do", "sub_evict", "sub_done"} /\ clSize' = clSize - 1 /\ UNCHANGED clCache
        /\ Goes(l, "do") \/ Goes(l, "evict") \/ Goes(l, "done")
    BY <1>4 DEF CountDown
  <2>2. ASSUME NEW to \in {"do", "evict", "done"}
        PROVE  clSize' - clSize = Cardinality(DOMAIN clCache') - Cardinality(DOMAIN clCache) + Owing(clAt[l]) - Owing(to)
    BY <1>0, <1>o, <2>1
  <2> QED  BY <1>0, <2>1, <2>2, <1>p, NcOneMoves
<1>5. ASSUME NEW l \in Lookups, Do(l)  PROVE NcInv'
  <2>1. clAt[l] = "do" /\ (Goes(l, "wait") \/ Goes(l, "lead")) /\ UNCHANGED <<clCache, clSize>>
    BY <1>5, Zenon DEF Do
  <2> QED  BY <1>o, <2>1, <1>p, NcMovesOn, Zenon
<1>6. ASSUME NEW l \in Lookups, QueryEnds(l)  PROVE NcInv'
  <2>1. UNCHANGED <<clCache, clSize>> /\ clAt' \in [Lookups -> NcPoints]
    BY <1>6, <1>p DEF QueryEnds, NcInv, NcTypes
  <2>2. \A x \in Lookups : clAt'[x] = clAt[x] \/ (clAt[x] \in {"lead", "wait"} /\ clAt'[x] \in {"store", "done"})
    BY <1>6, <1>p DEF QueryEnds, NcInv, NcTypes
  <2>3. LookupsAt(clAt', AddPoints) = LookupsAt(clAt, AddPoints)
    BY <2>2 DEF LookupsAt, AddPoints, SubPoints
  <2>4. LookupsAt(clAt', SubPoints) = LookupsAt(clAt, SubPoints)
    BY <2>2 DEF LookupsAt, AddPoints, SubPoints
  <2> QED  BY <2>1, <2>3, <2>4, Zenon DEF NcInv, NcTypes, NcExact
<1>7. ASSUME NEW l \in Lookups, StoreEntry(l)  PROVE NcInv'
  <2>1. PICK v : clCache' = Put(clCache, ClLookups[l], v)
    BY <1>7, Zenon DEF StoreEntry
  <2>2. IsFiniteSet(DOMAIN clCache')
        /\ Cardinality(DOMAIN clCache') = Cardinality(DOMAIN clCache) + IF ClLookups[l] \in DOMAIN clCache THEN 0 ELSE 1
    BY <1>0, <2>1, CacheChanges, Zenon
  <2>3. clAt[l] = "store" /\ clSize' = clSize /\ Goes(l, IF ClLookups[l] \in DOMAIN clCache THEN "done" ELSE "add")
    BY <1>7, Zenon DEF StoreEntry
  <2>4. PICK to \in {"done", "add"} : to = IF ClLookups[l] \in DOMAIN clCache THEN "done" ELSE "add"
    BY Zenon
  <2>5. clSize' - clSize = Cardinality(DOMAIN clCache') - Cardinality(DOMAIN clCache) + Owing(clAt[l]) - Owing(to)
    BY <1>0, <1>o, <2>2, <2>3, <2>4
  <2> QED  BY <1>0, <2>2, <2>3, <2>4, <2>5, <1>p, NcOneMoves
<1>8. ASSUME NEW l \in Lookups, CountUp(l)  PROVE NcInv'
  <2>1. clAt[l] = "add" /\ (Goes(l, "evict") \/ Goes(l, "done")) /\ clSize' = clSize + 1 /\ UNCHANGED clCache
    BY <1>8, Zenon DEF CountUp
  <2>2. ASSUME NEW to \in {"evict", "done"}
        PROVE  clSize' - clSize = Cardinality(DOMAIN clCache') - Cardinality(DOMAIN clCache) + Owing(clAt[l]) - Owing(to)
    BY <1>0, <1>o, <2>1
  <2> QED  BY <1>0, <2>1, <2>2, <1>p, NcOneMoves
<1>9. ASSUME NEW l \in Lookups, evictExpired(l)  PROVE NcInv'
  <2>1. clAt[l] = "evict" /\ clSize' = clSize
    BY <1>9, Zenon DEF evictExpired
  <2>2. \/ UNCHANGED <<clCache, clAt>>
        \/ UNCHANGED clCache /\ Goes(l, "done")
        \/ \E u \in DOMAIN clCache : clCache' = Drop(clCache, {u}) /\ (Goes(l, "sub_evict") \/ Goes(l, "sub_done"))
    BY <1>9, Zenon DEF evictExpired, Same
  <2>3. CASE UNCHANGED <<clCache, clAt>>
    BY <2>1, <2>3, Zenon DEF NcInv, NcTypes, NcExact
  <2>4. CASE UNCHANGED clCache /\ Goes(l, "done")
    BY <1>o, <2>1, <2>4, <1>p, NcMovesOn, Zenon
  <2>5. ASSUME NEW u \in DOMAIN clCache, clCache' = Drop(clCache, {u}), Goes(l, "sub_evict") \/ Goes(l, "sub_done")
        PROVE  NcInv'
    <3>1. IsFiniteSet(DOMAIN clCache') /\ Cardinality(DOMAIN clCache') = Cardinality(DOMAIN clCache) - 1
      BY <1>0, <2>5, CacheChanges, Zenon
    <3>2. ASSUME NEW to \in {"sub_evict", "sub_done"}
          PROVE  clSize' - clSize = Cardinality(DOMAIN clCache') - Cardinality(DOMAIN clCache) + Owing(clAt[l]) - Owing(to)
      BY <1>0, <1>o, <2>1, <3>1
    <3> QED  BY <1>0, <2>1, <2>5, <3>1, <3>2, <1>p, NcOneMoves
  <2> QED  BY <2>2, <2>3, <2>4, <2>5, Zenon
<1> QED  BY <1>1, <1>2, <1>3, <1>4, <1>5, <1>6, <1>7, <1>8, <1>9, Zenon DEF NcNext, NcStep

-----------------------------------------------------------------------------
(* The registry and the pool.                                              *)

NrTypes ==
    /\ clRun \in [ClNodes -> {"down", "up", "stopped", "left"}]
    /\ clLoop \in [ClNodes -> {"off", "register", "first_refresh", "first_delete", "start", "idle", "refresh", "delete"}]
    /\ clLeft \subseteq ClNodes
    /\ DOMAIN clKnown = ClNodes /\ DOMAIN clConns = ClNodes /\ DOMAIN clLate = ClNodes

\* A node is on its way out once its loop cannot register it again: at most the
\* tick under way is still to end, and afterwards the node is in no registry.
LeavingStaysOut ==
    \A n \in clLeft :
        /\ clRun[n] # "up"
        /\ clRun[n] = "stopped" => clLoop[n] \in {"off", "idle", "refresh", "delete"}
        /\ clRun[n] \in {"left", "down"} => clLoop[n] = "off" /\ n \notin DOMAIN clAddrs

NrInv == NrTypes /\ LeavingStaysOut /\ PoolFollowsRegistry

\* The types of the registry hold at every step.
LEMMA NrTypesStep ==
    ASSUME NrTypes, NrNext
    PROVE  NrTypes'
<1>1. ASSUME NEW n \in ClNodes, startNodeGRPC(n)  PROVE NrTypes'
  BY <1>1 DEF NrTypes, startNodeGRPC, LoopAt
<1>2. ASSUME NEW n \in ClNodes, NrStep(n)  PROVE NrTypes'
  <2>1. CASE registerNode(n)
    BY <2>1 DEF NrTypes, registerNode, LoopAt
  <2>2. CASE refreshNodes(n)
    BY <2>2 DEF NrTypes, refreshNodes, LoopAt, AfterRefresh, RemoveConns
  <2>3. CASE DeleteExpired(n)
    BY <2>3 DEF NrTypes, DeleteExpired, LoopAt, AfterRefresh
  <2>4. CASE RegisterReturns(n) \/ refreshLoop(n)
    BY <2>4 DEF NrTypes, RegisterReturns, refreshLoop, LoopAt
  <2> QED  BY <1>2, <2>1, <2>2, <2>3, <2>4, Zenon DEF NrStep
<1>3. ASSUME NEW n \in ClNodes, GetClient(n) \/ (\E m \in ClNodes : GetNodeAddr(n, m)) \/ HeartbeatAges(n)  PROVE NrTypes'
  BY <1>3 DEF NrTypes, GetClient, GetNodeAddr, HeartbeatAges
<1>4. ASSUME NEW n \in ClNodes, StopRegistry(n) \/ UnregisterNode(n)  PROVE NrTypes'
  BY <1>4 DEF NrTypes, StopRegistry, UnregisterNode, Stepped
<1>5. ASSUME NEW n \in ClNodes, stopNodeGRPC(n) \/ CrashNode(n)  PROVE NrTypes'
  BY <1>5 DEF NrTypes, stopNodeGRPC, CrashNode, ProcessEnds, LoopAt
<1>6. CASE KeysExpire
  BY <1>6 DEF NrTypes, KeysExpire
<1> QED  BY <1>1, <1>2, <1>3, <1>4, <1>5, <1>6, Zenon DEF NrNext

\* A node that left stays out: only its own loop puts it into the registry.
LEMMA LeavingStep ==
    ASSUME NrTypes, LeavingStaysOut, NrNext
    PROVE  LeavingStaysOut'
<1> DEFINE Out(n) == n \in clLeft' =>
             /\ clRun'[n] # "up"
             /\ clRun'[n] = "stopped" => clLoop'[n] \in {"off", "idle", "refresh", "delete"}
             /\ clRun'[n] \in {"left", "down"} => clLoop'[n] = "off" /\ n \notin DOMAIN clAddrs'
<1> SUFFICES ASSUME NEW x \in ClNodes  PROVE Out(x)
  <2>1. NrTypes'
    BY NrTypesStep, Zenon
  <2> QED  BY <2>1, Zenon DEF LeavingStaysOut, NrTypes
<1>1. ASSUME NEW n \in ClNodes, startNodeGRPC(n)  PROVE Out(x)
  BY <1>1 DEF NrTypes, LeavingStaysOut, startNodeGRPC, LoopAt
<1>2. ASSUME NEW n \in ClNodes, NrStep(n)  PROVE Out(x)
  <2>1. CASE registerNode(n)
    BY <2>1 DEF NrTypes, LeavingStaysOut, registerNode, LoopAt, Put
  <2>2. CASE refreshNodes(n)
    <3>1. /\ UNCHANGED <<clRun, clAddrs, clLeft>> /\ clLoop[n] \in {"first_refresh", "refresh"}
          /\ \/ LoopAt(n, AfterRefresh(n)) \/ LoopAt(n, IF clLoop[n] = "first_refresh" THEN "first_delete" ELSE "delete")
             \/ LoopAt(n, IF clLoop[n] = "first_refresh" THEN "off" ELSE "idle")
      BY <2>2, Zenon DEF refreshNodes
    <3> QED  BY <3>1 DEF NrTypes, LeavingStaysOut, LoopAt, AfterRefresh
  <2>3. CASE DeleteExpired(n)
    BY <2>3 DEF NrTypes, LeavingStaysOut, DeleteExpired, LoopAt, AfterRefresh, Drop
  <2>4. CASE RegisterReturns(n) \/ refreshLoop(n)
    BY <2>4 DEF NrTypes, LeavingStaysOut, RegisterReturns, refreshLoop, LoopAt
  <2> QED  BY <1>2, <2>1, <2>2, <2>3, <2>4, Zenon DEF NrStep
<1>3. ASSUME NEW n \in ClNodes, GetClient(n) \/ (\E m \in ClNodes : GetNodeAddr(n, m)) \/ HeartbeatAges(n)  PROVE Out(x)
  BY <1>3 DEF NrTypes, LeavingStaysOut, GetClient, GetNodeAddr, HeartbeatAges
<1>4. ASSUME NEW n \in ClNodes, StopRegistry(n)  PROVE Out(x)
  BY <1>4 DEF NrTypes, LeavingStaysOut, StopRegistry, Stepped
<1>5. ASSUME NEW n \in ClNodes, UnregisterNode(n)  PROVE Out(x)
  BY <1>5 DEF NrTypes, LeavingStaysOut, UnregisterNode, Stepped, Drop
<1>6. ASSUME NEW n \in ClNodes, stopNodeGRPC(n) \/ CrashNode(n)  PROVE Out(x)
  BY <1>6 DEF NrTypes, LeavingStaysOut, stopNodeGRPC, CrashNode, ProcessEnds, LoopAt
<1>7. CASE KeysExpire
  BY <1>7 DEF NrTypes, LeavingStaysOut, KeysExpire
<1> QED  BY <1>1, <1>2, <1>3, <1>4, <1>5, <1>6, <1>7, Zenon DEF NrNext

\* The pool follows the registry: a refresh drops the connections to the addresses
\* it forgets, except to those of nodes that moved and expired at once.
LEMMA PoolStep ==
    ASSUME NrTypes, PoolFollowsRegistry, NrNext
    PROVE  PoolFollowsRegistry'
<1> DEFINE Known(k, n) == {k[n][m] : m \in DOMAIN k[n]}
           Follows(n) == clConns'[n] \subseteq Known(clKnown', n) \cup clLate'[n]
<1> SUFFICES ASSUME NEW x \in ClNodes  PROVE Follows(x)
  BY Zenon DEF PoolFollowsRegistry
<1>0. clConns[x] \subseteq Known(clKnown, x) \cup clLate[x]
  BY Zenon DEF PoolFollowsRegistry
<1>1. ASSUME UNCHANGED <<clKnown, clConns, clLate>>  PROVE Follows(x)
  BY <1>0, <1>1, Zenon
<1>2. ASSUME NEW n \in ClNodes, refreshNodes(n)  PROVE Follows(x)
  <2> DEFINE known == clKnown[n]
             gone == DOMAIN known \ DOMAIN clAddrs
             expired == {m \in DOMAIN clAddrs : m \notin DOMAIN clBeats \/ clBeats[m] = "stale"}
             out == Evicted(n, gone, expired)
  <2>1. CASE /\ clKnown' = [clKnown EXCEPT ![n] = Drop(clAddrs, expired)]
             /\ RemoveConns(n, out)
             /\ clLate' = [clLate EXCEPT ![n] = (@ \ out) \cup {known[m] : m \in {y \in expired \cap DOMAIN known : known[y] # clAddrs[y]}}]
    <3> HIDE DEF expired
    <3>1. CASE x # n
      BY <1>0, <2>1, <3>1 DEF NrTypes, RemoveConns
    <3>2. CASE x = n
      <4>1. /\ clKnown'[n] = Drop(clAddrs, expired) /\ clConns'[n] = clConns[n] \ out
            /\ clLate'[n] = (clLate[n] \ out) \cup {known[m] : m \in {y \in expired \cap DOMAIN known : known[y] # clAddrs[y]}}
        BY <2>1, Zenon DEF NrTypes, RemoveConns
      <4> SUFFICES ASSUME NEW a \in clConns[n], a \notin out  PROVE a \in Known(clKnown', n) \cup clLate'[n]
        BY <3>2, <4>1, Zenon
      <4>2. CASE a \in clLate[n]
        BY <4>1, <4>2, Zenon
      <4>3. CASE a \in Known(clKnown, n)
        <5>1. PICK m \in DOMAIN known : a = known[m]
          BY <4>3, Zenon
        <5>2. m \notin gone
          BY <5>1, Zenon DEF Evicted
        <5>3. CASE m \in expired
          <6>1. clAddrs[m] \in out
            BY <5>3, Zenon DEF Evicted
          <6>2. known[m] # clAddrs[m]
            BY <5>1, <6>1, Zenon
          <6> QED  BY <4>1, <5>1, <5>3, <6>2, Zenon
        <5>4. CASE m \notin expired
          <6>1. known[m] = clAddrs[m]
            BY <5>1, <5>2, <5>4, Zenon DEF Evicted
          <6>2. m \in DOMAIN Drop(clAddrs, expired) /\ Drop(clAddrs, expired)[m] = clAddrs[m]
            BY <5>1, <5>2, <5>4, Zenon DEF Drop
          <6> QED  BY <4>1, <5>1, <6>1, <6>2, Zenon
        <5> QED  BY <5>3, <5>4, Zenon
      <4> QED  BY <1>0, <3>2, <4>2, <4>3, Zenon
    <3> QED  BY <3>1, <3>2, Zenon
  <2>2. CASE UNCHANGED <<clKnown, clConns, clLate>>
    BY <1>1, <2>2, Zenon
  <2> QED  BY <1>2, <2>1, <2>2, Zenon DEF refreshNodes
<1>3. ASSUME NEW n \in ClNodes, GetClient(n)  PROVE Follows(x)
  <2>1. CASE x # n
    BY <1>0, <1>3, <2>1 DEF NrTypes, GetClient
  <2>2. CASE x = n
    <3>1. /\ clKnown' = clKnown /\ clConns'[n] = clConns[n] \cup {clDial[n]}
          /\ clLate'[n] = IF clDial[n] \in Known(clKnown, n) THEN clLate[n] ELSE clLate[n] \cup {clDial[n]}
      BY <1>3, Zenon DEF NrTypes, GetClient
    <3> HIDE DEF Known
    <3> QED  BY <1>0, <2>2, <3>1
  <2> QED  BY <2>1, <2>2, Zenon
<1>4. ASSUME NEW n \in ClNodes, stopNodeGRPC(n) \/ CrashNode(n)  PROVE Follows(x)
  BY <1>0, <1>4 DEF NrTypes, stopNodeGRPC, CrashNode, ProcessEnds
<1>5. ASSUME NEW n \in ClNodes, NrStep(n)  PROVE Follows(x)
  BY <1>1, <1>2, <1>5, Zenon DEF NrStep, registerNode, DeleteExpired, RegisterReturns, refreshLoop
<1>6. ASSUME NEW n \in ClNodes,
             \/ startNodeGRPC(n) \/ (\E m \in ClNodes : GetNodeAddr(n, m)) \/ StopRegistry(n)
             \/ UnregisterNode(n) \/ HeartbeatAges(n)
      PROVE  Follows(x)
  BY <1>1, <1>6, Zenon DEF startNodeGRPC, GetNodeAddr, StopRegistry, UnregisterNode, HeartbeatAges
<1>7. CASE KeysExpire
  BY <1>1, <1>7, Zenon DEF KeysExpire
<1> QED  BY <1>3, <1>4, <1>5, <1>6, <1>7, Zenon DEF NrNext

-----------------------------------------------------------------------------
(* Together.                                                               *)

\* What connects the nodes starts out in agreement.
LEMMA LinksStart == LinksInit => NcInv /\ NrInv
<1> SUFFICES ASSUME LinksInit  PROVE NcInv /\ NrInv
  OBVIOUS
<1>1. DOMAIN clCache = {} /\ clSize = 0 /\ clAt = [l \in Lookups |-> "load"]
  BY DEF LinksInit, NewNodeIndexCache
<1>2. LookupsAt(clAt, AddPoints) = {} /\ LookupsAt(clAt, SubPoints) = {}
  BY <1>1 DEF LookupsAt, AddPoints, SubPoints
<1>3. IsFiniteSet(DOMAIN clCache) /\ Cardinality(DOMAIN clCache) = 0 /\ Cardinality({}) = 0
  BY <1>1, FS_EmptySet, Zenon
<1>4. NcExact
  <2>1. clSize = 0 - 0 + 0
    BY <1>1
  <2> QED  BY <1>2, <1>3, <2>1, Zenon DEF NcExact
<1>5. clSize \in Int /\ clAt \in [Lookups -> NcPoints]
  BY <1>1 DEF NcPoints
<1>6. NrTypes /\ LeavingStaysOut
  BY DEF LinksInit, InitNodeGRPC, NrTypes, LeavingStaysOut
<1>7. PoolFollowsRegistry
  BY DEF LinksInit, InitNodeGRPC, PoolFollowsRegistry
<1> QED  BY <1>3, <1>4, <1>5, <1>6, <1>7, Zenon DEF NcInv, NcTypes, NrInv

\* Agreement follows from the invariants of the two parts.
LEMMA LinksImply == NcInv /\ NrInv => LinksAgree
BY NcExactIs, Zenon DEF LinksAgree, NcInv, NrInv, LeavingStaysOut, UnregisteredStaysOut

\* What a node keeps of the others agrees with its source whatever lookups run at
\* once and whichever nodes come, go, crash or lose Redis: the count of the node
\* cache is exact (load, store, evictExpired), a node that unregistered after its
\* loop ended stays out (stopNodeGRPC), and the pool keeps no connection to an
\* address that the registry forgot, up to the late ones (refreshNodes).
THEOREM LinksAlwaysAgree == LinksSpec => []LinksAgree
<1>1. ASSUME NcInv, NrInv, [LinksNext]_<<clGbVars, clNcVars, clNrVars>>  PROVE NcInv' /\ NrInv'
  <2>1. ASSUME UNCHANGED clNcVars  PROVE NcInv'
    BY <1>1, <2>1, Zenon DEF clNcVars, NcInv, NcTypes, NcExact
  <2>2. ASSUME UNCHANGED clNrVars  PROVE NrInv'
    BY <1>1, <2>2, Zenon DEF clNrVars, NrInv, NrTypes, LeavingStaysOut, PoolFollowsRegistry
  <2>3. ASSUME NrNext  PROVE NrInv'
    BY <1>1, <2>3, NrTypesStep, LeavingStep, PoolStep, Zenon DEF NrInv
  <2>4. ASSUME NcNext  PROVE NcInv'
    BY <1>1, <2>4, NcCountStep, Zenon
  <2>5. CASE LinksNext
    BY <2>1, <2>2, <2>3, <2>4, <2>5, Zenon DEF LinksNext
  <2>6. CASE UNCHANGED <<clGbVars, clNcVars, clNrVars>>
    BY <2>1, <2>2, <2>6, Zenon
  <2> QED  BY <1>1, <2>5, <2>6, Zenon
<1> QED  BY <1>1, LinksStart, LinksImply, PTL DEF LinksSpec
=============================================================================
