---------------------------- MODULE OnlineIndex ----------------------------
(***************************************************************************)
(* The cluster-wide index of who is online and where.  Redis keeps for     *)
(* each client its details, the node that owns it and its place in the     *)
(* sorted sets of its user, for each user the nodes to route to, and for   *)
(* each namespace a bitmap with one bit per user.  Nodes write it with     *)
(* three scripts: online (registration, rebuild), renew (heartbeats) and   *)
(* offline (shutdown, self-heal).  A connection that ends writes nothing.  *)
(*                                                                         *)
(* A lifetime is the number of ticks left, so that time needs no bound.    *)
(* The four keys of a client are written and renewed together and share    *)
(* one lifetime.  Scripts work on the clients of a chunk one after the     *)
(* other; a step is one client.  The sets per node and per user type are   *)
(* written like allUsers and read for display only: they are left out.     *)
(***************************************************************************)
EXTENDS Integers, Sequences, FiniteSets

CONSTANTS Nodes, Users, Namespaces, Clients,
          UserOf, NsOf,  \* user and namespace of a client
          Global,        \* the bitmap and the envelope of all namespaces
          None,          \* no node
          BitmapTTL,     \* lifetime of a bitmap
          MaxOffset,     \* offsets from here on have no bit; 0 is no limit
          Setups         \* lifetimes, where clients connect to, and bounds

ASSUME IndexAssumption ==
  /\ UserOf \in [Clients -> Users] /\ NsOf \in [Clients -> Namespaces]
  /\ Setups \subseteq [ttl : Nat \ {0}, route : [Clients -> Seq(SUBSET Nodes)],
                       faults : Nat]
  /\ IsFiniteSet(Users)
  /\ Global \notin Namespaces /\ None \notin Nodes
  /\ BitmapTTL \in Nat \ {0} /\ MaxOffset \in Nat

Gone == -1                             \* no member of a sorted set, no offset
Bitmaps == Namespaces \cup {Global}
Keys == {"detail", "owner", "scoped", "unscoped"}

VARIABLES
  setup,      \* one of Setups: ttl is the lifetime of an entry, in ticks;
              \* route bounds the connections of a client and the nodes of
              \* each, faults the evictions, failures, shutdowns and crashes
  status,     \* of a node: "up", "closing", "down"
  gen,        \* connections a client has made so far: the time of the latest
  at,         \* the node that holds the latest connection while it lives
  local,      \* shardedRegistry: the connection of a client on a node, 0 if none
  tasks,      \* record pool: registrations to write to Redis
  reclaims,   \* client_reclaim messages in transit
  renewing,   \* clients of a flush, to be renewed by the script
  missing,    \* clients the script reported missing
  dead,       \* clients self-heal or shutdown will set offline
  has,        \* the keys of a client in Redis
  life,       \* their lifetime
  home,       \* the node in details and owner
  allUsers,   \* lifetime of a user in all_users
  nodes,      \* of a user: lifetime of the member <<ns, node>>
  bits,       \* users whose bit is set
  bmLife,     \* lifetime of a bitmap
  offset,     \* uid_map
  faults      \* those so far

index == <<has, life, home, allUsers, nodes, bits, bmLife, offset>>
conns == <<gen, at, local>>
work == <<tasks, renewing, missing, dead>>
vars == <<setup, status, conns, work, reclaims, index, faults>>

TTL == setup.ttl

Task == [client : Clients, gen : Nat, from : Nodes \cup {None}]

TypeOK ==
  /\ status \in [Nodes -> {"up", "closing", "down"}]
  /\ gen \in [Clients -> Nat] /\ at \in [Clients -> Nodes \cup {None}]
  /\ local \in [Nodes -> [Clients -> Nat]]
  /\ tasks \in [Nodes -> SUBSET Task]
  /\ reclaims \in SUBSET [to : Nodes, client : Clients, gen : Nat]
  /\ \A w \in {renewing, missing, dead} : w \in [Nodes -> SUBSET Clients]
  /\ has \in [Clients -> SUBSET Keys] /\ life \in [Clients -> 0..TTL]
  /\ home \in [Clients -> Nodes \cup {None}]
  /\ allUsers \in [Users -> 0..TTL]
  /\ nodes \in [Users -> [Namespaces \X Nodes -> Gone..TTL]]
  /\ bits \in [Bitmaps -> SUBSET Users] /\ bmLife \in [Bitmaps -> 0..BitmapTTL]
  /\ offset \in [Users -> Int]
  /\ setup \in Setups
  /\ faults \in 0..setup.faults

Init ==
  /\ status = [n \in Nodes |-> "up"]
  /\ gen = [c \in Clients |-> 0] /\ at = [c \in Clients |-> None]
  /\ local = [n \in Nodes |-> [c \in Clients |-> 0]]
  /\ tasks = [n \in Nodes |-> {}] /\ reclaims = {}
  /\ renewing = [n \in Nodes |-> {}]
  /\ missing = [n \in Nodes |-> {}] /\ dead = [n \in Nodes |-> {}]
  /\ has = [c \in Clients |-> {}] /\ life = [c \in Clients |-> 0]
  /\ home = [c \in Clients |-> None]
  /\ allUsers = [u \in Users |-> 0]
  /\ nodes = [u \in Users |-> [m \in Namespaces \X Nodes |-> Gone]]
  /\ bits = [k \in Bitmaps |-> {}] /\ bmLife = [k \in Bitmaps |-> 0]
  /\ offset = [u \in Users |-> Gone]
  /\ setup \in Setups
  /\ faults = 0

-----------------------------------------------------------------------------
(* What the index answers. *)

ClientsIn(k, u) == {c \in Clients : UserOf[c] = u /\ k \in {Global, NsOf[c]}}

HasBit(off) == off # Gone /\ (MaxOffset = 0 \/ off < MaxOffset)

GetClientOwner(c) == IF "owner" \in has[c] THEN home[c] ELSE None

GetUserClients(k, u) ==
  {c \in ClientsIn(k, u) : {"detail", IF k = Global THEN "unscoped" ELSE "scoped"}
                             \subseteq has[c]}

zcountScoped(k, u) ==
  IF k = Global THEN GetUserClients(k, u) # {}
  ELSE \E c \in ClientsIn(k, u) : "scoped" \in has[c]

\* Fault: a bit that is not set means offline.
IsUserOnline_NoFallback(k, u) == HasBit(offset[u]) /\ u \in bits[k]

IsUserOnline(k, u) ==
  /\ offset[u] # Gone
  /\ (HasBit(offset[u]) /\ u \in bits[k]) \/ zcountScoped(k, u)

\* Fault: users without a bit are not counted.
BatchIsUserOnline_NoCount(k, us) == {u \in us : HasBit(offset[u]) /\ u \in bits[k]}

\* Three round trips for many users: offsets, bits, and counts for those without
\* a bit; the whole application is asked for user by user.
BatchIsUserOnline(k, us) ==
  LET known == {u \in us : offset[u] # Gone}
      lit == {u \in known : HasBit(offset[u]) /\ u \in bits[k]}
  IN  lit \cup {u \in known \ lit : IF k = Global THEN IsUserOnline(k, u) ELSE zcountScoped(k, u)}

\* Fault: members are returned whatever their score.
GetUserNodes_NoScore(k, u) ==
  {n \in Nodes : \E ns \in Namespaces : k \in {Global, ns} /\ nodes[u][<<ns, n>>] # Gone}

GetUserNodes(k, u) ==
  {n \in Nodes : \E ns \in Namespaces : k \in {Global, ns} /\ nodes[u][<<ns, n>>] > 0}

HasUser(n, k, u) == \E c \in ClientsIn(k, u) : local[n][c] # 0

-----------------------------------------------------------------------------
(* The three scripts, each on one client. *)

SetBits(ks, u) ==
  /\ bits' = [k \in Bitmaps |-> IF k \in ks THEN bits[k] \cup {u} ELSE bits[k]]
  /\ bmLife' = [k \in Bitmaps |-> IF k \in ks THEN BitmapTTL ELSE bmLife[k]]

Refresh(c) ==
  /\ life' = [life EXCEPT ![c] = TTL]
  /\ allUsers' = [allUsers EXCEPT ![UserOf[c]] = TTL]

SetClientOnline(n, c) ==
  LET u == UserOf[c]
      off == IF offset[u] # Gone THEN offset[u]
             ELSE Cardinality({v \in Users : offset[v] # Gone})
  IN  /\ offset' = [offset EXCEPT ![u] = off]
      /\ has' = [has EXCEPT ![c] = Keys]
      /\ home' = [home EXCEPT ![c] = n]
      /\ Refresh(c)
      /\ nodes' = [nodes EXCEPT ![u] =
                    [m \in Namespaces \X Nodes |->
                       IF m = <<NsOf[c], n>> THEN TTL
                       ELSE IF nodes[u][m] = 0 THEN Gone ELSE nodes[u][m]]]
      /\ IF HasBit(off) THEN SetBits({NsOf[c], Global}, u)
         ELSE UNCHANGED <<bits, bmLife>>

RenewClientOnline(n, c) ==
  LET u == UserOf[c]
  IN  /\ has' = [has EXCEPT ![c] = @ \cup {"scoped", "unscoped"}]
      /\ Refresh(c)
      /\ nodes' = [nodes EXCEPT ![u][<<NsOf[c], n>>] = TTL]
      /\ IF HasBit(offset[u])
         THEN SetBits({k \in {NsOf[c], Global} : 2 * bmLife[k] < BitmapTTL}, u)
         ELSE UNCHANGED <<bits, bmLife>>
      /\ UNCHANGED <<home, offset>>

Migrated(n, c) == GetClientOwner(c) \notin {None, n}

\* The user has no other client in the namespace; nor in any.
ScopedEmpty(c) ==
  \A d \in ClientsIn(NsOf[c], UserOf[c]) \ {c} : "scoped" \notin has[d]
AllEmpty(c) ==
  ScopedEmpty(c) /\ \A d \in ClientsIn(Global, UserOf[c]) \ {c} : "unscoped" \notin has[d]

Erase(c, scopedEmpty, allEmpty) ==
  /\ has' = [has EXCEPT ![c] = {}]
  /\ life' = [life EXCEPT ![c] = 0] /\ home' = [home EXCEPT ![c] = None]
  /\ bits' = [k \in Bitmaps |->
                IF (k = NsOf[c] /\ scopedEmpty) \/ (k = Global /\ allEmpty)
                THEN bits[k] \ {UserOf[c]} ELSE bits[k]]
  /\ allUsers' = [allUsers EXCEPT ![UserOf[c]] = IF allEmpty THEN 0 ELSE @]
  /\ UNCHANGED <<nodes, bmLife, offset>>

\* Fault: the user leaves all_users when one namespace is empty.
SetClientOffline_ScopedOnly(n, c) ==
  IF Migrated(n, c) THEN UNCHANGED index ELSE Erase(c, ScopedEmpty(c), ScopedEmpty(c))

\* Fault: the owner is not looked at.
SetClientOffline_AnyOwner(n, c) == Erase(c, ScopedEmpty(c), AllEmpty(c))

SetClientOffline(n, c) ==
  IF Migrated(n, c) THEN UNCHANGED index ELSE Erase(c, ScopedEmpty(c), AllEmpty(c))

-----------------------------------------------------------------------------
(* Connections.  A client may dial again before its old connection is       *)
(* noticed to be gone; the old one then stays in local of the other node.   *)

Register(n, c) ==
  /\ status[n] = "up" /\ gen[c] < Len(setup.route[c]) /\ n \in setup.route[c][gen[c] + 1]
  /\ gen' = [gen EXCEPT ![c] = @ + 1]
  /\ at' = [at EXCEPT ![c] = n]
  /\ local' = [local EXCEPT ![n][c] = gen[c] + 1]
  /\ tasks' = [tasks EXCEPT ![n] = @ \cup
                {[client |-> c, gen |-> gen[c] + 1, from |-> GetClientOwner(c)]}]
  /\ UNCHANGED <<setup, status, reclaims, renewing, missing, dead, index, faults>>

notifyClientReclaim(n, t) ==
  {[to |-> m, client |-> t.client, gen |-> t.gen] : m \in {t.from} \ {None, n}}

\* The record pool runs a registration's task: SyncOnlineStatus, then the
\* message to the node that owned the client before.
SyncOnlineStatus(n) ==
  /\ status[n] # "down"
  /\ \E t \in tasks[n] :
       /\ tasks' = [tasks EXCEPT ![n] = @ \ {t}]
       /\ SetClientOnline(n, t.client)
       /\ reclaims' = reclaims \cup notifyClientReclaim(n, t)
  /\ UNCHANGED <<setup, status, conns, renewing, missing, dead, faults>>

\* Fault: the connection is taken out whatever its age.
Ghost_Any(n, r) == local[n][r.client] > 0

\* The connection on the old node is older than the one that moved away.
Ghost(n, r) == 0 < local[n][r.client] /\ local[n][r.client] < r.gen

ClientReclaim(n) ==
  /\ status[n] = "up"
  /\ \E r \in reclaims :
       /\ r.to = n
       /\ reclaims' = reclaims \ {r}
       /\ local' = [local EXCEPT ![n][r.client] = IF Ghost(n, r) THEN 0 ELSE @]
  /\ UNCHANGED <<setup, status, gen, at, work, index, faults>>

\* The reader, the timer or a kick removes a connection: Redis is not told.
Unregister(n, c) ==
  /\ local[n][c] # 0
  /\ local' = [local EXCEPT ![n][c] = 0]
  /\ at' = [at EXCEPT ![c] = IF @ = n /\ local[n][c] = gen[c] THEN None ELSE @]
  /\ UNCHANGED <<setup, status, gen, work, reclaims, index, faults>>

-----------------------------------------------------------------------------
(* Heartbeats.  A flush leaves out connections that were closed since the   *)
(* heartbeat, so that a heartbeat counts from its flush on; the script runs *)
(* later and does not look again.                                           *)

Heartbeat(n, c) ==
  /\ status[n] = "up" /\ at[c] = n /\ local[n][c] = gen[c]
  /\ c \notin renewing[n] \cup missing[n]
  /\ renewing' = [renewing EXCEPT ![n] = @ \cup {c}]
  /\ UNCHANGED <<setup, status, conns, tasks, missing, dead, reclaims, index, faults>>

\* Fault: what the script reports missing is not rebuilt.
RenewClientsOnline_NoRebuild(n, c) ==
  /\ c \in renewing[n]
  /\ renewing' = [renewing EXCEPT ![n] = @ \ {c}]
  /\ IF "detail" \in has[c] THEN RenewClientOnline(n, c) ELSE UNCHANGED index
  /\ UNCHANGED <<setup, status, conns, tasks, missing, dead, reclaims, faults>>

RenewClientsOnline(n, c) ==
  /\ c \in renewing[n]
  /\ renewing' = [renewing EXCEPT ![n] = @ \ {c}]
  /\ \/ "detail" \in has[c] /\ RenewClientOnline(n, c) /\ UNCHANGED missing
     \/ /\ "detail" \notin has[c]
        /\ missing' = [missing EXCEPT ![n] = @ \cup {c}]
        /\ UNCHANGED index
  /\ UNCHANGED <<setup, status, conns, tasks, dead, reclaims, faults>>

Rebuild(n, c) ==
  /\ c \in missing[n]
  /\ missing' = [missing EXCEPT ![n] = @ \ {c}]
  /\ SetClientOnline(n, c)
  /\ UNCHANGED <<setup, status, conns, tasks, renewing, dead, reclaims, faults>>

-----------------------------------------------------------------------------
(* Removal of entries, end and restart of a node.                           *)

\* A message for a user that is not here: doSelfHealDeadIndexEntries reads the
\* entries that name this node, to set them offline.
SelfHeal(n, k, u) ==
  /\ status[n] = "up" /\ dead[n] = {} /\ ~HasUser(n, k, u)
  /\ dead' = [dead EXCEPT ![n] = {c \in GetUserClients(k, u) : home[c] = n}]
  /\ UNCHANGED <<setup, status, conns, tasks, renewing, missing, reclaims, index, faults>>

SetOffline(n) ==
  /\ \E c \in dead[n] :
       /\ dead' = [dead EXCEPT ![n] = @ \ {c}]
       /\ SetClientOffline(n, c)
  /\ UNCHANGED <<setup, status, conns, tasks, renewing, missing, reclaims, faults>>

Disconnect(n) ==
  /\ local' = [local EXCEPT ![n] = [c \in Clients |-> 0]]
  /\ at' = [c \in Clients |-> IF at[c] = n THEN None ELSE at[c]]
  /\ UNCHANGED gen

Shutdown(n) ==
  /\ status[n] = "up" /\ faults < setup.faults
  /\ status' = [status EXCEPT ![n] = "closing"]
  /\ faults' = faults + 1
  /\ dead' = [dead EXCEPT ![n] = @ \cup {c \in Clients : local[n][c] # 0}]
  /\ Disconnect(n)
  /\ UNCHANGED <<setup, tasks, renewing, missing, reclaims, index>>

Forget(n) ==
  /\ status' = [status EXCEPT ![n] = "down"]
  /\ tasks' = [tasks EXCEPT ![n] = {}]
  /\ renewing' = [renewing EXCEPT ![n] = {}] /\ missing' = [missing EXCEPT ![n] = {}]
  /\ dead' = [dead EXCEPT ![n] = {}]
  /\ reclaims' = {r \in reclaims : r.to # n}

Exit(n) ==
  /\ status[n] = "closing" /\ dead[n] = {}
  /\ Forget(n)
  /\ UNCHANGED <<setup, conns, index, faults>>

Crash(n) ==
  /\ status[n] # "down" /\ faults < setup.faults
  /\ faults' = faults + 1
  /\ Forget(n) /\ Disconnect(n)
  /\ UNCHANGED <<setup, index>>

Restart(n) ==
  /\ status[n] = "down"
  /\ status' = [status EXCEPT ![n] = "up"]
  /\ UNCHANGED <<setup, conns, work, reclaims, index, faults>>

-----------------------------------------------------------------------------
(* Time and faults.                                                         *)

Less(x) == IF x > 0 THEN x - 1 ELSE x

\* A key of members whose lifetimes are over is gone as a whole.
Aged(members) ==
  LET older == [m \in DOMAIN members |-> Less(members[m])]
  IN  IF \E m \in DOMAIN members : older[m] > 0 THEN older
      ELSE [m \in DOMAIN members |-> Gone]

Tick ==
  /\ life' = [c \in Clients |-> Less(life[c])]
  /\ has' = [c \in Clients |-> IF life[c] > 1 THEN has[c] ELSE {}]
  /\ home' = [c \in Clients |-> IF life[c] > 1 THEN home[c] ELSE None]
  /\ allUsers' = [u \in Users |-> Less(allUsers[u])]
  /\ nodes' = [u \in Users |-> Aged(nodes[u])]
  /\ bmLife' = [k \in Bitmaps |-> Less(bmLife[k])]
  /\ bits' = [k \in Bitmaps |-> IF bmLife[k] > 1 THEN bits[k] ELSE {}]
  /\ UNCHANGED <<setup, status, conns, work, reclaims, offset, faults>>

\* Redis evicts a key that has a lifetime.
Evict ==
  /\ faults < setup.faults /\ faults' = faults + 1
  /\ \/ /\ \E c \in Clients, key \in {"detail", "owner"} :
             has' = [has EXCEPT ![c] = @ \ {key}]
        /\ UNCHANGED <<nodes, bits, bmLife>>
     \/ /\ \E k \in Bitmaps, u \in Users :
             has' = [c \in Clients |->
                       IF c \in ClientsIn(k, u)
                       THEN has[c] \ {IF k = Global THEN "unscoped" ELSE "scoped"}
                       ELSE has[c]]
        /\ UNCHANGED <<nodes, bits, bmLife>>
     \/ /\ \E u \in Users :
             nodes' = [nodes EXCEPT ![u] = [m \in Namespaces \X Nodes |-> Gone]]
        /\ UNCHANGED <<has, bits, bmLife>>
     \/ /\ \E k \in Bitmaps : bits' = [bits EXCEPT ![k] = {}] /\ bmLife' = [bmLife EXCEPT ![k] = 0]
        /\ UNCHANGED <<has, nodes>>
  /\ UNCHANGED <<setup, status, conns, work, reclaims, life, home, allUsers, offset>>

\* The pool is full and drops a task, or a script call fails; the message to
\* the old owner is sent nevertheless.
Fail(n) ==
  /\ faults < setup.faults /\ faults' = faults + 1
  /\ \/ /\ \E t \in tasks[n] :
             /\ tasks' = [tasks EXCEPT ![n] = @ \ {t}]
             /\ reclaims' \in {reclaims, reclaims \cup notifyClientReclaim(n, t)}
        /\ UNCHANGED <<renewing, missing, dead>>
     \/ /\ renewing[n] # {} /\ renewing' = [renewing EXCEPT ![n] = {}]
        /\ UNCHANGED <<tasks, missing, dead, reclaims>>
     \/ /\ missing[n] # {} /\ missing' = [missing EXCEPT ![n] = {}]
        /\ UNCHANGED <<tasks, renewing, dead, reclaims>>
     \/ /\ dead[n] # {} /\ dead' = [dead EXCEPT ![n] = {}]
        /\ UNCHANGED <<tasks, renewing, missing, reclaims>>
  /\ UNCHANGED <<setup, status, conns, index>>

Next ==
  \/ Tick \/ Evict
  \/ \E n \in Nodes :
       \/ SyncOnlineStatus(n) \/ ClientReclaim(n) \/ SetOffline(n)
       \/ Shutdown(n) \/ Exit(n) \/ Crash(n) \/ Restart(n) \/ Fail(n)
       \/ \E c \in Clients : \/ Register(n, c) \/ Unregister(n, c) \/ Heartbeat(n, c)
                             \/ RenewClientsOnline(n, c) \/ Rebuild(n, c)
       \/ \E k \in Bitmaps, u \in Users : SelfHeal(n, k, u)

\* What is done for the heartbeats of a client; of its old connections at most
\* one each is left.
KeepAlive(c) ==
  \E n \in Nodes : Heartbeat(n, c) \/ RenewClientsOnline(n, c) \/ Rebuild(n, c)

Fairness ==
  /\ WF_vars(Tick)
  /\ WF_vars(\E n \in Nodes : SyncOnlineStatus(n) \/ SetOffline(n))
  /\ \A c \in Clients : WF_vars(KeepAlive(c))

Spec == Init /\ [][Next]_vars
FairSpec == Spec /\ Fairness

-----------------------------------------------------------------------------
(* Properties. *)

(* A user with a client in a sorted set is reported online, in the client's *)
(* namespace and, if the details are there, in the whole application: the   *)
(* bitmap may lose a bit, but IsUserOnline then counts (zcountScoped), and  *)
(* no user is indexed without the offset whose absence means "never seen".  *)
(* BatchIsUserOnline, which asks for many users at once, answers the same.  *)
IndexedIsOnline ==
  \A c \in Clients :
    LET known(k) == IsUserOnline(k, UserOf[c]) /\ UserOf[c] \in BatchIsUserOnline(k, Users)
    IN  /\ "scoped" \in has[c] => known(NsOf[c])
        /\ {"unscoped", "detail"} \subseteq has[c] => known(Global)

(* GetAllOnlineUsers names every user with an indexed client for as long as *)
(* the client's entry lives: the offline script takes a user out of         *)
(* all_users only with the last client in any namespace.                    *)
AllUsersCovers ==
  \A c \in Clients : "unscoped" \in has[c] => allUsers[UserOf[c]] >= life[c]

(* The connection a client uses stays registered until it ends: a reclaim   *)
(* message that arrives after the client has come back to the old node does *)
(* not take the new connection out (handleDistributedClientReclaim).        *)
LiveStaysRegistered ==
  \A c \in Clients : at[c] # None => local[at[c]][c] = gen[c]

(* Once the index names the node of a client's connection as its owner, no  *)
(* other node takes the client's keys away, neither one that shuts down     *)
(* with an old connection of the client nor one that heals its dead         *)
(* entries; only time, faults and a removal by the node itself do.          *)
OwnerKeepsIndex ==
  [][\A c \in Clients :
       /\ at[c] # None /\ GetClientOwner(c) = at[c] /\ c \notin dead[at[c]]
       => \/ has[c] \subseteq has'[c]
          \/ faults' # faults
          \/ Tick]_vars

(* A client that stays connected to a running node is again and again       *)
(* indexed and routed to, whatever was evicted, failed or was deleted by a  *)
(* self-heal that raced it: its heartbeats renew or rebuild the entry.      *)
Indexed(n, c) ==
  /\ {"scoped", "unscoped"} \subseteq has[c]
  /\ n \in GetUserNodes(NsOf[c], UserOf[c])

ConnectedIsVisible ==
  \A n \in Nodes, c \in Clients :
    <>[](at[c] = n /\ status[n] = "up") => []<>Indexed(n, c)

(* A node that keeps no connection of a user is in the end no longer routed *)
(* to, although no removal deletes the member of the node set and other     *)
(* nodes keep renewing the set; and a client that is gone leaves no keys.   *)
DeadEntriesFade ==
  /\ \A n \in Nodes, u \in Users :
       <>[](~HasUser(n, Global, u)) => <>[](n \notin GetUserNodes(Global, u))
  /\ \A c \in Clients :
       <>[](\A n \in Nodes : local[n][c] = 0) => <>[](has[c] = {})

(* A user without connections is in the end reported offline, as the        *)
(* comment on loadBitmapTTL says of a bitmap whose lifetime is that of the  *)
(* sorted sets.                                                             *)
OfflineIsNoticed ==
  \A u \in Users, k \in Namespaces :
    <>[](\A n \in Nodes : ~HasUser(n, Global, u)) => <>[](~IsUserOnline(k, u))
=============================================================================
