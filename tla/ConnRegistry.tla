---------------------------- MODULE ConnRegistry ----------------------------
(***************************************************************************)
(* The connections of one user on one node, from the WebSocket upgrade to  *)
(* the end of their pumps: the sharded registry and its indexes, the       *)
(* registration and unregistration goroutines of the Hub, the login        *)
(* policy and the heartbeat timer.                                         *)
(*                                                                         *)
(* A client ID is computed from the user, the device and a time window, so *)
(* a device that reconnects gets the ID of its old connection, which may   *)
(* still be registered.  A connection is a pair: its client ID and its     *)
(* place among the connections with that ID.  Registry, timer and indexes  *)
(* are keyed by the ID; the pump goroutines belong to the connection.      *)
(*                                                                         *)
(* The connections are WebSockets of an agent and all carry the same       *)
(* application, namespace, groups and attributes.                          *)
(***************************************************************************)
EXTENDS Integers, FiniteSets

CONSTANTS
    MaxDials,              \* bound: connections made
    MaxTasks,              \* bound: removals under way at a time
    MaxPanics,             \* bound: registrations that panic
    MaxConnectionsPerUser, \* LifecyclePolicy.MaxConnectionsPerUser, 0 for no limit
    None                   \* no connection

\* client IDs, and connections with one ID, are numbered in the order they come
Ids == 1 .. MaxDials
Conns == {c \in Ids \X Ids : c[1] + c[2] <= MaxDials + 1}
Slots == 1 .. MaxTasks

ASSUME RegistryAssumption ==
    /\ MaxDials \in Nat \ {0} /\ MaxTasks \in Nat \ {0}
    /\ MaxPanics \in Nat /\ MaxConnectionsPerUser \in Nat
    /\ None \notin Conns

VARIABLES
    allowMulti, \* LifecyclePolicy.AllowMultiLogin, fixed when the Hub is built
    peer,       \* what the client at the other end does
    sock,       \* connections whose Conn the server has not closed
    closed,     \* connections that are MarkClosed, with DoneCh closed
    store,      \* userShards: the connection registered under a client ID
    index,      \* clientIDToUserID and agentShards, written after userShards
    count,      \* clientCount
    refs,       \* references to the user in groupMemberIdx, nsIdx and attrIdx
    timer,      \* the connection whose timeout task the wheel holds for an ID
    reg,        \* control point of a connection's handleRegister
    victims,    \* connections EnforceMultiLoginPolicy has yet to kick
    reader,     \* handleClientRead
    writer,     \* handleClientWrite
    tpc,        \* control point of a removal, "idle" when the slot is free
    conn,       \* the connection the removal is for
    held,       \* what its RemoveClient returned
    cleanup     \* slots whose removal is a CleanupHalfRegistered

netVars == <<peer, sock>>
storeVars == <<store, index, count, refs>>
regVars == <<reg, victims>>
pumpVars == <<reader, writer>>
taskVars == <<tpc, conn, held, cleanup>>
vars == <<allowMulti, netVars, closed, storeVars, timer, regVars, pumpVars, taskVars>>

ConnOrNone == Conns \cup {None}
Pump == {"none", "run", "exit"}
RegPC == {"none", "main", "new", "old", "policy", "kick", "timer", "join", "done", "panicked"}
TaskPC == {"idle", "remove", "unindex", "readd", "new", "old", "cancel", "close"}

Registered == {store[i] : i \in Ids} \ {None}
Rivals(c) == {d \in Conns \ {c} : d[1] = c[1]}

TypeOK ==
    /\ allowMulti \in BOOLEAN
    /\ peer \in [Conns -> {"none", "alive", "gone"}]
    /\ sock \subseteq Conns /\ closed \subseteq Conns
    /\ store \in [Ids -> ConnOrNone] /\ index \in [Ids -> ConnOrNone]
    /\ timer \in [Ids -> ConnOrNone]
    /\ \A i \in Ids : store[i] # None => store[i][1] = i
    /\ count \in Int /\ refs \in Nat
    /\ reg \in [Conns -> RegPC] /\ victims \in [Conns -> SUBSET Conns]
    /\ \A c \in Conns : victims[c] # {} <=> reg[c] = "kick"
    /\ reader \in [Conns -> Pump] /\ writer \in [Conns -> Pump]
    /\ tpc \in [Slots -> TaskPC] /\ cleanup \subseteq Slots
    /\ conn \in [Slots -> ConnOrNone] /\ held \in [Slots -> ConnOrNone]
    /\ \A s \in Slots : tpc[s] # "idle" => conn[s] # None
    /\ \A s \in Slots : held[s] # None => conn[s] # None /\ held[s][1] = conn[s][1]

Init ==
    /\ allowMulti \in BOOLEAN
    /\ peer = [c \in Conns |-> "none"] /\ sock = {} /\ closed = {}
    /\ store = [i \in Ids |-> None] /\ index = [i \in Ids |-> None]
    /\ timer = [i \in Ids |-> None]
    /\ count = 0 /\ refs = 0
    /\ reg = [c \in Conns |-> "none"] /\ victims = [c \in Conns |-> {}]
    /\ reader = [c \in Conns |-> "none"] /\ writer = [c \in Conns |-> "none"]
    /\ tpc = [s \in Slots |-> "idle"] /\ cleanup = {}
    /\ conn = [s \in Slots |-> None] /\ held = [s \in Slots |-> None]

(***************************************************************************)
(* The registry.  AddClient and RemoveClient change the main map under the *)
(* lock of the user's shard, and everything else after they released it.   *)
(***************************************************************************)
\* An ID that is registered already is counted again.
IndexClient_AlwaysNew(c, isNew) ==
    /\ index' = [index EXCEPT ![c[1]] = c]
    /\ count' = count + 1 /\ refs' = refs + 1

\* AddClient, steps 2 to 4: indexes, then the counters when the ID was new
IndexClient(c, isNew) ==
    /\ index' = [index EXCEPT ![c[1]] = c]
    /\ count' = IF isNew THEN count + 1 ELSE count
    /\ refs' = IF isNew THEN refs + 1 ELSE refs

\* The first connection to go takes the user out of the index.
UnindexClient_Drops(c) ==
    /\ index' = [index EXCEPT ![c[1]] = None]
    /\ count' = count - 1 /\ refs' = 0

\* RemoveClient, steps 2 and 3: a reference count stops at zero
UnindexClient(c) ==
    /\ index' = [index EXCEPT ![c[1]] = None]
    /\ count' = count - 1
    /\ refs' = IF refs <= 1 THEN 0 ELSE refs - 1

\* Hub.Unregister and the other callers of RemoveClient start a removal
Spawn(c, isCleanup) ==
    \E s \in Slots :
        /\ tpc[s] = "idle" /\ \A t \in 1 .. s - 1 : tpc[t] # "idle"
        /\ tpc' = [tpc EXCEPT ![s] = "remove"] /\ conn' = [conn EXCEPT ![s] = c]
        /\ cleanup' = IF isCleanup THEN cleanup \cup {s} ELSE cleanup
        /\ UNCHANGED held
Unregister(c) == Spawn(c, FALSE)

(***************************************************************************)
(* The client and the network.                                             *)
(***************************************************************************)
Dial(c) ==
    /\ reg[c] = "none"
    /\ c[2] > 1 => reg[<<c[1], c[2] - 1>>] # "none"
    /\ c[1] > 1 => reg[<<c[1] - 1, 1>>] # "none"
    /\ Cardinality({d \in Conns : reg[d] # "none"}) < MaxDials
    /\ reg' = [reg EXCEPT ![c] = "main"]
    /\ peer' = [peer EXCEPT ![c] = "alive"] /\ sock' = sock \cup {c}
    /\ UNCHANGED <<allowMulti, closed, storeVars, timer, victims, pumpVars, taskVars>>

\* the client closes the connection, or is gone without a word; the server
\* may notice at once, when its next write fails, or never.  (Before its
\* registration is done nobody reads from the connection.)
Leave(c) ==
    /\ peer[c] = "alive" /\ reg[c] \in {"done", "panicked"}
    /\ peer' = [peer EXCEPT ![c] = "gone"]
    /\ UNCHANGED <<allowMulti, sock, closed, storeVars, timer, regVars, pumpVars, taskVars>>

(***************************************************************************)
(* handleRegister, one goroutine for each connection.                      *)
(***************************************************************************)
At(c, pc) == reg[c] = pc
Goto(c, pc) == reg' = [reg EXCEPT ![c] = pc]

RegisterStore(c) ==
    /\ At(c, "main")
    /\ Goto(c, IF store[c[1]] = None THEN "new" ELSE "old")
    /\ store' = [store EXCEPT ![c[1]] = c]
    /\ UNCHANGED <<allowMulti, netVars, closed, index, count, refs, timer, victims, pumpVars,
                   taskVars>>

RegisterIndex(c) ==
    /\ reg[c] \in {"new", "old"}
    /\ IndexClient(c, reg[c] = "new")
    /\ Goto(c, "policy")
    /\ UNCHANGED <<allowMulti, netVars, closed, store, timer, victims, pumpVars, taskVars>>

\* Connections whose pumps have not started are not kicked.
EnforceMultiLoginPolicy_Started(c) ==
    /\ At(c, "policy")
    /\ LET kicked == {d \in Registered \ {c} : ~allowMulti /\ reader[d] = "run"}
       IN  /\ victims' = [victims EXCEPT ![c] = kicked]
           /\ Goto(c, IF kicked = {} THEN "timer" ELSE "kick")
    /\ UNCHANGED <<allowMulti, netVars, closed, storeVars, timer, pumpVars, taskVars>>

\* EnforceMultiLoginPolicy: all the others, or the one with the oldest
\* heartbeat once there are more connections than allowed
EnforceMultiLoginPolicy(c) ==
    /\ At(c, "policy")
    /\ LET others == Registered \ {c}
           full == MaxConnectionsPerUser > 0 /\ Cardinality(Registered) > MaxConnectionsPerUser
       IN  \E kicked \in SUBSET others :
               /\ ~allowMulti => kicked = others
               /\ allowMulti => IF full /\ others # {} THEN Cardinality(kicked) = 1
                                                       ELSE kicked = {}
               /\ victims' = [victims EXCEPT ![c] = kicked]
               /\ Goto(c, IF kicked = {} THEN "timer" ELSE "kick")
    /\ UNCHANGED <<allowMulti, netVars, closed, storeVars, timer, pumpVars, taskVars>>

KickClient(c) ==
    /\ At(c, "kick")
    /\ \E v \in victims[c] :
           /\ Unregister(v)
           /\ victims' = [victims EXCEPT ![c] = @ \ {v}]
           /\ Goto(c, IF victims[c] = {v} THEN "timer" ELSE "kick")
    /\ UNCHANGED <<allowMulti, netVars, closed, storeVars, timer, pumpVars>>

\* The first heartbeat is to start the timer.
ScheduleTimeout_Lazy(c) ==
    /\ At(c, "timer") /\ Goto(c, "join")
    /\ UNCHANGED <<allowMulti, netVars, closed, storeVars, timer, victims, pumpVars, taskVars>>

ScheduleTimeout(c) ==
    /\ At(c, "timer") /\ Goto(c, "join")
    /\ timer' = [timer EXCEPT ![c[1]] = c]
    /\ UNCHANGED <<allowMulti, netVars, closed, storeVars, victims, pumpVars, taskVars>>

StartClientPumps(c) ==
    /\ At(c, "join") /\ Goto(c, "done")
    /\ reader' = [reader EXCEPT ![c] = "run"] /\ writer' = [writer EXCEPT ![c] = "run"]
    /\ UNCHANGED <<allowMulti, netVars, closed, storeVars, timer, victims, taskVars>>

\* the group store panics, before the pumps start: CleanupHalfRegistered
RegisterPanic(c) ==
    /\ At(c, "join") /\ Goto(c, "panicked")
    /\ Cardinality({d \in Conns : reg[d] = "panicked"}) < MaxPanics
    /\ Spawn(c, TRUE)
    /\ UNCHANGED <<allowMulti, netVars, closed, storeVars, timer, victims, pumpVars>>

(***************************************************************************)
(* A removal: handleUnregister, or CleanupHalfRegistered.  They share      *)
(* RemoveClient, the check that the client removed is the one meant, the   *)
(* re-adding when it is not, and the closing of the connection, which      *)
(* CleanupHalfRegistered does in every case.                               *)
(***************************************************************************)
TaskAt(s, pc) == tpc[s] = pc
TaskGoto(s, pc) == tpc' = [tpc EXCEPT ![s] = pc]
Finish(s) ==
    /\ TaskGoto(s, "idle") /\ cleanup' = cleanup \ {s}
    /\ conn' = [conn EXCEPT ![s] = None] /\ held' = [held EXCEPT ![s] = None]
\* a removal that did not remove its own connection
GiveUp(s) ==
    IF s \in cleanup
      THEN TaskGoto(s, "close") /\ held' = [held EXCEPT ![s] = None] /\ UNCHANGED <<conn, cleanup>>
      ELSE Finish(s)

\* RemoveClient returns the entry and leaves it in the map.
RemoveStore_Keeps(s) ==
    /\ TaskAt(s, "remove")
    /\ IF store[conn[s][1]] = None
         THEN GiveUp(s)
         ELSE /\ held' = [held EXCEPT ![s] = store[conn[s][1]]]
              /\ TaskGoto(s, "unindex") /\ UNCHANGED <<conn, cleanup>>
    /\ UNCHANGED <<allowMulti, netVars, closed, storeVars, timer, regVars, pumpVars>>

RemoveStore(s) ==
    /\ TaskAt(s, "remove")
    /\ LET id == conn[s][1]
       IN  IF store[id] = None
             THEN GiveUp(s) /\ UNCHANGED store
             ELSE /\ store' = [store EXCEPT ![id] = None]
                  /\ held' = [held EXCEPT ![s] = store[id]]
                  /\ TaskGoto(s, "unindex") /\ UNCHANGED <<conn, cleanup>>
    /\ UNCHANGED <<allowMulti, netVars, closed, index, count, refs, timer, regVars, pumpVars>>

RemoveIndex(s) ==
    /\ TaskAt(s, "unindex")
    /\ UnindexClient(held[s])
    /\ TaskGoto(s, IF held[s] = conn[s] THEN "cancel" ELSE "readd")
    /\ UNCHANGED <<allowMulti, netVars, closed, store, timer, regVars, pumpVars, conn, held,
                   cleanup>>

ReaddStore(s) ==
    /\ TaskAt(s, "readd")
    /\ LET id == held[s][1]
       IN  /\ TaskGoto(s, IF store[id] = None THEN "new" ELSE "old")
           /\ store' = [store EXCEPT ![id] = held[s]]
    /\ UNCHANGED <<allowMulti, netVars, closed, index, count, refs, timer, regVars, pumpVars,
                   conn, held, cleanup>>

ReaddIndex(s) ==
    /\ tpc[s] \in {"new", "old"}
    /\ IndexClient(held[s], tpc[s] = "new")
    /\ GiveUp(s)
    /\ UNCHANGED <<allowMulti, netVars, closed, store, timer, regVars, pumpVars>>

CancelTimeout(s) ==
    /\ TaskAt(s, "cancel") /\ TaskGoto(s, "close")
    /\ timer' = [timer EXCEPT ![conn[s][1]] = None]
    /\ UNCHANGED <<allowMulti, netVars, closed, storeVars, regVars, pumpVars, conn, held, cleanup>>

\* CloseChannel and CloseConnection
Close(s) ==
    /\ TaskAt(s, "close") /\ Finish(s)
    /\ closed' = closed \cup {conn[s]} /\ sock' = sock \ {conn[s]}
    /\ UNCHANGED <<allowMulti, peer, storeVars, timer, regVars, pumpVars>>

\* KickUser, the eviction of slow consumers and the reclaim of a migrated
\* client unregister a client they found in the registry (bound: one whose
\* registration is done and that no removal is after yet)
Kick(c) ==
    /\ c \in Registered /\ reg[c] = "done" /\ \A s \in Slots : conn[s] # c
    /\ Unregister(c)
    /\ UNCHANGED <<allowMulti, netVars, closed, storeVars, timer, regVars, pumpVars>>

(***************************************************************************)
(* The pumps and the heartbeat.                                            *)
(***************************************************************************)
\* HeartbeatManager.Handle: touch replaces the task the wheel holds for the ID
Heartbeat(c) ==
    /\ reader[c] = "run" /\ peer[c] = "alive" /\ c \in sock \ closed
    /\ timer' = [timer EXCEPT ![c[1]] = c]
    /\ UNCHANGED <<allowMulti, netVars, closed, storeVars, regVars, pumpVars, taskVars>>

\* the wheel runs the task of a connection that no longer sends heartbeats
OnTimeout(i) ==
    /\ timer[i] # None /\ peer[timer[i]] # "alive"
    /\ timer' = [timer EXCEPT ![i] = None]
    /\ IF timer[i] \in closed THEN UNCHANGED taskVars ELSE Unregister(timer[i])
    /\ UNCHANGED <<allowMulti, netVars, closed, storeVars, regVars, pumpVars>>

\* ReadMessage fails: the deferred Unregister
ReaderExit(c) ==
    /\ reader[c] = "run"
    /\ c \notin sock \/ peer[c] = "gone"
    /\ reader' = [reader EXCEPT ![c] = "exit"]
    /\ Unregister(c)
    /\ UNCHANGED <<allowMulti, netVars, closed, storeVars, timer, regVars, writer>>

\* DoneCh is closed
WriterExit(c) ==
    /\ writer[c] = "run"
    /\ c \in closed
    /\ writer' = [writer EXCEPT ![c] = "exit"]
    /\ UNCHANGED <<allowMulti, netVars, closed, storeVars, timer, regVars, reader, taskVars>>

\* a write fails: the pump closes the connection to make the reader stop
WriterFail(c) ==
    /\ writer[c] = "run"
    /\ c \notin sock \/ peer[c] # "alive"
    /\ writer' = [writer EXCEPT ![c] = "exit"] /\ sock' = sock \ {c}
    /\ UNCHANGED <<allowMulti, peer, closed, storeVars, timer, regVars, reader, taskVars>>

Registering == {c \in Conns : reg[c] \notin {"none", "done", "panicked"}}

RegisterStep(c) ==
    \/ RegisterStore(c) \/ RegisterIndex(c)
    \/ EnforceMultiLoginPolicy(c) \/ KickClient(c) \/ ScheduleTimeout(c)
    \/ StartClientPumps(c)
TaskStep(s) ==
    \/ RemoveStore(s) \/ RemoveIndex(s) \/ ReaddStore(s) \/ ReaddIndex(s)
    \/ CancelTimeout(s) \/ Close(s)
Environment(c) ==
    \/ Dial(c) \/ Leave(c) \/ Kick(c) \/ Heartbeat(c)
    \/ WriterFail(c) \/ RegisterPanic(c)
Next ==
    \/ \E c \in Conns : RegisterStep(c) \/ ReaderExit(c) \/ WriterExit(c) \/ Environment(c)
    \/ \E s \in Slots : TaskStep(s)
    \/ \E i \in Ids : OnTimeout(i)

Spec == Init /\ [][Next]_vars

\* What is bound to go on: all of it ends after finitely many steps
Progress ==
    \/ \E c \in Conns : RegisterStep(c) \/ WriterExit(c) \/ (c \notin sock /\ ReaderExit(c))
    \/ \E s \in Slots : TaskStep(s)
    \/ \E i \in Ids : OnTimeout(i)

\* While registrations, removals, pumps or due timers have a step to take, one
\* is taken, which is less than the Go scheduler gives each of them.  Nothing is
\* assumed of clients, kicks, failing writes and panics, nor of a reader whose
\* client is gone while its socket is open: it may not notice.
FairSpec == Spec /\ WF_vars(Progress)

-----------------------------------------------------------------------------
(***************************************************************************)
(* Properties.                                                             *)
(***************************************************************************)
Adding ==
    Cardinality({c \in Conns : reg[c] = "new"})
      + Cardinality({s \in Slots : tpc[s] = "new"})
Removing == Cardinality({s \in Slots : tpc[s] = "unindex"})
Quiet == Registering = {} /\ \A s \in Slots : tpc[s] = "idle"
Reused == \E c \in Conns : c[2] > 1 /\ reg[c] # "none"

\* clientCount, which AddClient and RemoveClient update after they release the
\* shard lock, differs from the number of registered connections only by the
\* calls under way: replacing and re-adding a connection is counted right
\* whatever the interleaving.
CountIsExact ==
    count = Cardinality({i \in Ids : store[i] # None}) - Adding + Removing

\* The reverse indexes, whose reference counts stop at zero, never lose a user
\* who is connected: with no call under way, a connection registered means a
\* reference is left.
IndexNeverForgets ==
    Quiet => refs >= Cardinality({i \in Ids : store[i] # None})

\* A removal has taken the connection out of the map and not put it back
Holds(s, c) == held[s] = c /\ tpc[s] \in {"unindex", "readd", "cancel", "close"}

\* A closed connection is out of the registry for good: no removal that took
\* it for another one puts it back.  (handleUnregister's re-adding of a client
\* it removed by mistake; a registration that panicked is closed wherever its
\* connection is.)
ClosedStaysOut ==
    \A c \in closed : reg[c] # "panicked" =>
        store[c[1]] # c /\ \A s \in Slots : ~Holds(s, c)

\* AllowMultiLogin = false: when all registrations and removals are done, one
\* connection of the user is left at most.  (EnforceMultiLoginPolicy kicks what
\* it sees in the map; no client ID is used twice here.)
SingleLogin ==
    ~allowMulti /\ Quiet /\ ~Reused => Cardinality(Registered) <= 1

\* A registered connection whose client is gone or silent is closed, by the
\* reader's or the timer's Unregister, unless another connection with its
\* client ID comes.
DeadIsClosed ==
    []<>(\A c \in Conns :
            reg[c] = "done" /\ peer[c] # "alive"
              => c \in closed \/ \E d \in Rivals(c) : reg[d] # "none")

\* dispatcher.go: a reader that ends triggers the deferred Unregister, which
\* completes the clean-up: the writer ends too.
PumpsEndTogether ==
    \A c \in Conns : reader[c] = "exit" ~> writer[c] = "exit"
=============================================================================
