------------------------ MODULE ConnRegistry_proofs ------------------------
(* A closed connection stays out of the registry, the connection count is  *)
(* exact, the reverse indexes do not forget a connected user, and without  *)
(* multi-login one connection is left: for any number of connections and   *)
(* of removals that run at the same time.                                  *)
EXTENDS ConnRegistry, FiniteSetTheorems, TLAPS

\* The part of TypeOK the arguments below rest on.
Types ==
    /\ store \in [Ids -> ConnOrNone]
    /\ \A i \in Ids : store[i] # None => store[i][1] = i
    /\ timer \in [Ids -> ConnOrNone]
    /\ closed \subseteq Conns
    /\ reg \in [Conns -> RegPC] /\ victims \in [Conns -> SUBSET Conns]
    /\ tpc \in [Slots -> TaskPC] /\ cleanup \subseteq Slots
    /\ conn \in [Slots -> ConnOrNone] /\ held \in [Slots -> ConnOrNone]

\* What a removal knows at each of its control points.
Removals ==
    \A s \in Slots :
        /\ tpc[s] # "idle" => conn[s] \in Conns
        /\ tpc[s] \in {"idle", "remove"} => held[s] = None
        /\ tpc[s] \in {"unindex", "readd", "new", "old"} => held[s] \in Conns
        /\ tpc[s] = "cancel" => held[s] = conn[s]
        /\ tpc[s] = "close" =>
               held[s] = conn[s] \/ (held[s] = None /\ reg[conn[s]] = "panicked")
        /\ held[s] # None => held[s][1] = conn[s][1]
        /\ s \in cleanup => tpc[s] # "idle" /\ reg[conn[s]] = "panicked"

\* A connection is in one place at most: not yet registered, in the map, or
\* held by one removal.
OnePlace ==
    /\ \A c \in Conns : reg[c] \in {"none", "main"} =>
           c \notin closed /\ store[c[1]] # c /\ \A s \in Slots : ~Holds(s, c)
    /\ \A c \in Conns, s \in Slots : Holds(s, c) => store[c[1]] # c
    /\ \A c \in Conns, s, t \in Slots : Holds(s, c) /\ Holds(t, c) => s = t

Inv == Types /\ Removals /\ OnePlace /\ ClosedStaysOut

\* The client ID of a connection is an ID, and None is no connection.
LEMMA ConnFacts ==
    /\ \A c \in Conns : c[1] \in Ids
    /\ None \notin Conns
BY RegistryAssumption DEF Conns

\* A registration never goes back to where its connection was not in the map,
\* and one that panicked is over.
RegMoves ==
    /\ reg' \in [Conns -> RegPC]
    /\ \A c \in Conns : reg'[c] \in {"none", "main"} => reg[c] \in {"none", "main"}
    /\ \A c \in Conns : reg[c] = "panicked" <=> reg'[c] = "panicked"

\* Steps that touch neither the map, nor a removal, nor what is closed.
LEMMA QuietStep ==
    ASSUME Inv, RegMoves, UNCHANGED <<store, closed, taskVars>>,
           timer' \in [Ids -> ConnOrNone], victims' \in [Conns -> SUBSET Conns]
    PROVE  Inv'
<1> USE DEF Inv, taskVars
<1>1. Types'
  BY Zenon DEF Types, RegMoves
<1>2. Removals'
  BY Zenon DEF Types, Removals, RegMoves, ConnOrNone
<1>3. OnePlace'
  BY DEF OnePlace, RegMoves, Holds
<1>4. ClosedStaysOut'
  BY Zenon DEF ClosedStaysOut, RegMoves, Holds, Types
<1> QED  BY <1>1, <1>2, <1>3, <1>4

\* Steps that start a removal: it holds nothing yet.
LEMMA SpawnStep ==
    ASSUME Inv, NEW c \in Conns, NEW isCleanup \in BOOLEAN, Spawn(c, isCleanup),
           UNCHANGED <<store, closed>>,
           timer' \in [Ids -> ConnOrNone], victims' \in [Conns -> SUBSET Conns],
           reg' \in [Conns -> RegPC],
           \A d \in Conns : reg'[d] \in {"none", "main"} => reg[d] \in {"none", "main"},
           \A d \in Conns : reg[d] = "panicked" => reg'[d] = "panicked",
           isCleanup => reg'[c] = "panicked"
    PROVE  Inv'
<1> USE DEF Inv
<1> PICK s \in Slots :
        /\ tpc[s] = "idle"
        /\ tpc' = [tpc EXCEPT ![s] = "remove"] /\ conn' = [conn EXCEPT ![s] = c]
        /\ cleanup' = IF isCleanup THEN cleanup \cup {s} ELSE cleanup
        /\ held' = held
  BY Zenon DEF Spawn
<1>1. Types'
  BY Zenon DEF Types, TaskPC, ConnOrNone
<1>2. ASSUME NEW t \in Slots, t # s
      PROVE  tpc'[t] = tpc[t] /\ conn'[t] = conn[t] /\ held'[t] = held[t]
             /\ (t \in cleanup' <=> t \in cleanup)
  BY <1>2, Zenon DEF Types
<1>3. tpc'[s] = "remove" /\ conn'[s] = c /\ held'[s] = None /\ (s \in cleanup' <=> isCleanup)
  BY DEF Types, Removals
<1>4. \A d \in Conns, t \in Slots : Holds(t, d)' <=> Holds(t, d)
  BY <1>2, <1>3, ConnFacts, Zenon DEF Holds, Types
<1>5. Removals'
  BY <1>2, <1>3 DEF Removals, Types, ConnOrNone
<1>6. OnePlace'
  BY <1>4, Zenon DEF OnePlace
<1>7. ClosedStaysOut'
  BY <1>4, Zenon DEF ClosedStaysOut, Types
<1> QED  BY <1>1, <1>5, <1>6, <1>7, Zenon

\* Steps of removal s alone that neither touch the map nor close: what it
\* holds afterwards, it held before.
LEMMA RemovalMoves ==
    ASSUME Inv, NEW s \in Slots, NEW pc \in TaskPC, NEW h \in ConnOrNone, NEW k \in ConnOrNone,
           tpc' = [tpc EXCEPT ![s] = pc], held' = [held EXCEPT ![s] = h],
           conn' = [conn EXCEPT ![s] = k],
           cleanup' = cleanup \/ cleanup' = cleanup \ {s},
           UNCHANGED <<store, closed, reg, victims>>, timer' \in [Ids -> ConnOrNone],
           \A c \in Conns : Holds(s, c)' => Holds(s, c),
           \* the removal knows what its new control point asks for
           /\ pc # "idle" => k \in Conns
           /\ pc \in {"idle", "remove"} => h = None
           /\ pc \in {"unindex", "readd", "new", "old"} => h \in Conns
           /\ pc = "cancel" => h = k
           /\ pc = "close" => h = k \/ (h = None /\ reg[k] = "panicked")
           /\ h # None => h[1] = k[1]
           /\ s \in cleanup' => pc # "idle" /\ reg[k] = "panicked"
    PROVE  Inv'
<1> USE DEF Inv
<1>1. Types'
  BY Zenon DEF Types
<1>2. ASSUME NEW t \in Slots, t # s
      PROVE  tpc'[t] = tpc[t] /\ conn'[t] = conn[t] /\ held'[t] = held[t]
             /\ (t \in cleanup' <=> t \in cleanup)
  BY <1>2, Zenon DEF Types
<1>3. tpc'[s] = pc /\ conn'[s] = k /\ held'[s] = h
  BY Zenon DEF Types
<1>4. \A d \in Conns, t \in Slots : Holds(t, d)' => Holds(t, d)
  BY <1>2, Zenon DEF Holds
<1>5. Removals'
  BY <1>2, <1>3 DEF Removals
<1>6. OnePlace'
  BY <1>4, Zenon DEF OnePlace
<1>7. ClosedStaysOut'
  BY <1>4, Zenon DEF ClosedStaysOut, Types
<1> QED  BY <1>1, <1>5, <1>6, <1>7, Zenon

\* AddClient puts a connection that was nowhere into the map.
LEMMA RegisterStoreStep ==
    ASSUME Inv, NEW c \in Conns, RegisterStore(c)
    PROVE  Inv'
<1> USE DEF Inv
<1>1. /\ reg[c] = "main" /\ reg' = [reg EXCEPT ![c] = IF store[c[1]] = None THEN "new" ELSE "old"]
      /\ store' = [store EXCEPT ![c[1]] = c]
      /\ UNCHANGED <<closed, timer, victims, tpc, conn, held, cleanup>>
  BY Zenon DEF RegisterStore, At, Goto, taskVars
<1>2. c[1] \in Ids
  BY ConnFacts
<1>3. Types'
  BY <1>1, <1>2, Zenon DEF Types, RegPC, ConnOrNone
<1>4. /\ \A d \in Conns \ {c} : reg'[d] = reg[d]
      /\ reg'[c] \in {"new", "old"}
  BY <1>1, Zenon DEF Types
<1>5. \A d \in Conns : store'[d[1]] = d => d = c \/ store[d[1]] = d
  BY <1>1, <1>2, ConnFacts, Zenon DEF Types
<1>6. \A d \in Conns, t \in Slots : Holds(t, d)' <=> Holds(t, d)
  BY <1>1, Zenon DEF Holds
<1>7. c \notin closed /\ \A t \in Slots : ~Holds(t, c)
  BY <1>1, Zenon DEF OnePlace
<1>8. Removals'
  BY <1>1, <1>4 DEF Removals, Types, ConnOrNone
<1>9. OnePlace'
  BY <1>1, <1>4, <1>5, <1>6, <1>7, Zenon DEF OnePlace
<1>10. ClosedStaysOut'
  BY <1>1, <1>4, <1>5, <1>6, <1>7 DEF ClosedStaysOut, Types
<1> QED  BY <1>3, <1>8, <1>9, <1>10

\* RemoveClient moves the connection found from the map to the removal.
LEMMA RemoveStoreStep ==
    ASSUME Inv, NEW s \in Slots, RemoveStore(s)
    PROVE  Inv'
<1> USE DEF Inv
<1> DEFINE id == conn[s][1]
           r == store[id]
<1>1. /\ tpc[s] = "remove" /\ conn[s] \in Conns /\ held[s] = None /\ id \in Ids
      /\ UNCHANGED <<closed, timer, reg, victims>>
  BY ConnFacts, Zenon DEF RemoveStore, TaskAt, Removals, regVars
<1>2. CASE r = None
  <2>1. GiveUp(s) /\ store' = store
    BY <1>2, Zenon DEF RemoveStore
  <2>2. CASE s \in cleanup
    <3>1. /\ tpc' = [tpc EXCEPT ![s] = "close"] /\ held' = [held EXCEPT ![s] = None]
          /\ conn' = [conn EXCEPT ![s] = conn[s]] /\ cleanup' = cleanup
      BY <2>1, <2>2, Zenon DEF GiveUp, TaskGoto, Types
    <3>2. ~(held'[s] \in Conns) /\ reg[conn[s]] = "panicked"
      BY <3>1, <2>2, ConnFacts, Zenon DEF Types, Removals
    <3>3. \A c \in Conns : ~Holds(s, c)'
      BY <3>2 DEF Holds
    <3> QED  BY <1>1, <2>1, <3>1, <3>2, <3>3, RemovalMoves, Zenon DEF TaskPC, ConnOrNone, Types
  <2>3. CASE s \notin cleanup
    <3>1. /\ tpc' = [tpc EXCEPT ![s] = "idle"] /\ held' = [held EXCEPT ![s] = None]
          /\ conn' = [conn EXCEPT ![s] = None] /\ cleanup' = cleanup \ {s}
      BY <2>1, <2>3 DEF GiveUp, Finish, TaskGoto
    <3>3. \A c \in Conns : ~Holds(s, c)'
      BY <3>1, Zenon DEF Holds, Types
    <3> QED  BY <1>1, <2>1, <3>1, <3>3, RemovalMoves, Zenon DEF TaskPC, ConnOrNone, Types
  <2> QED  BY <2>2, <2>3
<1>3. CASE r # None
  <2>1. /\ store' = [store EXCEPT ![id] = None]
        /\ held' = [held EXCEPT ![s] = r]
        /\ tpc' = [tpc EXCEPT ![s] = "unindex"] /\ UNCHANGED <<conn, cleanup>>
    BY <1>3, Zenon DEF RemoveStore, TaskGoto
  <2>2. r \in Conns /\ r[1] = id
    BY <1>1, <1>3, Zenon DEF Types, ConnOrNone
  <2>3. Types'
    BY <1>1, <2>1, <2>2, Zenon DEF Types, TaskPC, ConnOrNone
  <2>4. \A t \in Slots \ {s} : tpc'[t] = tpc[t] /\ held'[t] = held[t]
    BY <2>1, Zenon DEF Types
  <2>5. tpc'[s] = "unindex" /\ held'[s] = r
    BY <2>1, Zenon DEF Types
  <2>6. \A d \in Conns : store'[d[1]] = d => store[d[1]] = d /\ d # r
    BY <1>1, <2>1, <2>2, ConnFacts, Zenon DEF Types
  <2>7. \A d \in Conns, t \in Slots : Holds(t, d)' <=> Holds(t, d) \/ (t = s /\ d = r)
    BY <1>1, <2>4, <2>5, ConnFacts, Zenon DEF Holds
  <2>8. /\ \A t \in Slots : ~Holds(t, r)
        /\ reg[r] \notin {"none", "main"}
        /\ r \in closed => reg[r] = "panicked"
    BY <2>2, Zenon DEF OnePlace, ClosedStaysOut
  <2>9. Removals'
    BY <1>1, <2>1, <2>2, <2>4, <2>5 DEF Removals
  <2>10. OnePlace'
    BY <1>1, <2>2, <2>6, <2>7, <2>8 DEF OnePlace
  <2>11. ClosedStaysOut'
    BY <1>1, <2>6, <2>7, <2>8, Zenon DEF ClosedStaysOut, Types
  <2> QED  BY <2>3, <2>9, <2>10, <2>11
<1> QED  BY <1>2, <1>3, Zenon
\* The steps that leave the map alone and close nothing.
LEMMA RemovalGoesOn ==
    ASSUME Inv, NEW s \in Slots, RemoveIndex(s) \/ ReaddIndex(s) \/ CancelTimeout(s)
    PROVE  Inv'
<1> USE DEF Inv
<1>1. CASE RemoveIndex(s)
  <2> DEFINE pc == IF held[s] = conn[s] THEN "cancel" ELSE "readd"
  <2>1. /\ tpc[s] = "unindex" /\ tpc' = [tpc EXCEPT ![s] = pc]
        /\ held' = [held EXCEPT ![s] = held[s]] /\ conn' = [conn EXCEPT ![s] = conn[s]]
        /\ UNCHANGED <<store, closed, reg, victims, timer, cleanup>>
    BY <1>1, Zenon DEF RemoveIndex, TaskAt, TaskGoto, regVars, Types
  <2>2. \A c \in Conns : Holds(s, c)' => Holds(s, c)
    BY <2>1, Zenon DEF Holds, Types
  <2>3. conn[s] \in Conns /\ held[s] \in Conns /\ held[s][1] = conn[s][1]
        /\ (s \in cleanup => reg[conn[s]] = "panicked")
    BY <2>1, ConnFacts, Zenon DEF Removals
  <2>4. Types
    OBVIOUS
  <2> QED  BY <2>1, <2>2, <2>3, <2>4, RemovalMoves, ZenonT(60) DEF TaskPC, ConnOrNone, Types
<1>2. CASE ReaddIndex(s)
  <2>1. /\ tpc[s] \in {"new", "old"} /\ conn[s] \in Conns /\ GiveUp(s)
        /\ UNCHANGED <<store, closed, reg, victims, timer>>
    BY <1>2, Zenon DEF ReaddIndex, regVars, Removals
  <2>2. CASE s \in cleanup
    <3>1. /\ tpc' = [tpc EXCEPT ![s] = "close"] /\ held' = [held EXCEPT ![s] = None]
          /\ conn' = [conn EXCEPT ![s] = conn[s]] /\ cleanup' = cleanup
      BY <2>1, <2>2, Zenon DEF GiveUp, TaskGoto, Types
    <3>2. ~(held'[s] \in Conns) /\ reg[conn[s]] = "panicked"
      BY <3>1, <2>2, ConnFacts, Zenon DEF Types, Removals
    <3>3. \A c \in Conns : ~Holds(s, c)'
      BY <3>2 DEF Holds
    <3> QED  BY <2>1, <3>1, <3>2, <3>3, RemovalMoves, Zenon DEF TaskPC, ConnOrNone, Types
  <2>3. CASE s \notin cleanup
    <3>1. /\ tpc' = [tpc EXCEPT ![s] = "idle"] /\ held' = [held EXCEPT ![s] = None]
          /\ conn' = [conn EXCEPT ![s] = None] /\ cleanup' = cleanup \ {s}
      BY <2>1, <2>3, Zenon DEF GiveUp, Finish, TaskGoto
    <3>2. \A c \in Conns : ~Holds(s, c)'
      BY <3>1, Zenon DEF Holds, Types
    <3> QED  BY <2>1, <3>1, <3>2, RemovalMoves, Zenon DEF TaskPC, ConnOrNone, Types
  <2> QED  BY <2>2, <2>3
<1>3. CASE CancelTimeout(s)
  <2>1. /\ tpc[s] = "cancel" /\ tpc' = [tpc EXCEPT ![s] = "close"]
        /\ timer' = [timer EXCEPT ![conn[s][1]] = None]
        /\ held' = [held EXCEPT ![s] = held[s]] /\ conn' = [conn EXCEPT ![s] = conn[s]]
        /\ UNCHANGED <<store, closed, reg, victims, cleanup>>
    BY <1>3, Zenon DEF CancelTimeout, TaskAt, TaskGoto, regVars, storeVars, Types
  <2>2. \A c \in Conns : Holds(s, c)' => Holds(s, c)
    BY <2>1, Zenon DEF Holds, Types
  <2>3. /\ conn[s] \in Conns /\ held[s] = conn[s]
        /\ s \in cleanup => reg[conn[s]] = "panicked"
        /\ timer' \in [Ids -> ConnOrNone]
    BY <2>1, Zenon DEF Removals, Types, ConnOrNone
  <2> QED  BY <2>1, <2>2, <2>3, RemovalMoves, ZenonT(60) DEF TaskPC, ConnOrNone, Types
<1> QED  BY <1>1, <1>2, <1>3

\* AddClient(removed): the connection goes from the removal back to the map,
\* and it is one that was not closed.
LEMMA ReaddStoreStep ==
    ASSUME Inv, NEW s \in Slots, ReaddStore(s)
    PROVE  Inv'
<1> USE DEF Inv
<1> DEFINE c == held[s]
           pc == IF store[c[1]] = None THEN "new" ELSE "old"
<1>1. /\ tpc[s] = "readd" /\ tpc' = [tpc EXCEPT ![s] = pc]
      /\ store' = [store EXCEPT ![c[1]] = c]
      /\ UNCHANGED <<closed, timer, reg, victims, conn, held, cleanup>>
  BY Zenon DEF ReaddStore, TaskAt, TaskGoto, regVars
<1>2. c \in Conns /\ c[1] \in Ids
  BY <1>1, ConnFacts, Zenon DEF Removals
<1>3. Types'
  BY <1>1, <1>2, Zenon DEF Types, TaskPC, ConnOrNone
<1>4. /\ \A t \in Slots \ {s} : tpc'[t] = tpc[t]
      /\ tpc'[s] \in {"new", "old"}
  BY <1>1, Zenon DEF Types
<1>5. \A d \in Conns : store'[d[1]] = d => d = c \/ store[d[1]] = d
  BY <1>1, <1>2, ConnFacts, Zenon DEF Types
<1>6. \A d \in Conns, t \in Slots : Holds(t, d)' <=> Holds(t, d) /\ t # s
  BY <1>1, <1>4, Zenon DEF Holds
<1>7. Holds(s, c)
  BY <1>1, Zenon DEF Holds
<1>8. /\ \A t \in Slots \ {s} : ~Holds(t, c)
      /\ reg[c] \notin {"none", "main"}
      /\ c \in closed => reg[c] = "panicked"
  BY <1>2, <1>7, Zenon DEF OnePlace, ClosedStaysOut
<1>9. Removals'
  BY <1>1, <1>4 DEF Removals
<1>10. OnePlace'
  BY <1>1, <1>2, <1>5, <1>6, <1>8 DEF OnePlace
<1>11. ClosedStaysOut'
  BY <1>1, <1>5, <1>6, <1>8 DEF ClosedStaysOut, Types
<1> QED  BY <1>3, <1>9, <1>10, <1>11

\* CloseChannel closes the connection the removal holds, which is therefore
\* nowhere else, or one whose registration panicked.
LEMMA CloseStep ==
    ASSUME Inv, NEW s \in Slots, Close(s)
    PROVE  Inv'
<1> USE DEF Inv
<1> DEFINE c == conn[s]
<1>1. /\ tpc[s] = "close" /\ c \in Conns
      /\ closed' = closed \cup {c}
      /\ tpc' = [tpc EXCEPT ![s] = "idle"] /\ held' = [held EXCEPT ![s] = None]
      /\ conn' = [conn EXCEPT ![s] = None] /\ cleanup' = cleanup \ {s}
      /\ UNCHANGED <<store, timer, reg, victims>>
  BY Zenon DEF Close, TaskAt, Finish, TaskGoto, regVars, storeVars, Removals
<1>2. Types'
  BY <1>1, Zenon DEF Types, TaskPC, ConnOrNone
<1>3. \A t \in Slots \ {s} :
          tpc'[t] = tpc[t] /\ conn'[t] = conn[t] /\ held'[t] = held[t]
          /\ (t \in cleanup' <=> t \in cleanup)
  BY <1>1, Zenon DEF Types
<1>4. tpc'[s] = "idle" /\ held'[s] = None /\ s \notin cleanup'
  BY <1>1, Zenon DEF Types
<1>5. \A d \in Conns, t \in Slots : Holds(t, d)' <=> Holds(t, d) /\ t # s
  BY <1>3, <1>4, Zenon DEF Holds
<1>6. reg[c] = "panicked" \/ Holds(s, c)
  BY <1>1, Zenon DEF Removals, Holds
<1>7. reg[c] = "panicked" \/ (store[c[1]] # c /\ \A t \in Slots \ {s} : ~Holds(t, c))
  BY <1>1, <1>6, Zenon DEF OnePlace
<1>8. reg[c] \notin {"none", "main"}
  BY <1>1, <1>6, Zenon DEF OnePlace
<1>9. Removals'
  BY <1>1, <1>3, <1>4 DEF Removals
<1>10. OnePlace'
  BY <1>1, <1>5, <1>8, Zenon DEF OnePlace
<1>11. ClosedStaysOut'
  BY <1>1, <1>5, <1>7 DEF ClosedStaysOut, Types
<1> QED  BY <1>2, <1>9, <1>10, <1>11
\* Initially nothing is registered.
LEMMA InitInv == Init => Inv
BY ConnFacts DEF Init, Inv, Types, Removals, OnePlace, ClosedStaysOut, Holds, ConnOrNone, RegPC,
   TaskPC

\* The registration steps other than the one that writes the map, and the
\* steps of clients and pumps.
LEMMA ConnectionStep ==
    ASSUME Inv, NEW c \in Conns,
           \/ Dial(c) \/ Leave(c) \/ RegisterIndex(c) \/ EnforceMultiLoginPolicy(c)
           \/ ScheduleTimeout(c) \/ StartClientPumps(c) \/ Heartbeat(c) \/ WriterExit(c)
           \/ WriterFail(c)
    PROVE  Inv'
<1> USE DEF storeVars, regVars, taskVars
<1>0. Types /\ c[1] \in Ids
  BY ConnFacts DEF Inv
<1>1. CASE Dial(c)
  <2>1. RegMoves
    BY <1>0, <1>1, Zenon DEF Dial, RegMoves, RegPC, Types
  <2> QED  BY <1>0, <1>1, <2>1, QuietStep, Zenon DEF Dial, Types
<1>2. CASE RegisterIndex(c)
  <2>1. RegMoves
    BY <1>0, <1>2, Zenon DEF RegisterIndex, Goto, RegMoves, RegPC, Types
  <2> QED  BY <1>0, <1>2, <2>1, QuietStep, Zenon DEF RegisterIndex, Types
<1>3. CASE EnforceMultiLoginPolicy(c)
  <2>1. PICK kicked \in SUBSET (Registered \ {c}) :
            /\ victims' = [victims EXCEPT ![c] = kicked]
            /\ reg[c] = "policy"
            /\ reg' = [reg EXCEPT ![c] = IF kicked = {} THEN "timer" ELSE "kick"]
    BY <1>3, Zenon DEF EnforceMultiLoginPolicy, At, Goto
  <2>2. RegMoves
    BY <1>0, <2>1, Zenon DEF RegMoves, RegPC, Types
  <2>3. Registered \subseteq Conns
    BY <1>0 DEF Registered, Types, ConnOrNone
  <2>4. victims' \in [Conns -> SUBSET Conns]
    BY <1>0, <2>1, <2>3, Zenon DEF Types
  <2> QED  BY <1>0, <1>3, <2>2, <2>4, QuietStep, Zenon DEF EnforceMultiLoginPolicy, Types
<1>4. CASE ScheduleTimeout(c)
  <2>1. RegMoves
    BY <1>0, <1>4, Zenon DEF ScheduleTimeout, At, Goto, RegMoves, RegPC, Types
  <2>2. timer' \in [Ids -> ConnOrNone]
    BY <1>0, <1>4, Zenon DEF ScheduleTimeout, Types, ConnOrNone
  <2> QED  BY <1>0, <1>4, <2>1, <2>2, QuietStep, Zenon DEF ScheduleTimeout, Types
<1>5. CASE StartClientPumps(c)
  <2>1. RegMoves
    BY <1>0, <1>5, ZenonT(60) DEF StartClientPumps, At, Goto, RegMoves, RegPC, Types
  <2> QED  BY <1>0, <1>5, <2>1, QuietStep, Zenon DEF StartClientPumps, Types
<1>6. CASE Heartbeat(c)
  <2>1. RegMoves
    BY <1>0, <1>6, ZenonT(60) DEF Heartbeat, RegMoves, Types
  <2>2. timer' \in [Ids -> ConnOrNone]
    BY <1>0, <1>6, ZenonT(60) DEF Heartbeat, Types, ConnOrNone
  <2> QED  BY <1>0, <1>6, <2>1, <2>2, QuietStep, Zenon DEF Heartbeat, Types
<1>7. CASE Leave(c) \/ WriterExit(c) \/ WriterFail(c)
  <2>1. RegMoves
    BY <1>0, <1>7, Zenon DEF Leave, WriterExit, WriterFail, RegMoves, Types
  <2> QED  BY <1>0, <1>7, <2>1, QuietStep, ZenonT(60) DEF Leave, WriterExit, WriterFail, Types
<1> QED  BY <1>1, <1>2, <1>3, <1>4, <1>5, <1>6, <1>7

\* The steps that start a removal.
LEMMA StartStep ==
    ASSUME Inv,
           \/ \E c \in Conns : KickClient(c) \/ RegisterPanic(c) \/ Kick(c) \/ ReaderExit(c)
           \/ \E i \in Ids : OnTimeout(i)
    PROVE  Inv'
<1> USE DEF storeVars, regVars, Unregister
<1>0. Types
  BY DEF Inv
<1>1. ASSUME NEW c \in Conns, KickClient(c)
      PROVE  Inv'
  <2>1. PICK v \in victims[c] :
            /\ Spawn(v, FALSE) /\ reg[c] = "kick"
            /\ victims' = [victims EXCEPT ![c] = victims[c] \ {v}]
            /\ reg' = [reg EXCEPT ![c] = IF victims[c] = {v} THEN "timer" ELSE "kick"]
    BY <1>0, <1>1, Zenon DEF KickClient, At, Goto, Types
  <2>2. v \in Conns /\ victims' \in [Conns -> SUBSET Conns]
    BY <1>0, <2>1, Zenon DEF Types
  <2>3. RegMoves
    BY <1>0, <2>1, Zenon DEF RegMoves, RegPC, Types
  <2> QED  BY <1>0, <1>1, <2>1, <2>2, <2>3, SpawnStep, ZenonT(60) DEF KickClient, Types, RegMoves
<1>2. ASSUME NEW c \in Conns, RegisterPanic(c)
      PROVE  Inv'
  <2>1. /\ reg[c] = "join" /\ reg' = [reg EXCEPT ![c] = "panicked"] /\ Spawn(c, TRUE)
        /\ UNCHANGED <<store, closed, timer, victims>>
    BY <1>2, Zenon DEF RegisterPanic, At, Goto
  <2>2. /\ reg' \in [Conns -> RegPC] /\ reg'[c] = "panicked"
        /\ \A d \in Conns : d # c => reg'[d] = reg[d]
    BY <1>0, <2>1, Zenon DEF RegPC, Types
  <2> QED  BY <1>0, <2>1, <2>2, SpawnStep, Zenon DEF Types
<1>3. ASSUME NEW c \in Conns, Kick(c) \/ ReaderExit(c)
      PROVE  Inv'
  BY <1>0, <1>3, SpawnStep, Zenon DEF Kick, ReaderExit, Types
<1>4. ASSUME NEW i \in Ids, OnTimeout(i)
      PROVE  Inv'
  <2>1. /\ timer[i] \in Conns /\ timer' = [timer EXCEPT ![i] = None]
        /\ UNCHANGED <<store, closed, reg, victims>>
    BY <1>0, <1>4, Zenon DEF OnTimeout, Types, ConnOrNone
  <2>2. timer' \in [Ids -> ConnOrNone]
    BY <1>0, <2>1, Zenon DEF Types, ConnOrNone
  <2>3. RegMoves
    BY <1>0, <2>1, Zenon DEF RegMoves, Types
  <2>4. CASE UNCHANGED taskVars
    BY <1>0, <2>1, <2>2, <2>3, <2>4, QuietStep, Zenon DEF Types
  <2>5. CASE Spawn(timer[i], FALSE)
    BY <1>0, <2>1, <2>2, <2>3, <2>5, SpawnStep, Zenon DEF Types
  <2> QED  BY <1>4, <2>4, <2>5, Zenon DEF OnTimeout
<1> QED  BY <1>1, <1>2, <1>3, <1>4

\* Every step preserves the invariant.
LEMMA InvStep == Inv /\ [Next]_vars => Inv'
<1> SUFFICES ASSUME Inv, [Next]_vars
             PROVE  Inv'
  OBVIOUS
<1>1. CASE UNCHANGED vars
  <2>1. RegMoves
    BY <1>1, Zenon DEF vars, regVars, RegMoves, Inv, Types
  <2> QED  BY <1>1, <2>1, QuietStep, Zenon DEF vars, storeVars, regVars, Inv, Types
<1>2. ASSUME NEW c \in Conns,
             RegisterStep(c) \/ ReaderExit(c) \/ WriterExit(c) \/ Environment(c)
      PROVE  Inv'
  BY <1>2, RegisterStoreStep, ConnectionStep, StartStep, Zenon DEF RegisterStep, Environment
<1>3. ASSUME NEW s \in Slots, TaskStep(s)
      PROVE  Inv'
  BY <1>3, RemoveStoreStep, RemovalGoesOn, ReaddStoreStep, CloseStep DEF TaskStep
<1>4. CASE \E i \in Ids : OnTimeout(i)
  BY <1>4, StartStep
<1> QED  BY <1>1, <1>2, <1>3, <1>4 DEF Next

\* handleUnregister and CleanupHalfRegistered never put a closed connection
\* back into the registry, however many removals of however many connections
\* with the same client ID overlap.
THEOREM ClosedNeverReturns == Spec => []ClosedStaysOut
<1>1. Inv => ClosedStaysOut
  BY DEF Inv
<1> QED  BY <1>1, InitInv, InvStep, PTL DEF Spec
-----------------------------------------------------------------------------
\* The four sets CountIsExact counts.
InStore == {i \in Ids : store[i] # None}
NewRegs == {c \in Conns : reg[c] = "new"}
NewTasks == {s \in Slots : tpc[s] = "new"}
Unindexing == {s \in Slots : tpc[s] = "unindex"}

\* The counters: the index has no fewer references than clientCount says.
Books ==
    /\ count \in Int /\ refs \in Nat /\ refs >= count
    /\ CountIsExact

LEMMA FiniteSets ==
    /\ IsFiniteSet(InStore) /\ IsFiniteSet(NewRegs)
    /\ IsFiniteSet(NewTasks) /\ IsFiniteSet(Unindexing)
<1>1. IsFiniteSet(Ids) /\ IsFiniteSet(Slots)
  BY RegistryAssumption, FS_Interval DEF Ids, Slots
<1>2. IsFiniteSet(Ids \X Ids)
  BY <1>1, FS_Product
<1>3. Conns \subseteq Ids \X Ids
  BY DEF Conns
<1>4. IsFiniteSet(Conns)
  BY <1>2, <1>3, FS_Subset
<1>5. InStore \subseteq Ids /\ NewRegs \subseteq Conns /\ NewTasks \subseteq Slots
      /\ Unindexing \subseteq Slots
  BY DEF InStore, NewRegs, NewTasks, Unindexing
<1> QED  BY <1>1, <1>4, <1>5, FS_Subset

LEMMA CountIs ==
    /\ CountIsExact <=> count = Cardinality(InStore)
                                  - (Cardinality(NewRegs) + Cardinality(NewTasks))
                                  + Cardinality(Unindexing)
    /\ Cardinality(InStore) \in Nat /\ Cardinality(NewRegs) \in Nat
    /\ Cardinality(NewTasks) \in Nat /\ Cardinality(Unindexing) \in Nat
<1>1. CountIsExact <=> count = Cardinality(InStore)
                                  - (Cardinality(NewRegs) + Cardinality(NewTasks))
                                  + Cardinality(Unindexing)
  BY DEF CountIsExact, Adding, Removing, InStore, NewRegs, NewTasks, Unindexing
<1> QED  BY <1>1, FiniteSets, FS_CardinalityType

\* The same, of the next state.
LEMMA CountIsNext ==
    CountIsExact' <=> count' = Cardinality(InStore')
                                  - (Cardinality(NewRegs') + Cardinality(NewTasks'))
                                  + Cardinality(Unindexing')
BY DEF CountIsExact, Adding, Removing, InStore, NewRegs, NewTasks, Unindexing

LEMMA OneMore ==
    ASSUME NEW S, IsFiniteSet(S), NEW x, x \notin S
    PROVE  Cardinality(S \cup {x}) = Cardinality(S) + 1
BY FS_AddElement

LEMMA OneLess ==
    ASSUME NEW S, IsFiniteSet(S), NEW x, x \in S
    PROVE  Cardinality(S \ {x}) = Cardinality(S) - 1
BY FS_RemoveElement

\* Steps that move no connection in or out of the map and finish no counting.
LEMMA UncountedStep ==
    ASSUME Books, UNCHANGED <<count, refs>>,
           InStore' = InStore, NewRegs' = NewRegs,
           NewTasks' = NewTasks, Unindexing' = Unindexing
    PROVE  Books'
BY CountIs, CountIsNext DEF Books

\* AddClient writes the map: a new ID is due to be counted.
LEMMA RegisterStoreCounts ==
    ASSUME Inv, Books, NEW c \in Conns, RegisterStore(c)
    PROVE  Books'
<1>0. c[1] \in Ids /\ c # None /\ store \in [Ids -> ConnOrNone] /\ reg \in [Conns -> RegPC]
  BY ConnFacts, Zenon DEF Inv, Types
<1>1. /\ reg[c] = "main" /\ UNCHANGED <<count, refs, tpc>>
      /\ reg' = [reg EXCEPT ![c] = IF store[c[1]] = None THEN "new" ELSE "old"]
      /\ store' = [store EXCEPT ![c[1]] = c]
  BY Zenon DEF RegisterStore, At, Goto, taskVars
<1>2. NewTasks' = NewTasks /\ Unindexing' = Unindexing
  BY <1>1 DEF NewTasks, Unindexing
<1>3. CASE store[c[1]] = None
  <2>1. InStore' = InStore \cup {c[1]} /\ c[1] \notin InStore
    BY <1>0, <1>1, <1>3, Zenon DEF InStore
  <2>2. NewRegs' = NewRegs \cup {c} /\ c \notin NewRegs
    BY <1>0, <1>1, <1>3, Zenon DEF NewRegs
  <2>3. Cardinality(InStore') = Cardinality(InStore) + 1
    BY <2>1, OneMore, FiniteSets
  <2>4. Cardinality(NewRegs') = Cardinality(NewRegs) + 1
    BY <2>2, OneMore, FiniteSets
  <2> QED  BY <1>1, <1>2, <2>3, <2>4, CountIs, CountIsNext DEF Books
<1>4. CASE store[c[1]] # None
  <2>1. InStore' = InStore /\ NewRegs' = NewRegs
    BY <1>0, <1>1, <1>4, Zenon DEF InStore, NewRegs
  <2> QED  BY <1>1, <1>2, <2>1, UncountedStep
<1> QED  BY <1>3, <1>4

\* ... and is counted.
LEMMA RegisterIndexCounts ==
    ASSUME Inv, Books, NEW c \in Conns, RegisterIndex(c)
    PROVE  Books'
<1>0. reg \in [Conns -> RegPC]
  BY DEF Inv, Types
<1>1. /\ reg[c] \in {"new", "old"} /\ UNCHANGED <<store, tpc>>
      /\ reg' = [reg EXCEPT ![c] = "policy"]
      /\ count' = IF reg[c] = "new" THEN count + 1 ELSE count
      /\ refs' = IF reg[c] = "new" THEN refs + 1 ELSE refs
  BY Zenon DEF RegisterIndex, IndexClient, Goto, taskVars
<1>2. NewTasks' = NewTasks /\ Unindexing' = Unindexing /\ InStore' = InStore
  BY <1>1 DEF NewTasks, Unindexing, InStore
<1>3. CASE reg[c] = "new"
  <2>1. NewRegs' = NewRegs \ {c} /\ c \in NewRegs
    BY <1>0, <1>1, <1>3 DEF NewRegs
  <2>2. Cardinality(NewRegs') = Cardinality(NewRegs) - 1
    BY <2>1, OneLess, FiniteSets
  <2> QED  BY <1>1, <1>2, <1>3, <2>2, CountIs, CountIsNext DEF Books
<1>4. CASE reg[c] = "old"
  <2>1. NewRegs' = NewRegs
    BY <1>0, <1>1, <1>4 DEF NewRegs
  <2> QED  BY <1>1, <1>2, <1>4, <2>1, UncountedStep
<1> QED  BY <1>1, <1>3, <1>4
\* Control points of removals have their type.
LEMMA PointsTyped == Inv => tpc \in [Slots -> TaskPC]
BY DEF Inv, Types

\* A step of a removal that is not about counting.
LEMMA UncountedRemoval ==
    ASSUME Inv, Books, NEW s \in Slots, NEW pc \in TaskPC \ {"new", "unindex"},
           tpc[s] \notin {"new", "unindex"}, tpc' = [tpc EXCEPT ![s] = pc],
           UNCHANGED <<count, refs, store, reg>>
    PROVE  Books'
<1>1. NewTasks' = NewTasks /\ Unindexing' = Unindexing
  BY PointsTyped DEF NewTasks, Unindexing
<1>2. InStore' = InStore /\ NewRegs' = NewRegs
  BY DEF InStore, NewRegs
<1> QED  BY <1>1, <1>2, UncountedStep

\* RemoveClient takes the entry of the ID, whosever it is.
LEMMA RemoveStoreCounts ==
    ASSUME Inv, Books, NEW s \in Slots, RemoveStore(s)
    PROVE  Books'
<1>0. /\ tpc[s] = "remove" /\ UNCHANGED <<count, refs, reg>>
      /\ conn[s][1] \in Ids /\ store \in [Ids -> ConnOrNone]
  BY ConnFacts, Zenon DEF RemoveStore, TaskAt, regVars, Inv, Types, Removals
<1>1. CASE store[conn[s][1]] = None
  <2>1. PICK pc \in {"idle", "close"} : tpc' = [tpc EXCEPT ![s] = pc]
    BY <1>1, Zenon DEF RemoveStore, GiveUp, Finish, TaskGoto
  <2>2. UNCHANGED store
    BY <1>1, Zenon DEF RemoveStore
  <2> QED  BY <1>0, <2>1, <2>2, UncountedRemoval, ZenonT(60) DEF TaskPC
<1>2. CASE store[conn[s][1]] # None
  <2>1. /\ store' = [store EXCEPT ![conn[s][1]] = None]
        /\ tpc' = [tpc EXCEPT ![s] = "unindex"]
    BY <1>2, Zenon DEF RemoveStore, TaskGoto
  <2>2. InStore' = InStore \ {conn[s][1]} /\ conn[s][1] \in InStore /\ NewRegs' = NewRegs
    BY <1>0, <1>2, <2>1, Zenon DEF InStore, NewRegs
  <2>3. NewTasks' = NewTasks /\ Unindexing' = Unindexing \cup {s} /\ s \notin Unindexing
    BY <1>0, <2>1, PointsTyped, Zenon DEF NewTasks, Unindexing
  <2>4. Cardinality(InStore') = Cardinality(InStore) - 1
    BY <2>2, OneLess, FiniteSets, Zenon
  <2>5. Cardinality(Unindexing') = Cardinality(Unindexing) + 1
    BY <2>3, OneMore, FiniteSets
  <2> QED  BY <1>0, <2>2, <2>3, <2>4, <2>5, CountIs, CountIsNext DEF Books
<1> QED  BY <1>1, <1>2

LEMMA RemoveIndexCounts ==
    ASSUME Inv, Books, NEW s \in Slots, RemoveIndex(s)
    PROVE  Books'
<1>1. /\ tpc[s] = "unindex" /\ UNCHANGED <<store, reg>>
      /\ count' = count - 1 /\ refs' = IF refs <= 1 THEN 0 ELSE refs - 1
  BY Zenon DEF RemoveIndex, TaskAt, UnindexClient, regVars
<1>2. PICK pc \in {"cancel", "readd"} : tpc' = [tpc EXCEPT ![s] = pc]
  BY Zenon DEF RemoveIndex, TaskGoto
<1>3. NewTasks' = NewTasks /\ Unindexing' = Unindexing \ {s} /\ s \in Unindexing
  BY <1>1, <1>2, PointsTyped DEF NewTasks, Unindexing
<1>4. InStore' = InStore /\ NewRegs' = NewRegs
  BY <1>1 DEF InStore, NewRegs
<1>5. Cardinality(Unindexing') = Cardinality(Unindexing) - 1
  BY <1>3, OneLess, FiniteSets
<1> QED  BY <1>1, <1>3, <1>4, <1>5, CountIs, CountIsNext DEF Books

\* A removal that took another connection with the ID puts it back.
LEMMA ReaddStoreCounts ==
    ASSUME Inv, Books, NEW s \in Slots, ReaddStore(s)
    PROVE  Books'
<1>0. /\ tpc[s] = "readd" /\ UNCHANGED <<count, refs, reg>>
      /\ held[s] \in Conns /\ held[s][1] \in Ids /\ held[s] # None
      /\ store \in [Ids -> ConnOrNone]
      /\ store' = [store EXCEPT ![held[s][1]] = held[s]]
  BY ConnFacts, Zenon DEF ReaddStore, TaskAt, regVars, Inv, Types, Removals
<1>1. tpc' = [tpc EXCEPT ![s] = IF store[held[s][1]] = None THEN "new" ELSE "old"]
  BY Zenon DEF ReaddStore, TaskGoto
<1>2. NewRegs' = NewRegs
  BY <1>0, Zenon DEF NewRegs
<1>3. CASE store[held[s][1]] = None
  <2>1. InStore' = InStore \cup {held[s][1]} /\ held[s][1] \notin InStore
    BY <1>0, <1>3, Zenon DEF InStore
  <2>2. Unindexing' = Unindexing /\ NewTasks' = NewTasks \cup {s} /\ s \notin NewTasks
    BY <1>0, <1>1, <1>3, PointsTyped, Zenon DEF NewTasks, Unindexing
  <2>3. Cardinality(InStore') = Cardinality(InStore) + 1
    BY <2>1, OneMore, FiniteSets
  <2>4. Cardinality(NewTasks') = Cardinality(NewTasks) + 1
    BY <2>2, OneMore, FiniteSets
  <2> QED  BY <1>0, <1>2, <2>2, <2>3, <2>4, CountIs, CountIsNext DEF Books
<1>4. CASE store[held[s][1]] # None
  <2>1. InStore' = InStore
    BY <1>0, <1>4, Zenon DEF InStore
  <2>2. NewTasks' = NewTasks /\ Unindexing' = Unindexing
    BY <1>0, <1>1, <1>4, PointsTyped, Zenon DEF NewTasks, Unindexing
  <2> QED  BY <1>0, <1>2, <2>1, <2>2, UncountedStep, Zenon
<1> QED  BY <1>3, <1>4

LEMMA ReaddIndexCounts ==
    ASSUME Inv, Books, NEW s \in Slots, ReaddIndex(s)
    PROVE  Books'
<1>1. /\ tpc[s] \in {"new", "old"} /\ UNCHANGED <<store, reg>>
      /\ count' = IF tpc[s] = "new" THEN count + 1 ELSE count
      /\ refs' = IF tpc[s] = "new" THEN refs + 1 ELSE refs
  BY Zenon DEF ReaddIndex, IndexClient, regVars
<1>2. PICK pc \in {"idle", "close"} : tpc' = [tpc EXCEPT ![s] = pc]
  BY Zenon DEF ReaddIndex, GiveUp, Finish, TaskGoto
<1>3. CASE tpc[s] = "new"
  <2>1. NewTasks' = NewTasks \ {s} /\ Unindexing' = Unindexing /\ s \in NewTasks
    BY <1>2, <1>3, PointsTyped DEF NewTasks, Unindexing
  <2>2. InStore' = InStore /\ NewRegs' = NewRegs
    BY <1>1 DEF InStore, NewRegs
  <2>3. Cardinality(NewTasks') = Cardinality(NewTasks) - 1
    BY <2>1, OneLess, FiniteSets
  <2> QED  BY <1>1, <1>3, <2>1, <2>2, <2>3, CountIs, CountIsNext DEF Books
<1>4. CASE tpc[s] = "old"
  BY <1>1, <1>2, <1>4, UncountedRemoval, Zenon DEF TaskPC
<1> QED  BY <1>1, <1>3, <1>4
\* Steps that at most start a removal or move a registration that is not
\* about to be counted.
LEMMA OtherStep ==
    ASSUME Inv, Books, UNCHANGED <<store, count, refs>>,
           \A c \in Conns : reg'[c] = "new" <=> reg[c] = "new",
           UNCHANGED tpc \/ \E c \in Conns, b \in BOOLEAN : Spawn(c, b)
    PROVE  Books'
<1>1. InStore' = InStore /\ NewRegs' = NewRegs
  BY DEF InStore, NewRegs
<1>2. CASE UNCHANGED tpc
  BY <1>1, <1>2, UncountedStep DEF NewTasks, Unindexing
<1>3. CASE \E c \in Conns, b \in BOOLEAN : Spawn(c, b)
  <2>1. PICK s \in Slots : tpc[s] = "idle" /\ tpc' = [tpc EXCEPT ![s] = "remove"]
    BY <1>3, ZenonT(60) DEF Spawn
  <2>2. NewTasks' = NewTasks /\ Unindexing' = Unindexing
    BY <2>1, PointsTyped DEF NewTasks, Unindexing
  <2> QED  BY <1>1, <2>2, UncountedStep
<1> QED  BY <1>2, <1>3

LEMMA ConnectionCounts ==
    ASSUME Inv, Books, NEW c \in Conns,
           RegisterStep(c) \/ ReaderExit(c) \/ WriterExit(c) \/ Environment(c)
    PROVE  Books'
<1> USE DEF storeVars, regVars, taskVars
<1>0. Types
  BY DEF Inv
<1>1. CASE RegisterStore(c) \/ RegisterIndex(c)
  BY <1>1, RegisterStoreCounts, RegisterIndexCounts
<1>2. CASE Dial(c) \/ ScheduleTimeout(c) \/ StartClientPumps(c)
  <2>1. \A d \in Conns : reg'[d] = "new" <=> reg[d] = "new"
    BY <1>0, <1>2, Zenon DEF Dial, ScheduleTimeout, StartClientPumps, At, Goto, Types
  <2> QED  BY <1>2, <2>1, OtherStep, Zenon DEF Dial, ScheduleTimeout, StartClientPumps
<1>3. CASE EnforceMultiLoginPolicy(c)
  <2>1. PICK pc \in {"timer", "kick"} : reg' = [reg EXCEPT ![c] = pc]
    BY <1>3, Zenon DEF EnforceMultiLoginPolicy, Goto
  <2>2. \A d \in Conns : reg'[d] = "new" <=> reg[d] = "new"
    BY <1>0, <1>3, <2>1, Zenon DEF EnforceMultiLoginPolicy, At, Types
  <2> QED  BY <1>3, <2>2, OtherStep, Zenon DEF EnforceMultiLoginPolicy
<1>4. CASE KickClient(c)
  <2>1. PICK v \in victims[c], pc \in {"timer", "kick"} :
            Spawn(v, FALSE) /\ reg' = [reg EXCEPT ![c] = pc]
    BY <1>4, ZenonT(60) DEF KickClient, Goto, Unregister
  <2>2. \A d \in Conns : reg'[d] = "new" <=> reg[d] = "new"
    BY <1>0, <1>4, <2>1, Zenon DEF KickClient, At, Types
  <2>3. v \in Conns
    BY <1>0, <2>1, Zenon DEF Types
  <2> QED  BY <1>4, <2>1, <2>2, <2>3, OtherStep, Zenon DEF KickClient
<1>5. CASE RegisterPanic(c)
  <2>1. \A d \in Conns : reg'[d] = "new" <=> reg[d] = "new"
    BY <1>0, <1>5, Zenon DEF RegisterPanic, At, Goto, Types
  <2> QED  BY <1>5, <2>1, OtherStep, Zenon DEF RegisterPanic
<1>6. CASE Kick(c) \/ ReaderExit(c)
  BY <1>6, OtherStep, Zenon DEF Kick, ReaderExit, Unregister
<1>7. CASE Leave(c) \/ Heartbeat(c) \/ WriterExit(c) \/ WriterFail(c)
  BY <1>7, OtherStep, Zenon DEF Leave, Heartbeat, WriterExit, WriterFail
<1> QED  BY <1>1, <1>2, <1>3, <1>4, <1>5, <1>6, <1>7, Zenon DEF RegisterStep, Environment

LEMMA RemovalCounts ==
    ASSUME Inv, Books, NEW s \in Slots, TaskStep(s)
    PROVE  Books'
<1>1. CASE CancelTimeout(s) \/ Close(s)
  <2>1. PICK pc \in {"idle", "close"} : tpc' = [tpc EXCEPT ![s] = pc]
    BY <1>1, Zenon DEF CancelTimeout, Close, Finish, TaskGoto
  <2>2. tpc[s] \notin {"new", "unindex"} /\ UNCHANGED <<count, refs, store, reg>>
    BY <1>1, Zenon DEF CancelTimeout, Close, TaskAt, storeVars, regVars
  <2> QED  BY <2>1, <2>2, UncountedRemoval, ZenonT(60) DEF TaskPC
<1> QED  BY <1>1, RemoveStoreCounts, RemoveIndexCounts, ReaddStoreCounts, ReaddIndexCounts
         DEF TaskStep

LEMMA BooksStep == Inv /\ Books /\ [Next]_vars => Books'
<1> SUFFICES ASSUME Inv, Books, [Next]_vars
             PROVE  Books'
  OBVIOUS
<1>1. CASE UNCHANGED vars
  BY <1>1, OtherStep, Zenon DEF vars, storeVars, regVars, taskVars
<1>2. ASSUME NEW i \in Ids, OnTimeout(i)
      PROVE  Books'
  <2>1. timer[i] \in Conns
    BY <1>2, Zenon DEF OnTimeout, Inv, Types, ConnOrNone
  <2> QED  BY <1>2, <2>1, OtherStep, Zenon DEF OnTimeout, Unregister, storeVars, regVars, taskVars
<1> QED  BY <1>1, <1>2, ConnectionCounts, RemovalCounts DEF Next

LEMMA InitBooks == Init => Books
<1> SUFFICES ASSUME Init
             PROVE  Books
  OBVIOUS
<1>1. InStore = {} /\ NewRegs = {} /\ NewTasks = {} /\ Unindexing = {}
  BY Zenon DEF Init, InStore, NewRegs, NewTasks, Unindexing
<1>2. Cardinality({}) = 0
  BY FS_EmptySet
<1> QED  BY <1>1, <1>2, CountIs DEF Init, Books

\* clientCount is the number of registered connections, but for the AddClient
\* and RemoveClient calls that have released the shard lock and not yet
\* counted, for any number of connections, IDs and overlapping removals.
THEOREM CountExact == Spec => []CountIsExact
<1>1. Books => CountIsExact
  BY DEF Books
<1> QED  BY <1>1, InitInv, InvStep, InitBooks, BooksStep, PTL DEF Spec

\* The reference counts of the reverse indexes stop at zero, and still never
\* fall below the number of connections the user has.
THEOREM IndexKeepsUser == Spec => []IndexNeverForgets
<1>1. Books => IndexNeverForgets
  <2> SUFFICES ASSUME Books, Quiet
               PROVE  refs >= Cardinality(InStore)
    BY DEF IndexNeverForgets, InStore
  <2>1. NewRegs = {} /\ NewTasks = {} /\ Unindexing = {}
    BY DEF Quiet, Registering, NewRegs, NewTasks, Unindexing
  <2>2. Cardinality({}) = 0
    BY FS_EmptySet
  <2> QED  BY <2>1, <2>2, CountIs DEF Books
<1> QED  BY <1>1, InitInv, InvStep, InitBooks, BooksStep, PTL DEF Spec
-----------------------------------------------------------------------------
\* The registration of a connection began, and has not yet looked at the others.
Began(c) == reg[c] # "none"
Unjudged(c) == reg[c] \in {"new", "old", "policy"}
\* Somebody is about to remove the connection.
Doomed(c) ==
    \/ \E s \in Slots : tpc[s] = "remove" /\ conn[s] = c
    \/ \E e \in Conns : c \in victims[e]

\* Whatever a goroutine has in hand is a connection that began.
AllBegan ==
    /\ reader \in [Conns -> Pump]
    /\ \A s \in Slots : (conn[s] # None => Began(conn[s])) /\ (held[s] # None => Began(held[s]))
    /\ \A c \in Conns : \A v \in victims[c] : Began(v)
    /\ \A i \in Ids : timer[i] # None => Began(timer[i])
    /\ \A c \in Conns : reader[c] = "run" => Began(c)
    /\ \A c \in Conns : victims[c] # {} => reg[c] = "kick"
    \* what a removal puts back is not what it was to remove
    /\ \A s \in Slots : tpc[s] = "readd" => held[s] # conn[s]

\* Of two connections in the map, one has still to look at the other or one is about
\* to be removed.
Sole ==
    ~ allowMulti /\ ~ Reused =>
        \A c, d \in Registered : c # d => Unjudged(c) \/ Unjudged(d) \/ Doomed(c) \/ Doomed(d)

Logins == AllBegan /\ Sole

LEMMA SamePair ==
    ASSUME NEW S, NEW c \in S \X S, NEW d \in S \X S, c[1] = d[1], c[2] = d[2]
    PROVE  c = d
OBVIOUS

\* With no client ID used twice, a connection that began is told by its ID.
LEMMA OneOfId ==
    ASSUME ~ Reused, NEW c \in Conns, NEW d \in Conns, Began(c), Began(d), c[1] = d[1]
    PROVE  c = d
<1>1. c[2] \in Ids /\ d[2] \in Ids /\ ~ (c[2] > 1) /\ ~ (d[2] > 1)
  BY DEF Conns, Reused, Began
<1>2. c[2] = 1 /\ d[2] = 1
  BY <1>1, RegistryAssumption DEF Ids
<1>3. c \in Ids \X Ids /\ d \in Ids \X Ids
  BY Zenon DEF Conns
<1> QED  BY <1>2, <1>3, SamePair, Zenon

\* A connection is in the map under its own ID.
LEMMA InMap == ASSUME Inv PROVE /\ Registered \subseteq Conns
                                /\ \A c \in Conns : c \in Registered <=> store[c[1]] = c
<1>1. \A i \in Ids : store[i] # None => store[i] \in Conns /\ store[i][1] = i
  BY Zenon DEF Inv, Types, ConnOrNone
<1>2. ASSUME NEW c \in Registered  PROVE c \in Conns /\ store[c[1]] = c
  <2>1. PICK i \in Ids : c = store[i] /\ c # None
    BY Zenon DEF Registered
  <2> QED  BY <1>1, <2>1, Zenon
<1>3. ASSUME NEW c \in Conns, store[c[1]] = c  PROVE c \in Registered
  BY <1>3, ConnFacts, Zenon DEF Registered
<1> QED  BY <1>2, <1>3, Zenon

\* A step that takes no connection into the map, and after which those left are as
\* far or about to be removed as before.
LEMMA SoleKeeps ==
    ASSUME Sole, allowMulti' = allowMulti, Reused => Reused',
           Reused \/ Registered' \subseteq Registered,
           Reused \/ \A c \in Registered' : (Unjudged(c) => Unjudged(c)') /\ (Doomed(c) => Doomed(c)')
    PROVE  Sole'
BY Zenon DEF Sole

\* What began stays so.
Onward == reg' \in [Conns -> RegPC] /\ \A c \in Conns : Began(c) => Began(c)'

LEMMA ReusedStays == ASSUME Onward PROVE Reused => Reused'
BY Zenon DEF Onward, Reused, Began

\* What goroutines take in hand has begun.
Fresh(c) == c = None \/ (c \in Conns /\ Began(c))

LEMMA BeganKeeps ==
    ASSUME Inv, AllBegan, Onward,
           \A t \in Slots : conn'[t] = conn[t] \/ Fresh(conn'[t]),
           \A t \in Slots : held'[t] = held[t] \/ Fresh(held'[t]),
           \A d \in Conns : \A v \in victims'[d] : v \in victims[d] \/ Fresh(v),
           \A i \in Ids : timer'[i] = timer[i] \/ Fresh(timer'[i]),
           reader' \in [Conns -> Pump], \A d \in Conns : reader'[d] = "run" => Began(d),
           \A d \in Conns : None \notin victims'[d] /\ (victims'[d] # {} => reg'[d] = "kick"),
           \A t \in Slots : tpc'[t] = "readd" => held'[t] # conn'[t]
    PROVE  AllBegan'
<1>1. \A t \in Slots : Fresh(conn[t]) /\ Fresh(held[t])
  BY Zenon DEF AllBegan, Inv, Types, ConnOrNone, Fresh
<1>2. (\A d \in Conns : \A v \in victims[d] : Fresh(v)) /\ \A i \in Ids : Fresh(timer[i])
  <2>1. \A d \in Conns : \A v \in victims[d] : Fresh(v)
    BY Zenon DEF AllBegan, Inv, Types, Fresh
  <2>2. \A i \in Ids : timer[i] \in Conns \cup {None}
    BY Zenon DEF Inv, Types, ConnOrNone
  <2>3. \A i \in Ids : Fresh(timer[i])
    BY <2>2, Zenon DEF AllBegan, Fresh
  <2> QED  BY <2>1, <2>3, Zenon
<1>3. /\ \A t \in Slots : Fresh(conn'[t]) /\ Fresh(held'[t])
      /\ \A d \in Conns : \A v \in victims'[d] : Fresh(v)
      /\ \A i \in Ids : Fresh(timer'[i])
  BY <1>1, <1>2, Zenon
<1>4. \A c : Fresh(c) => c = None \/ reg'[c] # "none"
  BY Zenon DEF Onward, Fresh, Began
<1>5. /\ \A t \in Slots : (conn'[t] # None => reg'[conn'[t]] # "none") /\ (held'[t] # None => reg'[held'[t]] # "none")
      /\ \A d \in Conns : \A v \in victims'[d] : reg'[v] # "none"
      /\ \A i \in Ids : timer'[i] # None => reg'[timer'[i]] # "none"
  BY <1>3, <1>4, Zenon
<1>6. \A d \in Conns : reader'[d] = "run" => reg'[d] # "none"
  BY Zenon DEF Onward, Began
<1> QED  BY <1>5, <1>6, Zenon DEF AllBegan, Began

\* A removal starts: the one it is for was known, and more are doomed than before.
LEMMA SpawnLogins ==
    ASSUME Inv, Logins, NEW c \in Conns, Began(c), NEW isCleanup \in BOOLEAN, Spawn(c, isCleanup), Onward,
           UNCHANGED <<allowMulti, store>>,
           \A i \in Ids : timer'[i] = timer[i] \/ timer'[i] = None,
           reader' \in [Conns -> Pump], \A d \in Conns : reader'[d] = "run" => Began(d),
           \A d \in Conns : Unjudged(d) => Unjudged(d)',
           \A d \in Conns : victims'[d] \subseteq victims[d] /\ (victims[d] \ {c}) \subseteq victims'[d],
           \A d \in Conns : victims'[d] # {} => reg'[d] = "kick"
    PROVE  Logins'
<1>1. PICK s \in Slots :
        /\ tpc[s] = "idle" /\ tpc' = [tpc EXCEPT ![s] = "remove"] /\ conn' = [conn EXCEPT ![s] = c] /\ held' = held
  BY Zenon DEF Spawn
<1>2. /\ tpc'[s] = "remove" /\ conn'[s] = c
      /\ \A t \in Slots \ {s} : tpc'[t] = tpc[t] /\ conn'[t] = conn[t]
  BY <1>1, Zenon DEF Inv, Types
<1>3. AllBegan'
  <2>1. \A t \in Slots : (conn'[t] = conn[t] \/ Fresh(conn'[t])) /\ held'[t] = held[t]
    BY <1>1, <1>2, Zenon DEF Fresh
  <2>2. ASSUME NEW t \in Slots, tpc'[t] = "readd"  PROVE held'[t] # conn'[t]
    <3>1. t # s
      BY <1>2, <2>2, Zenon
    <3> QED  BY <1>1, <1>2, <2>2, <3>1, Zenon DEF Logins, AllBegan
  <2>3. \A d \in Conns : None \notin victims'[d]
    BY ConnFacts, Zenon DEF Inv, Types
  <2>4. \A i \in Ids : timer'[i] = timer[i] \/ Fresh(timer'[i])
    BY Zenon DEF Fresh
  <2> QED  BY <2>1, <2>2, <2>3, <2>4, BeganKeeps, Zenon DEF Logins
<1>4. \A d \in Conns : Doomed(d) => Doomed(d)'
  <2> SUFFICES ASSUME NEW d \in Conns, Doomed(d)  PROVE Doomed(d)'
    BY Zenon
  <2>1. CASE d = c
    BY <1>2, <2>1, Zenon DEF Doomed
  <2>2. CASE d # c /\ \E t \in Slots : tpc[t] = "remove" /\ conn[t] = d
    <3>1. PICK t \in Slots : tpc[t] = "remove" /\ conn[t] = d
      BY <2>2, Zenon
    <3>2. t # s
      BY <1>1, <3>1, Zenon
    <3>3. tpc'[t] = "remove" /\ conn'[t] = d
      BY <1>2, <3>1, <3>2, Zenon
    <3> QED  BY <3>3, Zenon DEF Doomed
  <2>3. CASE d # c /\ \E e \in Conns : d \in victims[e]
    BY <2>3, Zenon DEF Doomed
  <2> QED  BY <2>1, <2>2, <2>3, Zenon DEF Doomed
<1>5. Registered' = Registered /\ Registered \subseteq Conns
  BY InMap DEF Registered
<1>6. Sole'
  BY <1>4, <1>5, SoleKeeps, ReusedStays, Zenon DEF Logins
<1> QED  BY <1>3, <1>6, Zenon DEF Logins

\* Steps of a registration that neither change the map nor judge.
LEMMA QuietLogins ==
    ASSUME Inv, Logins, Onward, UNCHANGED <<allowMulti, store, tpc, conn, held, victims>>,
           \A i \in Ids : timer'[i] = timer[i] \/ Fresh(timer'[i]),
           reader' \in [Conns -> Pump], \A d \in Conns : reader'[d] = "run" => Began(d),
           \A d \in Conns : Unjudged(d) => Unjudged(d)',
           \A d \in Conns : reg[d] = "kick" => reg'[d] = "kick"
    PROVE  Logins'
<1>1. AllBegan'
  <2>1. \A d \in Conns : None \notin victims'[d] /\ (victims'[d] # {} => reg'[d] = "kick")
    BY ConnFacts, Zenon DEF Inv, Types, Logins, AllBegan
  <2>2. \A t \in Slots : tpc'[t] = "readd" => held'[t] # conn'[t]
    BY Zenon DEF Logins, AllBegan
  <2> QED  BY <2>1, <2>2, BeganKeeps, Zenon DEF Logins
<1>2. \A d \in Conns : Doomed(d) => Doomed(d)'
  BY Zenon DEF Doomed
<1>3. Registered' = Registered /\ Registered \subseteq Conns
  BY InMap, Zenon DEF Registered
<1>4. Sole'
  BY <1>2, <1>3, SoleKeeps, ReusedStays, Zenon DEF Logins
<1> QED  BY <1>1, <1>4, Zenon DEF Logins

\* Steps of a removal: without a second use of an ID, it takes its own connection out of
\* the map and puts none back.
LEMMA RemovalLogins ==
    ASSUME Inv, Logins, NEW s \in Slots, UNCHANGED <<allowMulti, reg, victims, reader>>,
           \A i \in Ids : timer'[i] = timer[i] \/ timer'[i] = None,
           \A t \in Slots \ {s} : tpc'[t] = tpc[t] /\ conn'[t] = conn[t] /\ held'[t] = held[t],
           conn'[s] \in {conn[s], None},
           held'[s] \in {held[s], None} \/ held'[s] \in Registered,
           tpc'[s] = "readd" => held'[s] # conn'[s],
           Reused \/ Registered' \subseteq Registered,
           tpc[s] = "remove" => Reused \/ conn[s] \notin Registered'
    PROVE  Logins'
<1>1. Onward
  BY Zenon DEF Onward, Inv, Types, Began
<1>2. \A c \in Registered : c \in Conns /\ Began(c)
  <2>1. \A c \in Registered : c \in Conns /\ store[c[1]] = c
    BY InMap, Zenon
  <2> QED  BY <2>1, Zenon DEF Inv, OnePlace, Began
<1>3. \A t \in Slots : (conn'[t] = conn[t] \/ Fresh(conn'[t])) /\ (held'[t] = held[t] \/ Fresh(held'[t]))
  BY <1>2, Zenon DEF Fresh
<1>4. \A d \in Conns : None \notin victims'[d] /\ (victims'[d] # {} => reg'[d] = "kick")
  BY ConnFacts, Zenon DEF Inv, Types, Logins, AllBegan
<1>5. \A t \in Slots : tpc'[t] = "readd" => held'[t] # conn'[t]
  BY Zenon DEF Logins, AllBegan
<1>6. AllBegan'
  <2>1. \A i \in Ids : timer'[i] = timer[i] \/ Fresh(timer'[i])
    BY Zenon DEF Fresh
  <2>2. reader' \in [Conns -> Pump] /\ \A d \in Conns : reader'[d] = "run" => Began(d)
    BY Zenon DEF Logins, AllBegan
  <2> QED  BY <1>1, <1>3, <1>4, <1>5, <2>1, <2>2, BeganKeeps, Zenon DEF Logins
<1>7. ASSUME NEW c \in Registered', Doomed(c), ~ Reused  PROVE Doomed(c)'
  <2>1. CASE \E t \in Slots : tpc[t] = "remove" /\ conn[t] = c
    <3>1. PICK t \in Slots : tpc[t] = "remove" /\ conn[t] = c
      BY <2>1, Zenon
    <3>2. t # s
      BY <1>7, <3>1, Zenon
    <3> QED  BY <3>1, <3>2, Zenon DEF Doomed
  <2> QED  BY <1>7, <2>1, Zenon DEF Doomed
<1>8. Sole'
  BY <1>1, <1>7, SoleKeeps, ReusedStays, Zenon DEF Logins, Unjudged
<1> QED  BY <1>6, <1>8, Zenon DEF Logins

\* AddClient: the connection has still to look at the others.
LEMMA StoreLogins ==
    ASSUME Inv, Logins, NEW c \in Conns, RegisterStore(c)
    PROVE  Logins'
<1>1. /\ reg[c] = "main" /\ reg' = [reg EXCEPT ![c] = IF store[c[1]] = None THEN "new" ELSE "old"]
      /\ store' = [store EXCEPT ![c[1]] = c] /\ UNCHANGED <<allowMulti, timer, victims, reader, tpc, conn, held>>
  BY Zenon DEF RegisterStore, At, Goto, taskVars, pumpVars
<1>2. Onward /\ reg'[c] \in {"new", "old"} /\ \A d \in Conns \ {c} : reg'[d] = reg[d]
  BY <1>1, Zenon DEF Onward, Inv, Types, Began, RegPC
<1>3. AllBegan'
  <2>1. \A d \in Conns : None \notin victims[d] /\ (victims[d] # {} => reg'[d] = "kick")
    <3>1. \A d \in Conns : victims[d] # {} => d # c
      BY <1>1, Zenon DEF Logins, AllBegan
    <3> QED  BY <1>2, <3>1, ConnFacts, Zenon DEF Inv, Types, Logins, AllBegan
  <2>2. reader' \in [Conns -> Pump] /\ \A d \in Conns : reader'[d] = "run" => Began(d)
    BY <1>1, Zenon DEF Logins, AllBegan
  <2>3. \A t \in Slots : tpc'[t] = "readd" => held'[t] # conn'[t]
    BY <1>1, Zenon DEF Logins, AllBegan
  <2> QED  BY <1>1, <1>2, <2>1, <2>2, <2>3, BeganKeeps, Zenon DEF Logins
<1>4. Registered' \subseteq Registered \cup {c} /\ Registered \subseteq Conns
  BY <1>1, InMap DEF Inv, Types, Registered
<1>5. \A d \in Conns : (Doomed(d) => Doomed(d)') /\ (Unjudged(d) => Unjudged(d)')
  <2>1. \A d \in Conns : Doomed(d) => Doomed(d)'
    BY <1>1, Zenon DEF Doomed
  <2>2. \A d \in Conns : Unjudged(d) => Unjudged(d)'
    BY <1>1, <1>2 DEF Unjudged
  <2> QED  BY <2>1, <2>2, Zenon
<1>6. Unjudged(c)'
  BY <1>2, Zenon DEF Unjudged
<1>7. Sole'
  <2> SUFFICES ASSUME ~ allowMulti, ~ Reused, NEW d \in Registered', NEW e \in Registered', d # e
               PROVE  (Unjudged(d) \/ Unjudged(e) \/ Doomed(d) \/ Doomed(e))'
    BY <1>1, <1>2, ReusedStays, Zenon DEF Sole
  <2>1. CASE d = c \/ e = c
    BY <1>6, <2>1, Zenon
  <2>2. CASE d # c /\ e # c
    <3>1. d \in Registered /\ e \in Registered /\ d \in Conns /\ e \in Conns
      BY <1>4, <2>2, Zenon
    <3> QED  BY <1>5, <3>1, Zenon DEF Logins, Sole
  <2> QED  BY <2>1, <2>2, Zenon
<1> QED  BY <1>3, <1>7, Zenon DEF Logins

\* EnforceMultiLoginPolicy: without multi-login, all the others in the map are to be kicked.
LEMMA PolicyLogins ==
    ASSUME Inv, Logins, NEW c \in Conns, EnforceMultiLoginPolicy(c)
    PROVE  Logins'
<1>1. PICK kicked \in SUBSET (Registered \ {c}) :
        /\ ~ allowMulti => kicked = Registered \ {c}
        /\ victims' = [victims EXCEPT ![c] = kicked]
        /\ reg' = [reg EXCEPT ![c] = IF kicked = {} THEN "timer" ELSE "kick"]
  BY Zenon DEF EnforceMultiLoginPolicy, Goto
<1>2. reg[c] = "policy" /\ UNCHANGED <<allowMulti, store, timer, reader, tpc, conn, held>>
  BY Zenon DEF EnforceMultiLoginPolicy, At, storeVars, pumpVars, taskVars
<1>3. /\ Onward /\ \A d \in Conns \ {c} : reg'[d] = reg[d] /\ victims'[d] = victims[d]
      /\ victims'[c] = kicked /\ (kicked # {} => reg'[c] = "kick")
  BY <1>1, <1>2, Zenon DEF Onward, Inv, Types, Began, RegPC
<1>4. \A d \in Registered : d \in Conns /\ Began(d)
  <2>1. \A d \in Registered : d \in Conns /\ store[d[1]] = d
    BY InMap, Zenon
  <2> QED  BY <2>1, Zenon DEF Inv, OnePlace, Began
<1>5. AllBegan'
  <2>1. \A d \in Conns : \A v \in victims'[d] : v \in victims[d] \/ Fresh(v)
    BY <1>3, <1>4, Zenon DEF Fresh
  <2>2. \A d \in Conns : None \notin victims'[d] /\ (victims'[d] # {} => reg'[d] = "kick")
    BY <1>3, <1>4, ConnFacts, Zenon DEF Inv, Types, Logins, AllBegan
  <2>3. reader' \in [Conns -> Pump] /\ \A d \in Conns : reader'[d] = "run" => Began(d)
    BY <1>2, Zenon DEF Logins, AllBegan
  <2>4. \A t \in Slots : tpc'[t] = "readd" => held'[t] # conn'[t]
    BY <1>2, Zenon DEF Logins, AllBegan
  <2> QED  BY <1>2, <1>3, <2>1, <2>2, <2>3, <2>4, BeganKeeps, Zenon DEF Logins
<1>6. Sole'
  <2> SUFFICES ASSUME ~ allowMulti, ~ Reused, NEW d \in Registered, NEW e \in Registered, d # e
               PROVE  (Unjudged(d) \/ Unjudged(e) \/ Doomed(d) \/ Doomed(e))'
    BY <1>2, <1>3, ReusedStays, Zenon DEF Sole, Registered
  <2>1. CASE d = c \/ e = c
    BY <1>1, <1>3, <2>1 DEF Doomed
  <2>2. CASE d # c /\ e # c
    BY <1>1, <1>3, <2>2 DEF Doomed
  <2> QED  BY <2>1, <2>2, Zenon
<1> QED  BY <1>5, <1>6, Zenon DEF Logins

\* Every step of a registration, of the pumps and of the clients.
LEMMA ConnectionLogins ==
    ASSUME Inv, Logins, NEW c \in Conns, RegisterStep(c) \/ ReaderExit(c) \/ WriterExit(c) \/ Environment(c)
    PROVE  Logins'
<1> USE DEF netVars, storeVars, regVars, pumpVars, taskVars
<1>1. reg \in [Conns -> RegPC] /\ timer \in [Ids -> ConnOrNone] /\ victims \in [Conns -> SUBSET Conns]
  BY Zenon DEF Inv, Types
<1>2. reader \in [Conns -> Pump] /\ \A d \in Conns : reader[d] = "run" => Began(d)
  BY Zenon DEF Logins, AllBegan
<1>3. \A d \in Conns : victims[d] # {} => reg[d] = "kick"
  BY Zenon DEF Logins, AllBegan
<1>4. CASE RegisterIndex(c)
  <2>1. reg[c] \in {"new", "old"} /\ reg' = [reg EXCEPT ![c] = "policy"] /\ UNCHANGED <<allowMulti, store, timer, reader, victims, tpc, conn, held>>
    BY <1>4, Zenon DEF RegisterIndex, Goto
  <2>2. Onward /\ \A d \in Conns : (Unjudged(d) => Unjudged(d)') /\ (reg[d] = "kick" => reg'[d] = "kick")
    BY <1>1, <2>1 DEF Onward, Unjudged, Began, RegPC
  <2> QED  BY <1>2, <2>1, <2>2, QuietLogins, Zenon
<1>5. CASE ScheduleTimeout(c)
  <2>1. reg[c] = "timer" /\ reg' = [reg EXCEPT ![c] = "join"] /\ timer' = [timer EXCEPT ![c[1]] = c] /\ UNCHANGED <<allowMulti, store, reader, victims, tpc, conn, held>>
    BY <1>5, Zenon DEF ScheduleTimeout, At, Goto
  <2>2. Onward /\ Began(c) /\ \A d \in Conns : (Unjudged(d) => Unjudged(d)') /\ (reg[d] = "kick" => reg'[d] = "kick")
    BY <1>1, <2>1 DEF Onward, Unjudged, Began, RegPC
  <2>3. \A i \in Ids : timer'[i] = timer[i] \/ Fresh(timer'[i])
    BY <1>1, <2>1, <2>2, Zenon DEF Fresh
  <2> QED  BY <1>2, <2>1, <2>2, <2>3, QuietLogins, Zenon
<1>6. CASE StartClientPumps(c)
  <2>1. reg[c] = "join" /\ reg' = [reg EXCEPT ![c] = "done"] /\ reader' = [reader EXCEPT ![c] = "run"] /\ UNCHANGED <<allowMulti, store, timer, victims, tpc, conn, held>>
    BY <1>6, Zenon DEF StartClientPumps, At, Goto
  <2>2. Onward /\ Began(c) /\ \A d \in Conns : (Unjudged(d) => Unjudged(d)') /\ (reg[d] = "kick" => reg'[d] = "kick")
    BY <1>1, <2>1 DEF Onward, Unjudged, Began, RegPC
  <2>3. reader' \in [Conns -> Pump] /\ \A d \in Conns : reader'[d] = "run" => Began(d)
    BY <1>2, <2>1, <2>2, Zenon DEF Pump
  <2> QED  BY <2>1, <2>2, <2>3, QuietLogins, Zenon
<1>7. CASE Dial(c)
  <2>1. reg[c] = "none" /\ reg' = [reg EXCEPT ![c] = "main"] /\ UNCHANGED <<allowMulti, store, timer, reader, victims, tpc, conn, held>>
    BY <1>7, Zenon DEF Dial
  <2>2. Onward /\ \A d \in Conns : (Unjudged(d) => Unjudged(d)') /\ (reg[d] = "kick" => reg'[d] = "kick")
    BY <1>1, <2>1 DEF Onward, Unjudged, Began, RegPC
  <2> QED  BY <1>2, <2>1, <2>2, QuietLogins, Zenon
<1>8. CASE Leave(c) \/ WriterExit(c) \/ WriterFail(c) \/ Heartbeat(c)
  <2>1. UNCHANGED <<allowMulti, store, reg, reader, victims, tpc, conn, held>>
    BY <1>8, Zenon DEF Leave, WriterExit, WriterFail, Heartbeat
  <2>2. timer' = timer \/ (timer' = [timer EXCEPT ![c[1]] = c] /\ Began(c))
    BY <1>2, <1>8, Zenon DEF Leave, WriterExit, WriterFail, Heartbeat
  <2>3. \A i \in Ids : timer'[i] = timer[i] \/ Fresh(timer'[i])
    BY <1>1, <2>2, Zenon DEF Fresh
  <2>4. Onward /\ \A d \in Conns : Unjudged(d) => Unjudged(d)'
    BY <1>1, <2>1, Zenon DEF Onward, Began, Unjudged
  <2> QED  BY <1>2, <2>1, <2>3, <2>4, QuietLogins, Zenon
<1>9. ASSUME NEW d \in Conns, NEW b \in BOOLEAN, Spawn(d, b), Began(d), UNCHANGED <<allowMulti, store, timer, victims>>,
             Onward, reader' \in [Conns -> Pump], \A e \in Conns : reader'[e] = "run" => Began(e),
             \A e \in Conns : Unjudged(e) => Unjudged(e)', \A e \in Conns : reg[e] = "kick" => reg'[e] = "kick"
      PROVE  Logins'
  BY <1>3, <1>9, SpawnLogins, Zenon
<1>10. CASE RegisterPanic(c)
  <2>1. reg[c] = "join" /\ reg' = [reg EXCEPT ![c] = "panicked"] /\ Spawn(c, TRUE) /\ UNCHANGED <<allowMulti, store, timer, reader, victims>>
    BY <1>10, Zenon DEF RegisterPanic, At, Goto
  <2>2. Onward /\ Began(c) /\ \A d \in Conns : (Unjudged(d) => Unjudged(d)') /\ (reg[d] = "kick" => reg'[d] = "kick")
    BY <1>1, <2>1 DEF Onward, Unjudged, Began, RegPC
  <2> QED  BY <1>2, <1>9, <2>1, <2>2, Zenon
<1>11. CASE Kick(c) \/ ReaderExit(c)
  <2>1. Spawn(c, FALSE) /\ UNCHANGED <<allowMulti, store, timer, reg, victims>> /\ Began(c)
    BY <1>2, <1>11, Zenon DEF Kick, ReaderExit, Unregister, Began
  <2>2. Onward /\ \A d \in Conns : Unjudged(d) => Unjudged(d)'
    BY <1>1, <2>1, Zenon DEF Onward, Began, Unjudged
  <2>3. reader' \in [Conns -> Pump] /\ \A d \in Conns : reader'[d] = "run" => Began(d)
    BY <1>2, <1>11, Zenon DEF Kick, ReaderExit, Pump
  <2> QED  BY <1>9, <2>1, <2>2, <2>3, Zenon
<1>12. CASE KickClient(c)
  <2>1. PICK v \in victims[c] :
          /\ Spawn(v, FALSE) /\ victims' = [victims EXCEPT ![c] = @ \ {v}]
          /\ reg' = [reg EXCEPT ![c] = IF victims[c] = {v} THEN "timer" ELSE "kick"]
    BY <1>12, Zenon DEF KickClient, Unregister, Goto
  <2>2. reg[c] = "kick" /\ UNCHANGED <<allowMulti, store, timer, reader>> /\ v \in Conns /\ Began(v)
    BY <1>1, <1>12, Zenon DEF KickClient, At, Logins, AllBegan
  <2>3. Onward /\ \A d \in Conns : (Unjudged(d) => Unjudged(d)') /\ (d # c => reg'[d] = reg[d])
    BY <1>1, <2>1, <2>2 DEF Onward, Unjudged, Began, RegPC
  <2>4. victims'[c] = victims[c] \ {v} /\ \A d \in Conns \ {c} : victims'[d] = victims[d]
    BY <1>1, <2>1, Zenon
  <2>5. \A d \in Conns : victims'[d] \subseteq victims[d] /\ (victims[d] \ {v}) \subseteq victims'[d]
    BY <2>4, Zenon
  <2>6. victims'[c] # {} => reg'[c] = "kick"
    BY <1>1, <2>1, <2>4
  <2>7. \A d \in Conns : victims'[d] # {} => reg'[d] = "kick"
    BY <1>3, <2>3, <2>4, <2>6, Zenon
  <2> QED  BY <1>2, <2>1, <2>2, <2>3, <2>5, <2>7, SpawnLogins, Zenon
<1> QED
  BY <1>4, <1>5, <1>6, <1>7, <1>8, <1>10, <1>11, <1>12, StoreLogins, PolicyLogins, Zenon DEF RegisterStep, Environment

\* Every step of a removal.
LEMMA RemovalStepLogins ==
    ASSUME Inv, Logins, NEW s \in Slots, TaskStep(s)
    PROVE  Logins'
<1> USE DEF netVars, storeVars, regVars, pumpVars
<1>1. /\ tpc \in [Slots -> TaskPC] /\ conn \in [Slots -> ConnOrNone] /\ held \in [Slots -> ConnOrNone]
      /\ store \in [Ids -> ConnOrNone] /\ timer \in [Ids -> ConnOrNone]
  BY Zenon DEF Inv, Types
<1>2. UNCHANGED <<allowMulti, reg, victims, reader>>
  BY Zenon DEF TaskStep, RemoveStore, RemoveIndex, ReaddStore, ReaddIndex, CancelTimeout, Close
<1>3. ASSUME NEW pc \in TaskPC, NEW h, NEW k,
             tpc' = [tpc EXCEPT ![s] = pc], held' = [held EXCEPT ![s] = h], conn' = [conn EXCEPT ![s] = k],
             k \in {conn[s], None}, h \in {held[s], None} \/ h \in Registered, pc = "readd" => h # k,
             \A i \in Ids : timer'[i] = timer[i] \/ timer'[i] = None,
             Reused \/ Registered' \subseteq Registered, tpc[s] = "remove" => Reused \/ conn[s] \notin Registered'
      PROVE  Logins'
  <2>1. /\ tpc'[s] = pc /\ held'[s] = h /\ conn'[s] = k
        /\ \A t \in Slots \ {s} : tpc'[t] = tpc[t] /\ conn'[t] = conn[t] /\ held'[t] = held[t]
    BY <1>1, <1>3, Zenon
  <2> QED  BY <1>2, <1>3, <2>1, RemovalLogins, Zenon
<1>4. CASE RemoveIndex(s) \/ ReaddIndex(s) \/ CancelTimeout(s) \/ Close(s)
  <2>1. store' = store /\ tpc[s] # "remove"
    BY <1>4, Zenon DEF RemoveIndex, ReaddIndex, CancelTimeout, Close, TaskAt
  <2>2. Registered' = Registered
    BY <2>1 DEF Registered
  <2>3. \A i \in Ids : timer'[i] = timer[i] \/ timer'[i] = None
    BY <1>1, <1>4, Zenon DEF RemoveIndex, ReaddIndex, CancelTimeout, Close
  <2>4. \E pc \in TaskPC, h \in {held[s], None}, k \in {conn[s], None} :
          /\ tpc' = [tpc EXCEPT ![s] = pc] /\ held' = [held EXCEPT ![s] = h] /\ conn' = [conn EXCEPT ![s] = k]
          /\ pc = "readd" => h # k
    BY <1>1, <1>4, Zenon DEF RemoveIndex, ReaddIndex, CancelTimeout, Close, TaskGoto, GiveUp,
       Finish, TaskPC
  <2> QED  BY <1>3, <2>1, <2>2, <2>3, <2>4, Zenon
<1>5. CASE RemoveStore(s)
  <2> DEFINE id == conn[s][1]
  <2>1. tpc[s] = "remove" /\ conn[s] \in Conns /\ id \in Ids /\ timer' = timer
    BY <1>5, ConnFacts, Zenon DEF RemoveStore, TaskAt, Inv, Removals
  <2>2. CASE store[id] = None
    <3>1. store' = store /\ GiveUp(s)
      BY <1>5, <2>2, Zenon DEF RemoveStore
    <3>2. Registered' = Registered
      BY <3>1 DEF Registered
    <3>3. conn[s] \notin Registered
      BY <2>1, <2>2, InMap, ConnFacts, Zenon
    <3>4. \E pc \in TaskPC, h \in {held[s], None}, k \in {conn[s], None} :
            /\ tpc' = [tpc EXCEPT ![s] = pc] /\ held' = [held EXCEPT ![s] = h] /\ conn' = [conn EXCEPT ![s] = k]
            /\ pc # "readd"
      BY <1>1, <3>1, Zenon DEF TaskGoto, GiveUp, Finish, TaskPC
    <3> QED  BY <1>3, <2>1, <3>2, <3>3, <3>4, Zenon
  <2>3. CASE store[id] # None
    <3>1. /\ store' = [store EXCEPT ![id] = None] /\ held' = [held EXCEPT ![s] = store[id]]
          /\ tpc' = [tpc EXCEPT ![s] = "unindex"] /\ conn' = conn
      BY <1>5, <2>3, Zenon DEF RemoveStore, TaskGoto
    <3>2. Registered' \subseteq Registered /\ store[id] \in Registered
      BY <1>1, <2>1, <2>3, <3>1, Zenon DEF Registered
    <3>3. \A i \in Ids : store'[i] # None => store'[i][1] = i
      BY <1>1, <2>1, <3>1, Zenon DEF Inv, Types
    <3>4. conn[s] \notin Registered'
      <4>1. \A i \in Ids : store'[i] = conn[s] => i = id
        BY <2>1, <3>3, ConnFacts, Zenon
      <4>2. store'[id] # conn[s]
        BY <1>1, <2>1, <3>1, ConnFacts, Zenon
      <4> QED  BY <2>1, <4>1, <4>2, Zenon DEF Registered
    <3>5. conn' = [conn EXCEPT ![s] = conn[s]]
      BY <1>1, <3>1, Zenon
    <3>6. "unindex" \in TaskPC /\ timer' = timer
      BY <2>1 DEF TaskPC
    <3> QED  BY <1>3, <2>1, <3>1, <3>2, <3>4, <3>5, <3>6, Zenon
  <2> QED  BY <2>2, <2>3, Zenon
<1>6. CASE ReaddStore(s)
  <2>1. /\ tpc[s] = "readd" /\ timer' = timer /\ UNCHANGED <<conn, held>>
        /\ \E pc \in {"new", "old"} : tpc' = [tpc EXCEPT ![s] = pc]
    BY <1>6, Zenon DEF ReaddStore, TaskAt, TaskGoto
  <2>2. held[s] # conn[s] /\ held[s] \in Conns /\ conn[s] \in Conns /\ held[s][1] = conn[s][1]
    BY <2>1, ConnFacts DEF Logins, AllBegan, Inv, Removals
  <2>3. Began(held[s]) /\ Began(conn[s])
    BY <2>2, ConnFacts, Zenon DEF Logins, AllBegan
  <2>4. Reused
    BY <2>2, <2>3, OneOfId, Zenon
  <2>5. conn' = [conn EXCEPT ![s] = conn[s]] /\ held' = [held EXCEPT ![s] = held[s]]
    BY <1>1, <2>1, Zenon
  <2>6. \A pc \in {"new", "old"} : pc \in TaskPC /\ pc # "readd"
    BY DEF TaskPC
  <2> QED  BY <1>3, <2>1, <2>4, <2>5, <2>6, Zenon
<1> QED  BY <1>4, <1>5, <1>6, Zenon DEF TaskStep

LEMMA LoginsStep == Inv /\ Logins /\ [Next]_vars => Logins'
<1> SUFFICES ASSUME Inv, Logins, [Next]_vars  PROVE Logins'
  OBVIOUS
<1>1. reg \in [Conns -> RegPC] /\ timer \in [Ids -> ConnOrNone]
  BY Zenon DEF Inv, Types
<1>2. reader \in [Conns -> Pump] /\ \A d \in Conns : (reader[d] = "run" => Began(d)) /\ (victims[d] # {} => reg[d] = "kick")
  BY Zenon DEF Logins, AllBegan
<1>3. ASSUME UNCHANGED reg  PROVE Onward /\ \A d \in Conns : Unjudged(d) => Unjudged(d)'
  BY <1>1, <1>3, Zenon DEF Onward, Began, Unjudged
<1>4. CASE UNCHANGED vars
  <2>1. UNCHANGED <<allowMulti, reg, timer, store, reader, tpc, conn, held, victims>>
    BY <1>4, Zenon DEF vars, storeVars, regVars, pumpVars, taskVars
  <2> QED  BY <1>2, <1>3, <2>1, QuietLogins, Zenon
<1>5. ASSUME NEW i \in Ids, OnTimeout(i)  PROVE Logins'
  <2>1. /\ UNCHANGED <<allowMulti, reg, store, reader, victims>> /\ timer[i] # None
        /\ timer' = [timer EXCEPT ![i] = None] /\ (UNCHANGED <<tpc, conn, held>> \/ Spawn(timer[i], FALSE))
    BY <1>5, Zenon DEF OnTimeout, storeVars, regVars, pumpVars, taskVars, Unregister
  <2>2. \A j \in Ids : timer'[j] = timer[j] \/ timer'[j] = None
    BY <1>1, <2>1, Zenon
  <2>3. CASE UNCHANGED <<tpc, conn, held>>
    BY <1>2, <1>3, <2>1, <2>2, <2>3, QuietLogins, Zenon DEF Fresh
  <2>4. CASE Spawn(timer[i], FALSE)
    <3>1. timer[i] \in Conns /\ Began(timer[i])
      BY <1>1, <2>1, Zenon DEF ConnOrNone, Logins, AllBegan
    <3> QED  BY <1>2, <1>3, <2>1, <2>2, <2>4, <3>1, SpawnLogins, Zenon
  <2> QED  BY <2>1, <2>3, <2>4, Zenon
<1> QED  BY <1>4, <1>5, ConnectionLogins, RemovalStepLogins, Zenon DEF Next

LEMMA InitLogins == Init => Logins
<1> SUFFICES ASSUME Init  PROVE Logins
  OBVIOUS
<1>1. AllBegan
  BY Zenon DEF Init, AllBegan, Pump
<1>2. Registered = {}
  BY DEF Init, Registered
<1> QED  BY <1>1, <1>2, Zenon DEF Logins, Sole

\* Without multi-login, and with no client ID used twice, the user has one connection at
\* most once all registrations and removals are done, for any number of connections,
\* panics and overlapping removals (EnforceMultiLoginPolicy, KickClient).
THEOREM OneLogin == Spec => []SingleLogin
<1>1. ASSUME Inv, Logins  PROVE SingleLogin
  <2> SUFFICES ASSUME ~ allowMulti, Quiet, ~ Reused  PROVE Cardinality(Registered) <= 1
    BY DEF SingleLogin
  <2>1. \A c \in Conns : ~ Unjudged(c) /\ ~ Doomed(c)
    BY <1>1, Zenon DEF Quiet, Registering, Unjudged, Doomed, Logins, AllBegan
  <2>2. \A c, d \in Registered : c = d
    BY <1>1, <2>1, InMap, Zenon DEF Logins, Sole
  <2>3. CASE Registered = {}
    BY <2>3, FS_EmptySet
  <2>4. CASE Registered # {}
    <3>1. PICK c \in Registered : TRUE
      BY <2>4
    <3>2. Registered = {c}
      BY <2>2
    <3>3. Cardinality(Registered) = 1
      BY <3>2, FS_Singleton, Zenon
    <3> QED  BY <3>3
  <2> QED  BY <2>3, <2>4, Zenon
<1> QED  BY <1>1, InitInv, InvStep, InitLogins, LoginsStep, PTL DEF Spec
=============================================================================
