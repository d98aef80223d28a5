-------------------------- MODULE Messages_proofs --------------------------
(***************************************************************************)
(* What becomes of a message: its row is claimed by one ACK timeout        *)
(* (ClaimedOnce), and its sender is told whether a device of the receiver  *)
(* took it (FateTold).                                                     *)
(***************************************************************************)
EXTENDS MessageRecord, LocalSend, TLAPS

(***************************************************************************)
(* A row is claimed by one ACK timeout, for any number of nodes, attempts  *)
(* and crashes.  RowClaimedOnce is not inductive: a claim is guarded by    *)
(* the status, so the invariant has to say that no step makes a row        *)
(* "sending" again once it was something else.                             *)
(***************************************************************************)

Inserted == {"inserted", "arming", "table"}
Stages == {"none", "queued", "insert", "dropped"} \cup Inserted

\* A row that was claimed is not "sending", and cannot become it again: no
\* queued update says "sending" and a record is inserted once.
ClaimInv ==
    /\ row \in [Tries -> Status \cup {"none"}]
    /\ stage \in [Tries -> Stages]
    /\ claimers \in [Tries -> Nat]
    /\ upd \in [Nodes -> SUBSET (Status \ {"sending"})]
    /\ snap \in [Tries -> Status] /\ mem \in [Tries -> Status]
    /\ key \in 0 .. MaxTries
    /\ try \in 0 .. MaxTries /\ (spc = "start" => try < MaxTries)
    /\ \A i \in Tries : i > try => stage[i] = "none"
    /\ loc \in Nodes
    /\ \A i \in Tries : stage[i] \notin Inserted => row[i] = "none"
    /\ \A i \in Tries : row[i] \in {"none", "sending"} => claimers[i] = 0
    /\ \A i \in Tries : claimers[i] <= 1

\* updateMessageStatusAsync queues no "sending" and keeps the records' types.
LEMMA UpdateStatusKeeps ==
    ASSUME ClaimInv, NEW n \in Nodes, NEW st \in Status \ {"sending"}, UpdateStatus(n, st)
    PROVE  /\ upd' \in [Nodes -> SUBSET (Status \ {"sending"})]
           /\ mem' \in [Tries -> Status]
<1>1. CASE n = Sender /\ key # 0
  BY <1>1, Zenon DEF UpdateStatus, ClaimInv
<1>2. CASE ~(n = Sender /\ key # 0)
  BY <1>2 DEF UpdateStatus, ClaimInv
<1> QED BY <1>1, <1>2, Zenon

LEMMA RefuseKeeps ==
    ASSUME ClaimInv, NEW n \in Nodes, Refuse(n)
    PROVE  /\ upd' \in [Nodes -> SUBSET (Status \ {"sending"})]
           /\ mem' \in [Tries -> Status]
<1>1. "failed" \in Status \ {"sending"}
  BY DEF Status
<1>2. CASE UpdateStatus(n, "failed")
  BY <1>1, <1>2, UpdateStatusKeeps, Zenon
<1>3. CASE UNCHANGED <<timer, mem, upd>>
  BY <1>3, Zenon DEF ClaimInv
<1> QED BY <1>2, <1>3, Zenon DEF Refuse

\* One UPDATE of the rows that exist, with a status other than "sending".
LEMMA UpdateRowsKeeps ==
    ASSUME ClaimInv, NEW st \in Status \ {"sending"},
           row' = [i \in Tries |-> IF row[i] = "none" THEN "none" ELSE st],
           upd' \in [Nodes -> SUBSET (Status \ {"sending"})],
           UNCHANGED <<stage, claimers, snap, mem, key, try, spc, loc>>
    PROVE  ClaimInv'
BY Zenon DEF ClaimInv, Status

\* The claim raises the count of "sending" rows only, and these had none.
LEMMA ClaimKeeps ==
    ASSUME ClaimInv, NEW n \in Nodes, NEW path, ClaimStaleSending(n, path),
           UNCHANGED <<stage, upd, snap, mem, key, try, spc, loc>>
    PROVE  ClaimInv'
<1> DEFINE got == {i \in Tries : row[i] = "sending"}
<1>1. /\ row' = [i \in Tries |-> IF i \in got THEN "ack_timeout" ELSE row[i]]
      /\ claimers' = [i \in Tries |-> IF i \in got THEN claimers[i] + 1 ELSE claimers[i]]
  BY Zenon DEF ClaimStaleSending
<1>2. \A i \in Tries : i \in got => claimers[i] = 0 /\ stage[i] \in Inserted
  BY Zenon DEF ClaimInv
<1>3. row' \in [Tries -> Status \cup {"none"}] /\ claimers' \in [Tries -> Nat]
  BY <1>1 DEF ClaimInv, Status
<1>4. \A i \in Tries : /\ stage[i] \notin Inserted => row'[i] = "none"
                       /\ row'[i] \in {"none", "sending"} => claimers'[i] = 0
                       /\ claimers'[i] <= 1
  BY <1>1, <1>2 DEF ClaimInv
<1> QED BY <1>3, <1>4, Zenon DEF ClaimInv

\* The invariant is kept by a step that leaves rows, stages, counts, snapshots
\* and attempts alone.
LEMMA FrameKeeps ==
    ASSUME ClaimInv,
           UNCHANGED <<row, stage, claimers, snap, key, try, loc>>,
           spc' = "start" => try < MaxTries,
           upd' \in [Nodes -> SUBSET (Status \ {"sending"})],
           mem' \in [Tries -> Status]
    PROVE  ClaimInv'
BY Zenon DEF ClaimInv

LEMMA ClaimInvInit == Init => ClaimInv
BY RecordAssumption DEF Init, ClaimInv, Inserted, Stages, Status, Tries

\* A submit takes a stage that has no row.
LEMMA SubmitKeeps ==
    ASSUME ClaimInv, Submit \/ SubmitFull
    PROVE  ClaimInv'
<1>1. PICK st \in {"queued", "dropped"} : stage' = [stage EXCEPT ![try + 1] = st]
  BY Zenon DEF Submit, SubmitFull
<1>2. UNCHANGED <<row, claimers, snap, mem, upd, loc>> /\ try' = try + 1 /\ spc' = "route"
  BY Zenon DEF Submit, SubmitFull, ackVars
<1>3. key' \in {0, try + 1}
  BY Zenon DEF Submit, SubmitFull
<1>4. try + 1 \in Tries /\ stage[try + 1] = "none"
  BY RecordAssumption DEF ClaimInv, Tries, Submit, SubmitFull
<1>5. stage' \in [Tries -> Stages]
  BY <1>1, <1>4, Zenon DEF ClaimInv, Stages
<1>6. key' \in 0 .. MaxTries /\ try' \in 0 .. MaxTries
  BY <1>2, <1>3, <1>4, RecordAssumption DEF Tries
<1>7. \A i \in Tries : /\ stage'[i] \notin Inserted => row'[i] = "none"
                       /\ i > try' => stage'[i] = "none"
  BY <1>1, <1>2, <1>4 DEF ClaimInv, Inserted, Tries
<1> QED BY <1>2, <1>5, <1>6, <1>7, Zenon DEF ClaimInv

\* The flush: a record is inserted from the stage in which it has no row.
LEMMA FlushKeeps ==
    ASSUME ClaimInv, FlushStep
    PROVE  ClaimInv'
<1>1. CASE FlushSnapshot
  BY <1>1, Zenon DEF FlushSnapshot, ClaimInv, sendVars, ackVars, Stages, Inserted
<1>2. CASE FlushInsert
  BY <1>2, Zenon DEF FlushInsert, Inserting, ClaimInv, sendVars, ackVars, Stages, Inserted
<1>3. CASE FlushFail
  BY <1>3, RecordAssumption DEF FlushFail, Inserting, ClaimInv, sendVars, ackVars, Stages, Inserted
<1>4. CASE FlushDone
  BY <1>4, RecordAssumption DEF FlushDone, ClaimInv, sendVars, ackVars, Stages, Inserted
<1>5. CASE FlushArm
  BY <1>5, Zenon DEF FlushArm, ClaimInv, sendVars, Stages, Inserted
<1> QED BY <1>1, <1>2, <1>3, <1>4, <1>5 DEF FlushStep

LEMMA SenderKeeps ==
    ASSUME ClaimInv, SenderStep
    PROVE  ClaimInv'
<1>1. CASE Submit \/ SubmitFull
  BY <1>1, SubmitKeeps
<1>2. CASE DeliverLocal
  <2>1. \/ UpdateStatus(Sender, "success") /\ spc' = "done"
        \/ Refuse(Sender) /\ spc' = "failed"
    BY <1>2, Zenon DEF DeliverLocal
  <2>2. UNCHANGED <<row, stage, claimers, snap, key, try, loc>>
    BY <1>2, Zenon DEF DeliverLocal
  <2>3. upd' \in [Nodes -> SUBSET (Status \ {"sending"})] /\ mem' \in [Tries -> Status]
    BY <2>1, UpdateStatusKeeps, RefuseKeeps, RecordAssumption, Zenon DEF Status
  <2> QED BY <2>1, <2>2, <2>3, FrameKeeps, Zenon
<1>3. CASE RouteRemote
  BY <1>3, Zenon DEF RouteRemote, outVars, ackVars, ClaimInv
<1>4. CASE Retry
  BY <1>4, Zenon DEF Retry, outVars, ackVars, ClaimInv
<1>5. CASE FinalStore
  <2>1. UpdateStatus(Sender, "user_offline") \/ UpdateStatus(Sender, "failed")
    BY <1>5, Zenon DEF FinalStore
  <2>2. UNCHANGED <<row, stage, claimers, snap, key, try, loc>> /\ spc' = "done"
    BY <1>5, Zenon DEF FinalStore
  <2>3. upd' \in [Nodes -> SUBSET (Status \ {"sending"})] /\ mem' \in [Tries -> Status]
    BY <2>1, UpdateStatusKeeps, RecordAssumption, Zenon DEF Status
  <2> QED BY <2>2, <2>3, FrameKeeps, Zenon
<1> QED BY <1>1, <1>2, <1>3, <1>4, <1>5 DEF SenderStep

LEMMA RemoteKeeps ==
    ASSUME ClaimInv, HandleRemote \/ Lose
    PROVE  ClaimInv'
<1>1. CASE HandleRemote
  <2>1. UpdateStatus(loc, "success") \/ Refuse(loc)
    BY <1>1, Zenon DEF HandleRemote
  <2>2. UNCHANGED <<row, stage, claimers, snap, key, try, spc, loc>>
    BY <1>1, Zenon DEF HandleRemote, sendVars
  <2>3. upd' \in [Nodes -> SUBSET (Status \ {"sending"})] /\ mem' \in [Tries -> Status]
    BY <2>1, UpdateStatusKeeps, RefuseKeeps, Zenon DEF Status, ClaimInv
  <2> QED BY <2>2, <2>3, FrameKeeps, Zenon DEF ClaimInv
<1>2. CASE Lose
  BY <1>2, Zenon DEF Lose, sendVars, outVars, ackVars, ClaimInv
<1> QED BY <1>1, <1>2, Zenon

LEMMA UpdatesKeep ==
    ASSUME ClaimInv
    PROVE  /\ \A i \in Tries, ok \in BOOLEAN : IncrementRetry(i, ok) => ClaimInv'
           /\ \A n \in Nodes : UpdaterFlush(n) => ClaimInv'
<1>1. ASSUME NEW i \in Tries, NEW ok \in BOOLEAN, IncrementRetry(i, ok)
      PROVE  ClaimInv'
  <2>1. UNCHANGED <<stage, claimers, upd, snap, mem, key, try, spc, loc>>
    BY <1>1, Zenon DEF IncrementRetry, sendVars, outVars, ackVars
  <2>2. CASE UNCHANGED row
    BY <2>1, <2>2, Zenon DEF ClaimInv
  <2>3. CASE ~ UNCHANGED row
    <3>1. PICK st \in Status \ {"sending"} :
            row' = [j \in Tries |-> IF row[j] = "none" THEN "none" ELSE st]
      BY <1>1, <2>3 DEF IncrementRetry, Status
    <3> QED BY <2>1, <3>1, UpdateRowsKeeps, Zenon DEF ClaimInv
  <2> QED BY <2>2, <2>3
<1>2. ASSUME NEW n \in Nodes, UpdaterFlush(n)
      PROVE  ClaimInv'
  <2>1. UNCHANGED <<stage, claimers, snap, mem, key, try, spc, loc>>
    BY <1>2, Zenon DEF UpdaterFlush, sendVars, outVars, ackVars
  <2>2. upd' \in [Nodes -> SUBSET (Status \ {"sending"})]
    BY <1>2, Zenon DEF UpdaterFlush, ClaimInv
  <2>3. CASE UNCHANGED row
    BY <2>1, <2>2, <2>3, Zenon DEF ClaimInv
  <2>4. CASE ~ UNCHANGED row
    <3>1. PICK st \in upd[n] :
            row' = [j \in Tries |-> IF row[j] = "none" THEN "none" ELSE st]
      BY <1>2, <2>4, Zenon DEF UpdaterFlush
    <3>2. st \in Status \ {"sending"}
      BY <3>1, Zenon DEF ClaimInv
    <3> QED BY <2>1, <2>2, <3>1, <3>2, UpdateRowsKeeps, Zenon
  <2> QED BY <2>3, <2>4, Zenon
<1> QED BY <1>1, <1>2

LEMMA NodeKeeps ==
    ASSUME ClaimInv, NEW n \in Nodes, ScanStep(n) \/ StoreStep(n) \/ Crash(n)
    PROVE  ClaimInv'
<1>1. CASE ScanQuery(n) \/ ScanFail(n)
  BY <1>1, Zenon DEF ScanQuery, ScanFail, sendVars, outVars, ClaimInv
<1>2. CASE ScanClaim(n)
  BY <1>2, ClaimKeeps, Zenon DEF ScanClaim, sendVars, outVars
<1>3. ASSUME NEW path, ClaimStore(n, path) PROVE ClaimInv'
  BY <1>3, Zenon DEF ClaimStore, sendVars, outVars, ClaimInv
<1>4. ASSUME NEW c, StoreAsync(n, c) PROVE ClaimInv'
  <2>1. UpdateStatus(n, "user_offline") \/ UNCHANGED <<timer, mem, upd>>
    BY <1>4, Zenon DEF StoreAsync
  <2>2. UNCHANGED <<row, stage, claimers, snap, key, try, spc, loc>>
    BY <1>4, Zenon DEF StoreAsync, sendVars
  <2>3. upd' \in [Nodes -> SUBSET (Status \ {"sending"})] /\ mem' \in [Tries -> Status]
    BY <2>1, UpdateStatusKeeps, Zenon DEF Status, ClaimInv
  <2> QED BY <2>2, <2>3, FrameKeeps, Zenon DEF ClaimInv
<1>5. CASE Crash(n)
  <2>1. UNCHANGED <<loc, try, mem, snap, claimers, row>> /\ upd' = [upd EXCEPT ![n] = {}]
    BY <1>5, Zenon DEF Crash
  <2>2. CASE n = Sender
    <3>1. /\ spc' = "done" /\ key' = 0
          /\ stage' = [i \in Tries |-> CASE stage[i] \in {"queued", "insert"} -> "dropped"
                                         [] stage[i] \in {"inserted", "arming"} -> "table"
                                         [] OTHER -> stage[i]]
      BY <1>5, <2>2, Zenon DEF Crash
    <3> QED BY <2>1, <3>1, RecordAssumption DEF ClaimInv, Stages, Inserted
  <2>3. CASE n # Sender
    <3>1. UNCHANGED <<spc, key, stage>>
      BY <1>5, <2>3, Zenon DEF Crash
    <3> QED BY <2>1, <3>1, Zenon DEF ClaimInv
  <2> QED BY <2>2, <2>3
<1> QED BY <1>1, <1>2, <1>3, <1>4, <1>5, Zenon DEF ScanStep, StoreStep

LEMMA ClaimInvNext == ClaimInv /\ [Next]_vars => ClaimInv'
<1> SUFFICES ASSUME ClaimInv, [Next]_vars PROVE ClaimInv'
  OBVIOUS
<1>1. CASE SenderStep \/ FlushStep \/ HandleRemote \/ Lose
  BY <1>1, SenderKeeps, FlushKeeps, RemoteKeeps
<1>2. CASE TimerFire
  <2>1. UNCHANGED <<stage, upd, snap, mem, key, try, spc, loc>>
    BY <1>2, Zenon DEF TimerFire, sendVars, outVars
  <2>2. CASE ClaimStaleSending(Sender, "timer")
    BY <2>1, <2>2, ClaimKeeps, RecordAssumption, Zenon
  <2>3. CASE UNCHANGED <<row, claimers, claim>>
    BY <2>1, <2>3, Zenon DEF ClaimInv
  <2> QED BY <1>2, <2>2, <2>3, Zenon DEF TimerFire
<1>3. CASE \E i \in Tries, ok \in BOOLEAN : IncrementRetry(i, ok)
  BY <1>3, UpdatesKeep
<1>4. CASE \E n \in Nodes : UpdaterFlush(n) \/ ScanStep(n) \/ StoreStep(n) \/ Crash(n)
  BY <1>4, UpdatesKeep, NodeKeeps
<1>5. CASE UNCHANGED vars
  BY <1>5, Zenon DEF vars, sendVars, outVars, ackVars, ClaimInv
<1> QED BY <1>1, <1>2, <1>3, <1>4, <1>5, Zenon DEF Next

\* The sender's timer and the scans of all nodes claim a row at most once, in
\* any cluster, with any number of attempts and crashes: an ACK timeout puts
\* the message in the offline store once (ClaimStaleSending's status guard).
THEOREM ClaimedOnce == Spec => []RowClaimedOnce
<1>1. ClaimInv => RowClaimedOnce
  BY Zenon DEF ClaimInv, RowClaimedOnce
<1> QED BY <1>1, ClaimInvInit, ClaimInvNext, PTL DEF Spec

-----------------------------------------------------------------------------
(***************************************************************************)
(* A send on one node, for any devices, messages, retries, room in the     *)
(* channels and refusals.  FateIsTold is not inductive: a fate is read off *)
(* the count of the attempt, so Told has to say at each point of the way   *)
(* what the count and the walk mean for the devices of the receiver.       *)
(***************************************************************************)
\* A device of the receiver has a copy of m.
Has(m, d) == LsUser[d] = "receiver" /\ lsTaken[d][m] > 0
Reached(m) == \E d \in LsDevices : Has(m, d)

\* What is known of a message at each point of its way: no device of the receiver has
\* it before the walk and between two attempts; during the walk, those the walk has
\* still to reach have not; the count of the attempt is zero unless some device has it.
Told(m) ==
    /\ \A d \in LsDevices : Has(m, d) => lsTaken[d][m] = 1
    /\ lsAt[m] \in {"unread", "forward", "attempt", "backoff", "store"} => ~ Reached(m)
    /\ lsAt[m] = "deliver" => \A d \in lsTodo[m] : ~ Has(m, d)
    /\ lsAt[m] = "sync" => \A d \in lsTodo[m] : LsUser[d] # "receiver"
    /\ lsAt[m] \in {"deliver", "sync"} => (lsSent[m] > 0 <=> Reached(m))
    /\ lsAt[m] = "done" => (lsFate[m] = "delivered" <=> Reached(m))

LsTypes ==
    /\ lsAt \in [LsMessages -> {"unread", "forward", "attempt", "deliver", "sync", "backoff", "store", "done"}]
    /\ lsFate \in [LsMessages -> {"", "handled", "delivered", "stored", "dropped", "failed"}]
    /\ lsTodo \in [LsMessages -> SUBSET LsDevices]
    /\ lsSent \in [LsMessages -> Nat]
    /\ lsTaken \in [LsDevices -> [LsMessages -> Nat]]
    /\ lsOpen \subseteq LsDevices
    /\ lsSlot \in [{"sender", "receiver"} -> LsMessages \cup {NoMessage}]
    \* the coalescer holds express messages only
    /\ \A u \in {"sender", "receiver"} : lsSlot[u] # NoMessage => ~ Counted(lsSlot[u])

LsInv == LsTypes /\ \A m \in LsMessages : Counted(m) => Told(m)

\* A step of message m leaves the others where they are.
OnlyMoves(m) ==
    \A n \in LsMessages \ {m} : /\ lsAt'[n] = lsAt[n] /\ lsFate'[n] = lsFate[n]
                                /\ lsTodo'[n] = lsTodo[n] /\ lsSent'[n] = lsSent[n]

\* What is known of the others stays true.
LEMMA OthersKeep ==
    ASSUME LsInv, LsTypes', NEW m \in LsMessages, lsKind' = lsKind, OnlyMoves(m),
           \A d \in LsDevices : \A n \in LsMessages \ {m} : lsTaken'[d][n] = lsTaken[d][n],
           Counted(m) => Told(m)'
    PROVE  LsInv'
<1> SUFFICES ASSUME NEW n \in LsMessages, Counted(n), n # m  PROVE Told(n)'
  BY Zenon DEF Counted, LsInv
<1>1. lsAt'[n] = lsAt[n] /\ lsFate'[n] = lsFate[n] /\ lsTodo'[n] = lsTodo[n] /\ lsSent'[n] = lsSent[n]
  BY Zenon DEF OnlyMoves
<1>2. \A d \in LsDevices : lsTaken'[d][n] = lsTaken[d][n]
  BY Zenon
<1>3. Told(n) /\ lsTodo[n] \subseteq LsDevices
  BY Zenon DEF LsInv, LsTypes
<1>4. \A d \in LsDevices : Has(n, d)' <=> Has(n, d)
  BY <1>2, Zenon DEF Has
<1>5. Reached(n)' <=> Reached(n)
  BY <1>4, Zenon DEF Reached
<1> QED  BY <1>1, <1>2, <1>3, <1>4, <1>5, Zenon DEF Told

\* A step that hands m to no device, when what is to be known of m at its next point is
\* known already.
LEMMA Moves ==
    ASSUME LsInv, LsTypes', NEW m \in LsMessages, UNCHANGED <<lsKind, lsTaken>>, OnlyMoves(m),
           Counted(m) =>
               /\ lsAt'[m] \in {"unread", "forward", "attempt", "backoff", "store"} => ~ Reached(m)
               /\ lsAt'[m] = "deliver" => \A d \in lsTodo'[m] : ~ Has(m, d)
               /\ lsAt'[m] = "sync" => \A d \in lsTodo'[m] : LsUser[d] # "receiver"
               /\ lsAt'[m] \in {"deliver", "sync"} => (lsSent'[m] > 0 <=> Reached(m))
               /\ lsAt'[m] = "done" => (lsFate'[m] = "delivered" <=> Reached(m))
    PROVE  LsInv'
<1>1. \A d : Has(m, d)' <=> Has(m, d)
  BY Zenon DEF Has
<1>2. Reached(m)' <=> Reached(m)
  BY <1>1, Zenon DEF Reached
<1>3. ASSUME Counted(m)  PROVE Told(m)'
  BY <1>1, <1>2, <1>3, Zenon DEF Told, LsInv
<1> QED  BY <1>3, OthersKeep, Zenon

\* The two ways a goroutine goes on.
LEMMA GoesOn ==
    ASSUME LsInv, NEW m \in LsMessages, UNCHANGED <<lsKind, lsTodo, lsTaken, lsSlot, lsOpen>>,
           NEW at \in {"forward", "attempt", "backoff", "store"}, Continues(m, at),
           Counted(m) => ~ Reached(m)
    PROVE  LsInv'
<1>1. lsAt' = [lsAt EXCEPT ![m] = at] /\ UNCHANGED <<lsFate, lsSent>>
  BY Zenon DEF Continues, GoesTo
<1>2. LsTypes' /\ OnlyMoves(m) /\ lsAt'[m] = at
  BY <1>1 DEF LsInv, LsTypes, OnlyMoves, Counted
<1> QED  BY <1>2, Moves

LEMMA IsOver ==
    ASSUME LsInv, NEW m \in LsMessages, UNCHANGED <<lsKind, lsTodo, lsTaken, lsSlot, lsOpen>>,
           NEW fate \in {"handled", "delivered", "stored", "dropped", "failed"}, Ends(m, fate),
           Counted(m) => (fate = "delivered" <=> Reached(m))
    PROVE  LsInv'
<1>1. lsAt' = [lsAt EXCEPT ![m] = "done"] /\ lsFate' = [lsFate EXCEPT ![m] = fate] /\ lsSent' = [lsSent EXCEPT ![m] = 0]
  BY Zenon DEF Ends, GoesTo
<1>2. LsTypes' /\ OnlyMoves(m) /\ lsAt'[m] = "done" /\ lsFate'[m] = fate
  BY <1>1 DEF LsInv, LsTypes, OnlyMoves, Counted
<1> QED  BY <1>2, Moves

LEMMA FrameStep ==
    ASSUME LsInv, NEW m \in LsMessages, handleTextMessage(m) \/ handleBinaryMessage(m) \/ SendPriority(m)
    PROVE  LsInv'
<1>1. UNCHANGED <<lsKind, lsTodo, lsTaken, lsSlot, lsOpen>>
  BY Zenon DEF handleTextMessage, handleBinaryMessage, SendPriority, lsChans
<1>2. Counted(m) => ~ Reached(m)
  BY Zenon DEF LsInv, Told, handleTextMessage, handleBinaryMessage, SendPriority
<1>3. CASE Continues(m, "forward")
  BY <1>1, <1>2, <1>3, GoesOn
<1>4. CASE ~ Counted(m) /\ Ends(m, "handled")
  BY <1>1, <1>4, IsOver
<1> QED  
  BY <1>3, <1>4, Zenon DEF handleTextMessage, handleBinaryMessage, SendPriority, InvokeMessageReceivedCallback, 
     IsForwardableType, Counted, Continues

LEMMA SendingStep ==
    ASSUME LsInv, NEW m \in LsMessages,
           \/ handleForwardableMessage(m) \/ executeSendAttempt(m) \/ syncToSenderDevices(m)
           \/ deliverOnlineWithPolicy(m) \/ RetryOrTimeout(m) \/ StoreOffline(m)
    PROVE  LsInv'
<1>1. lsTodo \in [LsMessages -> SUBSET LsDevices] /\ lsSent \in [LsMessages -> Nat] /\ lsOpen \subseteq LsDevices
  BY Zenon DEF LsInv, LsTypes
<1>2. Counted(m) => Told(m)
  BY Zenon DEF LsInv
<1>3. CASE handleForwardableMessage(m)
  <2>1. UNCHANGED <<lsKind, lsTodo, lsTaken, lsSlot, lsOpen>> /\ (Counted(m) => ~ Reached(m))
    BY <1>2, <1>3, Zenon DEF handleForwardableMessage, lsChans, Told
  <2>2. \/ Continues(m, "attempt") \/ Continues(m, "store")
        \/ ~ Counted(m) /\ (Ends(m, "handled") \/ Ends(m, "dropped"))
    BY <1>3, Zenon DEF handleForwardableMessage, Counted, Express
  <2> QED  BY <2>1, <2>2, GoesOn, IsOver
<1>4. CASE executeSendAttempt(m)
  <2>1. /\ lsAt' = [lsAt EXCEPT ![m] = "deliver"] /\ lsTodo' = [lsTodo EXCEPT ![m] = DevicesOf("receiver")]
        /\ lsSent' = [lsSent EXCEPT ![m] = 0] /\ UNCHANGED <<lsKind, lsFate, lsTaken, lsSlot, lsOpen>>
        /\ (Counted(m) => ~ Reached(m))
    BY <1>2, <1>4, Zenon DEF executeSendAttempt, GoesTo, lsChans, Told
  <2>2. DevicesOf("receiver") \in SUBSET LsDevices
    BY <1>1, Zenon DEF DevicesOf
  <2>3. LsTypes' /\ OnlyMoves(m) /\ lsAt'[m] = "deliver" /\ lsTodo'[m] \in SUBSET LsDevices /\ lsSent'[m] = 0
    BY <2>1, <2>2 DEF LsInv, LsTypes, OnlyMoves, Counted
  <2> QED  BY <2>1, <2>3, Moves DEF Reached
<1>5. CASE syncToSenderDevices(m)
  <2> DEFINE todo == IF Cardinality(DevicesOf("sender")) <= 1 THEN {} ELSE DevicesOf(normalizeMessageFields.sender) \ {normalizeMessageFields.client}
  <2>1. /\ lsAt' = [lsAt EXCEPT ![m] = "sync"] /\ lsTodo' = [lsTodo EXCEPT ![m] = todo]
        /\ UNCHANGED <<lsKind, lsFate, lsSent, lsTaken, lsSlot, lsOpen>>
        /\ (Counted(m) => (lsSent[m] > 0 <=> Reached(m)))
    BY <1>2, <1>5, Zenon DEF syncToSenderDevices, GoesTo, lsChans, Told
  <2>2. todo \in SUBSET LsDevices /\ \A d \in todo : LsUser[d] # "receiver"
    BY <1>1 DEF DevicesOf, normalizeMessageFields
  <2> HIDE DEF todo
  <2>3. LsTypes' /\ OnlyMoves(m) /\ lsAt'[m] = "sync" /\ lsTodo'[m] = todo /\ lsSent'[m] = lsSent[m]
    BY <2>1, <2>2 DEF LsInv, LsTypes, OnlyMoves, Counted
  <2> QED  BY <2>1, <2>2, <2>3, Moves
<1>6. CASE deliverOnlineWithPolicy(m)
  <2>1. UNCHANGED <<lsKind, lsTodo, lsTaken, lsSlot, lsOpen>> /\ (Counted(m) => (lsSent[m] > 0 <=> Reached(m)))
    BY <1>2, <1>6, Zenon DEF deliverOnlineWithPolicy, lsChans, Told
  <2>2. CASE lsSent[m] > 0
    BY <1>6, <2>1, <2>2, IsOver DEF deliverOnlineWithPolicy
  <2>3. CASE ~ (lsSent[m] > 0) /\ Express(m)
    <3>1. Ends(m, "failed") /\ ~ Counted(m)
      BY <1>6, <2>3, Zenon DEF deliverOnlineWithPolicy, Express, Counted
    <3> QED  BY <2>1, <3>1, IsOver
  <2>4. CASE ~ (lsSent[m] > 0) /\ ~ Express(m)
    BY <1>6, <2>1, <2>4, GoesOn DEF deliverOnlineWithPolicy
  <2> QED  BY <2>2, <2>3, <2>4, Zenon
<1>7. CASE RetryOrTimeout(m)
  <2>1. UNCHANGED <<lsKind, lsTodo, lsTaken, lsSlot, lsOpen>> /\ (Counted(m) => ~ Reached(m))
    BY <1>2, <1>7, Zenon DEF RetryOrTimeout, lsChans, Told
  <2>2. Continues(m, "attempt") \/ Continues(m, "store")
    BY <1>7, Zenon DEF RetryOrTimeout, Continues
  <2> QED  BY <2>1, <2>2, GoesOn
<1>8. CASE StoreOffline(m)
  <2>1. UNCHANGED <<lsKind, lsTodo, lsTaken, lsSlot, lsOpen>> /\ (Counted(m) => ~ Reached(m))
    BY <1>2, <1>8, Zenon DEF StoreOffline, lsChans, Told
  <2>2. Ends(m, "stored") \/ Ends(m, "failed")
    BY <1>8, Zenon DEF StoreOffline
  <2> QED  BY <2>1, <2>2, IsOver
<1> QED  BY <1>3, <1>4, <1>5, <1>6, <1>7, <1>8, Zenon

\* sendToClientCore: of a counted message, device d gets a copy exactly when it took it.
LEMMA CoreGives ==
    ASSUME LsInv, NEW m \in LsMessages, NEW d \in LsDevices, NEW took \in BOOLEAN,
           sendToClientCore(m, d, took), lsKind' = lsKind
    PROVE  /\ lsTaken' \in [LsDevices -> [LsMessages -> Nat]]
           /\ \A e \in LsDevices : \A n \in LsMessages \ {m} : lsTaken'[e][n] = lsTaken[e][n]
           /\ Counted(m) => \A e \in LsDevices : lsTaken'[e][m] = IF took /\ e = d THEN lsTaken[e][m] + 1 ELSE lsTaken[e][m]
           /\ lsSlot' \in [{"sender", "receiver"} -> LsMessages \cup {NoMessage}]
           /\ \A u \in {"sender", "receiver"} : lsSlot'[u] # NoMessage => ~ Counted(lsSlot'[u])
<1>1. lsTaken \in [LsDevices -> [LsMessages -> Nat]]
  BY Zenon DEF LsInv, LsTypes
<1>2. /\ lsSlot \in [{"sender", "receiver"} -> LsMessages \cup {NoMessage}]
      /\ \A u \in {"sender", "receiver"} : lsSlot[u] # NoMessage => ~ Counted(lsSlot[u])
  BY Zenon DEF LsInv, LsTypes
<1>3. CASE took /\ Express(m) /\ lsSlot' = [lsSlot EXCEPT ![LsUser[d]] = m] /\ lsTaken' = lsTaken
  BY <1>1, <1>2, <1>3 DEF Express, Counted
<1>4. CASE took /\ Takes(d, m) /\ lsSlot' = lsSlot
  BY <1>1, <1>2, <1>4 DEF Takes
<1>5. CASE ~ took /\ UNCHANGED <<lsTaken, lsSlot>>
  BY <1>1, <1>2, <1>5
<1> QED  BY <1>3, <1>4, <1>5, Zenon DEF sendToClientCore, lsChans, TrySendSSE

LEMMA WalkStep ==
    ASSUME LsInv, NEW m \in LsMessages, NEW d \in LsDevices, TryDeliverToClient(m, d)
    PROVE  LsInv'
<1>1. PICK took \in BOOLEAN :
        /\ sendToClientCore(m, d, took) /\ lsSent' = [lsSent EXCEPT ![m] = IF took THEN @ + 1 ELSE @]
  BY Zenon DEF TryDeliverToClient
<1>2. /\ lsAt[m] = "deliver" /\ d \in lsTodo[m] /\ LsUser[d] = "receiver"
      /\ lsTodo' = [lsTodo EXCEPT ![m] = @ \ {d}] /\ UNCHANGED <<lsKind, lsAt, lsFate, lsOpen>>
  BY Zenon DEF TryDeliverToClient
<1>3. /\ lsTaken' \in [LsDevices -> [LsMessages -> Nat]]
      /\ \A e \in LsDevices : \A n \in LsMessages \ {m} : lsTaken'[e][n] = lsTaken[e][n]
      /\ Counted(m) => \A e \in LsDevices : lsTaken'[e][m] = IF took /\ e = d THEN lsTaken[e][m] + 1 ELSE lsTaken[e][m]
      /\ lsSlot' \in [{"sender", "receiver"} -> LsMessages \cup {NoMessage}]
      /\ \A u \in {"sender", "receiver"} : lsSlot'[u] # NoMessage => ~ Counted(lsSlot'[u])
  BY <1>1, <1>2, CoreGives
<1>4. LsTypes' /\ OnlyMoves(m) /\ lsTodo'[m] = lsTodo[m] \ {d} /\ lsSent'[m] = IF took THEN lsSent[m] + 1 ELSE lsSent[m]
  <2>1. lsTodo \in [LsMessages -> SUBSET LsDevices] /\ lsSent \in [LsMessages -> Nat]
    BY Zenon DEF LsInv, LsTypes
  <2>2. /\ lsTodo' \in [LsMessages -> SUBSET LsDevices] /\ lsTodo'[m] = lsTodo[m] \ {d}
        /\ \A n \in LsMessages \ {m} : lsTodo'[n] = lsTodo[n]
    BY <1>2, <2>1
  <2>3. /\ lsSent' \in [LsMessages -> Nat] /\ lsSent'[m] = IF took THEN lsSent[m] + 1 ELSE lsSent[m]
        /\ \A n \in LsMessages \ {m} : lsSent'[n] = lsSent[n]
    BY <1>1, <2>1
  <2> QED  BY <1>2, <1>3, <2>2, <2>3, Zenon DEF LsInv, LsTypes, OnlyMoves, Counted
<1>5. ASSUME Counted(m)  PROVE Told(m)'
  <2>1. Told(m) /\ lsTodo[m] \subseteq LsDevices /\ lsSent[m] \in Nat /\ lsTaken[d][m] \in Nat
    BY <1>5, Zenon DEF LsInv, LsTypes
  <2>2. /\ \A e \in LsDevices \ {d} : lsTaken'[e][m] = lsTaken[e][m]
        /\ took => lsTaken'[d][m] = 1
        /\ ~ took => lsTaken'[d][m] = lsTaken[d][m]
        /\ ~ (lsTaken[d][m] > 0)
    <3>1. ~ (lsTaken[d][m] > 0)
      BY <1>2, <2>1, Zenon DEF Told, Has
    <3>2. lsTaken'[d][m] = IF took THEN lsTaken[d][m] + 1 ELSE lsTaken[d][m]
      BY <1>3, <1>5, Zenon
    <3>3. \A e \in LsDevices \ {d} : lsTaken'[e][m] = lsTaken[e][m]
      BY <1>3, <1>5, Zenon
    <3> QED  BY <2>1, <3>1, <3>2, <3>3
  <2>3. /\ \A e \in LsDevices \ {d} : Has(m, e)' <=> Has(m, e)
        /\ Has(m, d)' <=> took
        /\ ~ Has(m, d)
    BY <1>2, <2>2 DEF Has
  <2>4. Reached(m)' <=> took \/ Reached(m)
    BY <2>3, Zenon DEF Reached
  <2>5. \A e \in LsDevices : Has(m, e)' => lsTaken'[e][m] = 1
    BY <2>1, <2>2, <2>3, Zenon DEF Told
  <2>6. \A e \in lsTodo'[m] : ~ Has(m, e)'
    BY <1>2, <1>4, <2>1, <2>3, Zenon DEF Told
  <2>7. lsSent'[m] > 0 <=> Reached(m)'
    <3>1. lsSent[m] > 0 <=> Reached(m)
      BY <1>2, <2>1, Zenon DEF Told
    <3> QED  BY <1>4, <2>1, <2>4, <3>1
  <2> QED  BY <1>2, <2>5, <2>6, <2>7, Zenon DEF Told
<1> QED  BY <1>2, <1>3, <1>4, <1>5, OthersKeep, Zenon

\* A copy for a device of the sender is none of the receiver's.
LEMMA SyncStep ==
    ASSUME LsInv, NEW m \in LsMessages, NEW d \in LsDevices, SyncTo(m, d)
    PROVE  LsInv'
<1>1. PICK took \in BOOLEAN : sendToClientCore(m, d, took)
  BY Zenon DEF SyncTo
<1>2. /\ lsAt[m] = "sync" /\ d \in lsTodo[m]
      /\ lsTodo' = [lsTodo EXCEPT ![m] = @ \ {d}] /\ UNCHANGED <<lsKind, lsAt, lsFate, lsSent, lsOpen>>
  BY Zenon DEF SyncTo
<1>3. /\ lsTaken' \in [LsDevices -> [LsMessages -> Nat]]
      /\ \A e \in LsDevices : \A n \in LsMessages \ {m} : lsTaken'[e][n] = lsTaken[e][n]
      /\ Counted(m) => \A e \in LsDevices : lsTaken'[e][m] = IF took /\ e = d THEN lsTaken[e][m] + 1 ELSE lsTaken[e][m]
      /\ lsSlot' \in [{"sender", "receiver"} -> LsMessages \cup {NoMessage}]
      /\ \A u \in {"sender", "receiver"} : lsSlot'[u] # NoMessage => ~ Counted(lsSlot'[u])
  BY <1>1, <1>2, CoreGives
<1>4. LsTypes' /\ OnlyMoves(m) /\ lsTodo'[m] = lsTodo[m] \ {d}
  BY <1>2, <1>3 DEF LsInv, LsTypes, OnlyMoves, Counted
<1>5. ASSUME Counted(m)  PROVE Told(m)'
  <2>1. Told(m)
    BY <1>5, Zenon DEF LsInv
  <2>2. \A e \in LsDevices : LsUser[e] = "receiver" => lsTaken'[e][m] = lsTaken[e][m]
    BY <1>2, <1>3, <1>5, <2>1, Zenon DEF Told
  <2>3. \A e \in LsDevices : Has(m, e)' <=> Has(m, e)
    BY <2>2, Zenon DEF Has
  <2>4. Reached(m)' <=> Reached(m)
    BY <2>3, Zenon DEF Reached
  <2> QED  BY <1>2, <1>4, <2>1, <2>2, <2>3, <2>4, Zenon DEF Told, Has
<1> QED  BY <1>2, <1>3, <1>4, <1>5, OthersKeep, Zenon

\* Handing round a message that is not counted changes no count.
LEMMA AllTakeKeeps ==
    ASSUME LsInv, NEW ds, NEW m, ~ Counted(m), AllTake(ds, m)
    PROVE  lsTaken' = lsTaken
<1>1. lsTaken \in [LsDevices -> [LsMessages -> Nat]]
  BY Zenon DEF LsInv, LsTypes
<1>2. lsTaken' = [d \in LsDevices |-> [n \in LsMessages |-> lsTaken[d][n]]]
  BY <1>1 DEF AllTake
<1> QED  BY <1>1, <1>2

\* Steps of the coalescer, of SSE and of the devices.
LEMMA AroundStep ==
    ASSUME LsInv, UNCHANGED <<lsSends, lsTaken>>, lsOpen' \subseteq LsDevices,
           lsSlot' \in [{"sender", "receiver"} -> LsMessages \cup {NoMessage}],
           \A u \in {"sender", "receiver"} : lsSlot'[u] # NoMessage => ~ Counted(lsSlot'[u])
    PROVE  LsInv'
BY Zenon DEF LsInv, LsTypes, lsSends, Told, Reached, Has, Counted

LEMMA LsInvInit == LsInit => LsInv
<1> SUFFICES ASSUME LsInit PROVE LsInv
  OBVIOUS
<1>1. LsTypes
  BY 0 \in Nat, Zenon DEF LsInit, LsTypes
<1>2. \A m \in LsMessages : ~ Reached(m) /\ lsAt[m] = "unread"
  <2>1. \A d \in LsDevices : \A m \in LsMessages : lsTaken[d][m] = 0
    BY Zenon DEF LsInit
  <2>2. ~ (0 > 0)
    OBVIOUS
  <2> QED  BY <2>1, <2>2, Zenon DEF LsInit, Reached, Has
<1> QED  BY <1>1, <1>2, Zenon DEF LsInv, Told, Reached

LEMMA LsInvStep == LsInv /\ [LsNext]_lsVars => LsInv'
<1> SUFFICES ASSUME LsInv, [LsNext]_lsVars PROVE LsInv'
  OBVIOUS
<1>1. /\ lsOpen \subseteq LsDevices /\ lsSlot \in [{"sender", "receiver"} -> LsMessages \cup {NoMessage}]
      /\ \A u \in {"sender", "receiver"} : lsSlot[u] # NoMessage => ~ Counted(lsSlot[u])
  BY Zenon DEF LsInv, LsTypes
<1>2. CASE UNCHANGED lsVars
  BY <1>1, <1>2, AroundStep, Zenon DEF lsVars, lsSends, Counted
<1>3. ASSUME NEW m \in LsMessages, SendToUserViaSSE(m) \/ BroadcastToSSEClients(m)  PROVE LsInv'
  <2>1. ~ Counted(m) /\ UNCHANGED <<lsKind, lsTodo, lsSlot, lsOpen>> /\ (Ends(m, "delivered") \/ Ends(m, "failed") \/ Ends(m, "handled"))
    BY <1>3, Zenon DEF SendToUserViaSSE, BroadcastToSSEClients, Counted
  <2>2. \E ds : AllTake(ds, m)
    BY <1>3, Zenon DEF SendToUserViaSSE, BroadcastToSSEClients
  <2>3. lsTaken' = lsTaken
    BY <2>1, <2>2, AllTakeKeeps, Zenon
  <2> QED  BY <2>1, <2>3, IsOver
<1>4. ASSUME NEW u \in {"sender", "receiver"}, deliverCoalesced(u)  PROVE LsInv'
  <2>1. /\ ~ Counted(lsSlot[u]) /\ lsSlot' = [lsSlot EXCEPT ![u] = NoMessage] /\ AllTake(DevicesOf("receiver"), lsSlot[u])
        /\ UNCHANGED <<lsSends, lsOpen>>
    BY <1>1, <1>4, Zenon DEF deliverCoalesced
  <2>2. lsTaken' = lsTaken
    BY <2>1, AllTakeKeeps, Zenon
  <2>3. /\ lsSlot' \in [{"sender", "receiver"} -> LsMessages \cup {NoMessage}]
        /\ \A v \in {"sender", "receiver"} : lsSlot'[v] # NoMessage => ~ Counted(lsSlot'[v])
    BY <1>1, <2>1, Zenon
  <2> QED  BY <1>1, <2>1, <2>2, <2>3, AroundStep, Zenon
<1>5. ASSUME NEW d \in LsDevices, ClientReads(d) \/ GoesIdle(d) \/ Leaves(d)  PROVE LsInv'
  <2>1. UNCHANGED <<lsSends, lsTaken, lsSlot>> /\ lsOpen' \subseteq lsOpen
    BY <1>5, Zenon DEF ClientReads, GoesIdle, Leaves, lsChans
  <2> QED  BY <1>1, <2>1, AroundStep
<1>6. CASE ScanSSETimeouts
  <2>1. UNCHANGED <<lsSends, lsTaken, lsSlot>> /\ lsOpen' \subseteq lsOpen
    BY <1>6, Zenon DEF ScanSSETimeouts, lsChans
  <2> QED  BY <1>1, <2>1, AroundStep
<1> QED
  BY <1>2, <1>3, <1>4, <1>5, <1>6, FrameStep, SendingStep, WalkStep, SyncStep, Zenon DEF LsNext, Sending

\* The sender of a message that is not express is told its fate: for any devices,
\* messages, retries, room and refusals, "delivered" means that a device of the receiver
\* took the message, once, and "stored" or "failed" that none did (handleDirectMessage,
\* deliverOnlineWithPolicy, sendToUserWithRetryCore).
THEOREM FateTold == LsSpec => []FateIsTold
<1>1. LsInv => FateIsTold
  BY Zenon DEF LsInv, Told, Reached, Has, FateIsTold
<1> QED  BY <1>1, LsInvInit, LsInvStep, PTL DEF LsSpec
=============================================================================
