--------------------------- MODULE MessageRecord ---------------------------
(***************************************************************************)
(* The send record of one point-to-point message: what the shared table    *)
(* wsc_message_send_records says of it, and who acts on what it says.      *)
(* Every attempt submits a record to the sender's outbox, which inserts it *)
(* in a batch; deliveries report a status, merged into the outbox or       *)
(* queued in the reporting node's MessageStatusUpdater; a record that      *)
(* stays "sending" for nodeAckTimeout is claimed by the sender's timer, or *)
(* by the scan any node runs, and stored for offline delivery.             *)
(*                                                                         *)
(* The index on (message_id, receiver) is not unique: a retry adds a row,  *)
(* and an UPDATE by that key changes all of them.                          *)
(***************************************************************************)
EXTENDS Naturals, FiniteSets

CONSTANTS
    Nodes,      \* nodes of the cluster
    Sender,     \* the node that sends the message
    MaxTries,   \* RetryPolicy.MaxRetries + 1
    HandlerTries, \* times the PubSub subscription runs a failing handler
    MayFail,    \* inserts, updates, stores and queues may fail or be full
    MaxCrashes  \* bound: nodes that crash

ASSUME RecordAssumption ==
    /\ IsFiniteSet(Nodes) /\ Sender \in Nodes
    /\ MaxTries \in Nat \ {0} /\ HandlerTries \in Nat \ {0}
    /\ MayFail \in BOOLEAN
    /\ MaxCrashes \in Nat /\ MaxCrashes < Cardinality(Nodes)

VARIABLES
    loc,      \* the node the receiver is connected to
    alive,    \* nodes that are running
    spc,      \* control point of sendToUserWithRetryCore
    try,      \* attempts made
    mem,      \* Status of the attempt's record in memory
    stage,    \* where the attempt's record is: queue, insert, table, or dropped
    snap,     \* status the flush copied for its INSERT
    key,      \* the attempt whose record the outbox's pending map holds, 0 for none
    row,      \* status of the attempt's row, "none" before the INSERT
    upd,      \* statuses in a node's MessageStatusUpdater
    incr,     \* IncrementRetry goroutines of the sender: attempt and success
    timer,    \* the sender's ACK timer is armed
    scan,     \* a node's scan has read a stale row
    claim,    \* a node has claimed rows, in its timer or its scan, and not yet
              \* started the store
    storing,  \* StoreOfflineOnDeliveryFailure goroutines of a node, by cause
    wire,     \* handler calls the published message has left, 0 when handled or lost
    shown,    \* the receiver's connection accepted the message
    stored,   \* causes for which the message was put in the offline store
    report,   \* what the sender's caller was told
    claimers, \* history: how many times a row was claimed
    storeErr  \* history: an asynchronous store failed

outVars == <<mem, stage, snap, key>>
sendVars == <<spc, try, report>>
ackVars == <<timer, scan, claim, claimers>>
vars == <<loc, alive, outVars, sendVars, ackVars, row, upd, incr, storing, wire,
          shown, stored, storeErr>>

Tries == 1 .. MaxTries
Status == {"sending", "success", "failed", "retrying", "ack_timeout", "user_offline"}
Causes == {"refused", "ack", "final"}

TypeOK ==
    /\ loc \in Nodes /\ alive \subseteq Nodes
    /\ spc \in {"start", "route", "failed", "done"}
    /\ try \in 0 .. MaxTries
    /\ mem \in [Tries -> Status] /\ snap \in [Tries -> Status]
    /\ stage \in [Tries -> {"none", "queued", "insert", "inserted", "arming", "table",
                         "dropped"}]
    /\ key \in 0 .. MaxTries
    /\ key # 0 => stage[key] \in {"queued", "insert", "inserted"}
    /\ row \in [Tries -> Status \cup {"none"}]
    /\ \A i \in Tries : row[i] # "none" => stage[i] \in {"inserted", "arming", "table"}
    /\ upd \in [Nodes -> SUBSET Status]
    /\ incr \subseteq Tries \X BOOLEAN
    /\ timer \in BOOLEAN /\ shown \in BOOLEAN /\ storeErr \in BOOLEAN
    /\ wire \in 0 .. HandlerTries
    /\ scan \subseteq Nodes /\ claim \subseteq Nodes \X {"timer", "scan"}
    /\ storing \in [Nodes -> SUBSET Causes]
    /\ stored \subseteq Causes
    /\ report \in {"none", "ok", "error"}
    /\ claimers \in [Tries -> Nat]

Init ==
    /\ loc \in Nodes /\ alive = Nodes
    /\ spc = "start" /\ try = 0 /\ report = "none"
    /\ mem = [i \in Tries |-> "sending"] /\ snap = [i \in Tries |-> "sending"]
    /\ stage = [i \in Tries |-> "none"] /\ key = 0
    /\ row = [i \in Tries |-> "none"]
    /\ upd = [n \in Nodes |-> {}] /\ incr = {}
    /\ timer = FALSE /\ scan = {} /\ claim = {} /\ claimers = [i \in Tries |-> 0]
    /\ storing = [n \in Nodes |-> {}]
    /\ wire = 0 /\ shown = FALSE /\ stored = {} /\ storeErr = FALSE

-----------------------------------------------------------------------------
(* updateMessageStatusAsync on node n: cancel the timer, merge into a      *)
(* pending record of the outbox or else queue an UPDATE, dropped when the  *)
(* queue is full.  Only the sender has a timer and a record for the key.   *)

UpdateStatus(n, st) ==
    /\ timer' = IF n = Sender THEN FALSE ELSE timer
    /\ IF n = Sender /\ key # 0
       THEN mem' = [mem EXCEPT ![key] = st] /\ UNCHANGED upd
       ELSE /\ \/ upd' = [upd EXCEPT ![n] = @ \cup {st}]
               \/ MayFail /\ UNCHANGED upd
            /\ UNCHANGED mem

\* sendToClientCore refuses: the connection is closed and nothing is reported,
\* or the gate or the channel refuses and the status is failed.
Refuse(n) == UpdateStatus(n, "failed") \/ UNCHANGED <<timer, mem, upd>>

-----------------------------------------------------------------------------
(* The send path. *)

\* recordMessageToDatabase: the record enters pending before the queue.
Submit ==
    /\ spc = "start"
    /\ try' = try + 1
    /\ key' = try + 1
    /\ stage' = [stage EXCEPT ![try + 1] = "queued"]
    /\ spc' = "route"
    /\ UNCHANGED <<loc, alive, mem, snap, report, ackVars, row, upd, incr, storing, wire,
                   shown, stored, storeErr>>

\* The queue is full: the record is taken out of pending again.
SubmitFull ==
    /\ spc = "start"
    /\ MayFail
    /\ try' = try + 1
    /\ key' = 0
    /\ stage' = [stage EXCEPT ![try + 1] = "dropped"]
    /\ spc' = "route"
    /\ UNCHANGED <<loc, alive, mem, snap, report, ackVars, row, upd, incr, storing, wire,
                   shown, stored, storeErr>>

\* executeSendAttempt: every attempt but the first is recorded.
RecordRetry(ok) == incr' = IF try > 1 THEN incr \cup {<<try, ok>>} ELSE incr

DeliverLocal ==
    /\ spc = "route"
    /\ loc = Sender
    /\ \/ /\ shown' = TRUE
          /\ UpdateStatus(Sender, "success")
          /\ RecordRetry(TRUE)
          /\ spc' = "done" /\ report' = "ok"
       \/ /\ Refuse(Sender)
          /\ RecordRetry(FALSE)
          /\ spc' = "failed"
          /\ UNCHANGED <<shown, report>>
    /\ UNCHANGED <<loc, alive, try, stage, snap, key, scan, claim, claimers, row, storing,
                   wire, stored, storeErr>>

\* checkAndRouteToNode: routed is success, whatever becomes of the message.
RouteRemote ==
    /\ spc = "route"
    /\ loc # Sender
    /\ \/ wire' = HandlerTries /\ RecordRetry(TRUE) /\ spc' = "done" /\ report' = "ok"
       \/ RecordRetry(FALSE) /\ spc' = "failed" /\ UNCHANGED <<wire, report>>
    /\ UNCHANGED <<loc, alive, try, outVars, ackVars, row, upd, storing, shown, stored,
                   storeErr>>

Retry ==
    /\ spc = "failed"
    /\ try < MaxTries
    /\ spc' = "start"
    /\ UNCHANGED <<loc, alive, try, report, outVars, ackVars, row, upd, incr, storing, wire,
                   shown, stored, storeErr>>

\* The synchronous StoreOfflineMessage after the last attempt, or after an
\* error that is not retryable.
FinalStore ==
    /\ spc = "failed"
    /\ \/ /\ stored' = stored \cup {"final"}
          /\ UpdateStatus(Sender, "user_offline")
          /\ report' = "ok"
       \/ /\ MayFail
          /\ UpdateStatus(Sender, "failed")
          /\ report' = "error"
          /\ UNCHANGED stored
    /\ spc' = "done"
    /\ UNCHANGED <<loc, alive, try, stage, snap, key, scan, claim, claimers, row, incr,
                   storing, wire, shown, storeErr>>

\* IncrementRetry: one UPDATE of all rows, with no guard on their status.
\* max_retry is MaxTries - 1.
IncrementRetry(i, ok) ==
    LET st == CASE ok -> "success"
                [] ~ok /\ i >= MaxTries - 1 -> "failed"
                [] OTHER -> "retrying"
    IN  /\ <<i, ok>> \in incr
        /\ incr' = incr \ {<<i, ok>>}
        /\ \/ row' = [j \in Tries |-> IF row[j] = "none" THEN "none" ELSE st]
           \/ MayFail /\ UNCHANGED row
        /\ UNCHANGED <<loc, alive, sendVars, outVars, ackVars, upd, storing, wire, shown,
                       stored, storeErr>>

-----------------------------------------------------------------------------
(* The node of the receiver: handleDistributedSendMessage.                 *)

\* A refusal is reported and not stored.
HandleRemote_NoStore ==
    /\ wire > 0 /\ loc \in alive
    /\ \/ wire' = 0 /\ shown' = TRUE /\ UpdateStatus(loc, "success")
       \/ wire' = wire - 1 /\ Refuse(loc) /\ UNCHANGED shown
    /\ UNCHANGED <<loc, alive, sendVars, stage, snap, key, scan, claim, claimers, row, incr,
                   storing, stored, storeErr>>

\* A handler that reached no connection returns an error and is run again.
HandleRemote ==
    /\ wire > 0 /\ loc \in alive
    /\ \/ wire' = 0 /\ shown' = TRUE /\ UpdateStatus(loc, "success") /\ UNCHANGED storing
       \/ /\ wire' = wire - 1
          /\ Refuse(loc)
          /\ storing' = [storing EXCEPT ![loc] = @ \cup {"refused"}]
          /\ UNCHANGED shown
    /\ UNCHANGED <<loc, alive, sendVars, stage, snap, key, scan, claim, claimers, row, incr,
                   stored, storeErr>>

\* PubSub delivers at most once.
Lose ==
    /\ wire > 0
    /\ wire' = 0
    /\ UNCHANGED <<loc, alive, sendVars, outVars, ackVars, row, upd, incr, storing, shown,
                   stored, storeErr>>

\* The goroutine of StoreOfflineOnDeliveryFailure.
StoreAsync(n, c) ==
    /\ c \in storing[n]
    /\ storing' = [storing EXCEPT ![n] = @ \ {c}]
    /\ \/ /\ stored' = stored \cup {c}
          /\ UpdateStatus(n, "user_offline")
          /\ UNCHANGED storeErr
       \/ /\ MayFail
          /\ storeErr' = TRUE
          /\ UNCHANGED <<stored, timer, mem, upd>>
    /\ UNCHANGED <<loc, alive, sendVars, stage, snap, key, scan, claim, claimers, row, incr,
                   wire, shown>>

-----------------------------------------------------------------------------
(* The outbox: flush copies the records under the lock, inserts the copies *)
(* without it, and then cleans pending and arms the timers.                *)

FlushSnapshot ==
    /\ \A i \in Tries : stage[i] \notin {"insert", "inserted", "arming"}
    /\ \E i \in Tries : stage[i] = "queued"
    /\ stage' = [i \in Tries |-> IF stage[i] = "queued" THEN "insert" ELSE stage[i]]
    /\ snap' = [i \in Tries |-> IF stage[i] = "queued" THEN mem[i] ELSE snap[i]]
    /\ UNCHANGED <<loc, alive, sendVars, mem, key, ackVars, row, upd, incr, storing, wire,
                   shown, stored, storeErr>>

Inserting == {i \in Tries : stage[i] = "insert"}

FlushInsert ==
    /\ Inserting # {}
    /\ row' = [i \in Tries |-> IF i \in Inserting THEN snap[i] ELSE row[i]]
    /\ stage' = [i \in Tries |-> IF i \in Inserting THEN "inserted" ELSE stage[i]]
    /\ UNCHANGED <<loc, alive, sendVars, mem, snap, key, ackVars, upd, incr, storing, wire,
                   shown, stored, storeErr>>

FlushFail ==
    /\ MayFail
    /\ Inserting # {}
    /\ stage' = [i \in Tries |-> IF i \in Inserting THEN "dropped" ELSE stage[i]]
    /\ key' = IF key \in Inserting THEN 0 ELSE key
    /\ UNCHANGED <<loc, alive, sendVars, mem, snap, ackVars, row, upd, incr, storing, wire,
                   shown, stored, storeErr>>

\* The records leave pending; the timers are for those still sending in memory.
FlushDone ==
    LET done == {i \in Tries : stage[i] = "inserted"}
    IN  /\ done # {}
        /\ stage' = [i \in Tries |-> CASE i \in done /\ mem[i] = "sending" -> "arming"
                                       [] i \in done /\ mem[i] # "sending" -> "table"
                                       [] OTHER -> stage[i]]
        /\ key' = IF key \in done THEN 0 ELSE key
        /\ UNCHANGED <<loc, alive, sendVars, mem, snap, ackVars, row, upd, incr, storing,
                       wire, shown, stored, storeErr>>

\* ScheduleAckTimeouts, after the unlock: it may follow the cancel it missed.
FlushArm ==
    /\ \E i \in Tries : stage[i] = "arming"
    /\ stage' = [i \in Tries |-> IF stage[i] = "arming" THEN "table" ELSE stage[i]]
    /\ timer' = TRUE
    /\ UNCHANGED <<loc, alive, sendVars, mem, snap, key, scan, claim, claimers, row, upd,
                   incr, storing, wire, shown, stored, storeErr>>

\* MessageStatusUpdater.flush: one UPDATE per distinct status, in the order
\* of a map iteration, so any of them may be the last.
UpdaterFlush(n) ==
    /\ upd[n] # {}
    /\ upd' = [upd EXCEPT ![n] = {}]
    /\ \/ \E st \in upd[n] :
             row' = [i \in Tries |-> IF row[i] = "none" THEN "none" ELSE st]
       \/ MayFail /\ UNCHANGED row
    /\ UNCHANGED <<loc, alive, sendVars, outVars, ackVars, incr, storing, wire, shown, stored,
                   storeErr>>

-----------------------------------------------------------------------------
(* ACK timeouts.  nodeAckTimeout is much longer than a delivery and the    *)
(* flush intervals, so it passes only when nothing of that is under way.   *)

Quiet ==
    /\ spc = "done" \/ Sender \notin alive
    /\ wire = 0 /\ incr = {}
    /\ \A n \in Nodes : upd[n] = {} /\ storing[n] = {}
    /\ \A i \in Tries : stage[i] \in {"none", "table", "dropped"}

\* Without the status in the WHERE clause.
ClaimStaleSending_Unguarded(n, path) ==
    LET got == {i \in Tries : row[i] # "none"}
    IN  /\ row' = [i \in Tries |-> IF i \in got THEN "ack_timeout" ELSE row[i]]
        /\ claimers' = [i \in Tries |-> IF i \in got THEN claimers[i] + 1 ELSE claimers[i]]
        /\ claim' = IF got = {} THEN claim ELSE claim \cup {<<n, path>>}

ClaimStaleSending(n, path) ==
    LET got == {i \in Tries : row[i] = "sending"}
    IN  /\ row' = [i \in Tries |-> IF i \in got THEN "ack_timeout" ELSE row[i]]
        /\ claimers' = [i \in Tries |-> IF i \in got THEN claimers[i] + 1 ELSE claimers[i]]
        /\ claim' = IF got = {} THEN claim ELSE claim \cup {<<n, path>>}

\* makeAckTimeoutCallback: a claim that fails is left to the scan.
TimerFire ==
    /\ timer /\ Quiet
    /\ timer' = FALSE
    /\ \/ ClaimStaleSending(Sender, "timer")
       \/ MayFail /\ UNCHANGED <<row, claimers, claim>>
    /\ UNCHANGED <<loc, alive, sendVars, outVars, scan, upd, incr, storing, wire, shown,
                   stored, storeErr>>

\* A node scans only what it sent itself.
ScanQuery_OwnOnly(n) ==
    /\ n = Sender
    /\ n \in alive \ scan
    /\ Quiet
    /\ \E i \in Tries : row[i] = "sending"
    /\ scan' = scan \cup {n}
    /\ UNCHANGED <<loc, alive, sendVars, outVars, timer, claim, claimers, row, upd, incr,
                   storing, wire, shown, stored, storeErr>>

\* timeoutStaleSendingRecords: the query, then the claim of what it read.
ScanQuery(n) ==
    /\ n \in alive \ scan
    /\ Quiet
    /\ \E i \in Tries : row[i] = "sending"
    /\ scan' = scan \cup {n}
    /\ UNCHANGED <<loc, alive, sendVars, outVars, timer, claim, claimers, row, upd, incr,
                   storing, wire, shown, stored, storeErr>>

ScanClaim(n) ==
    /\ n \in scan
    /\ scan' = scan \ {n}
    /\ ClaimStaleSending(n, "scan")
    /\ UNCHANGED <<loc, alive, sendVars, outVars, timer, upd, incr, storing, wire, shown,
                   stored, storeErr>>

\* The claim fails; the next scan reads the row again.
ScanFail(n) ==
    /\ MayFail
    /\ n \in scan
    /\ scan' = scan \ {n}
    /\ UNCHANGED <<loc, alive, sendVars, outVars, timer, claim, claimers, row, upd, incr,
                   storing, wire, shown, stored, storeErr>>

\* The timer reads the claimed record back from the table before it stores.
ClaimStore(n, path) ==
    /\ <<n, path>> \in claim
    /\ claim' = claim \ {<<n, path>>}
    /\ \/ /\ storing' = [storing EXCEPT ![n] = @ \cup {"ack"}]
          /\ UNCHANGED storeErr
       \/ /\ MayFail /\ path = "timer"
          /\ storeErr' = TRUE
          /\ UNCHANGED storing
    /\ UNCHANGED <<loc, alive, sendVars, outVars, timer, scan, claimers, row, upd, incr, wire,
                   shown, stored>>

-----------------------------------------------------------------------------
\* Whatever a node keeps in memory is gone.
Crash(n) ==
    /\ n \in alive
    /\ Cardinality(Nodes \ alive) < MaxCrashes
    /\ alive' = alive \ {n}
    /\ upd' = [upd EXCEPT ![n] = {}]
    /\ storing' = [storing EXCEPT ![n] = {}]
    /\ scan' = scan \ {n} /\ claim' = {c \in claim : c[1] # n}
    /\ IF n = Sender
       THEN /\ spc' = "done" /\ key' = 0 /\ timer' = FALSE /\ incr' = {}
            /\ stage' = [i \in Tries |-> CASE stage[i] \in {"queued", "insert"} -> "dropped"
                                           [] stage[i] \in {"inserted", "arming"} -> "table"
                                           [] OTHER -> stage[i]]
       ELSE UNCHANGED <<spc, key, timer, incr, stage>>
    /\ UNCHANGED <<loc, try, report, mem, snap, claimers, row, wire, shown, stored, storeErr>>

SenderStep == Submit \/ SubmitFull \/ DeliverLocal \/ RouteRemote \/ Retry \/ FinalStore
FlushStep == FlushSnapshot \/ FlushInsert \/ FlushFail \/ FlushDone \/ FlushArm
ScanStep(n) == ScanQuery(n) \/ ScanClaim(n) \/ ScanFail(n)
StoreStep(n) ==
    \/ \E path \in {"timer", "scan"} : ClaimStore(n, path)
    \/ \E c \in Causes : StoreAsync(n, c)

Next ==
    \/ SenderStep \/ FlushStep \/ TimerFire
    \/ HandleRemote \/ Lose
    \/ \E i \in Tries, ok \in BOOLEAN : IncrementRetry(i, ok)
    \/ \E n \in Nodes : UpdaterFlush(n) \/ ScanStep(n) \/ StoreStep(n) \/ Crash(n)

\* Goroutines and tickers of a live node run on; a published message is
\* handled or lost; a claim that keeps being tried does not fail for ever.
Fairness ==
    /\ WF_vars(SenderStep) /\ WF_vars(FlushStep) /\ WF_vars(TimerFire)
    /\ WF_vars(HandleRemote \/ Lose)
    /\ WF_vars(\E i \in Tries, ok \in BOOLEAN : IncrementRetry(i, ok))
    /\ \A n \in Nodes :
          /\ WF_vars(UpdaterFlush(n)) /\ WF_vars(StoreStep(n))
          /\ WF_vars(ScanQuery(n)) /\ SF_vars(ScanClaim(n))

Spec == Init /\ [][Next]_vars
FairSpec == Spec /\ Fairness

-----------------------------------------------------------------------------
(* Properties *)

\* However the sender's timer and the scans of the nodes interleave, a row is
\* claimed once, so an ACK timeout stores the message once
\* (node_ack_timeout.go:98: otherwise each Pod would handle the same record).
RowClaimedOnce == \A i \in Tries : claimers[i] <= 1

\* No row stays "sending" for ever, also when the sender crashes with its
\* timers: the scan of another node is the safety net.
SendingIsTemporary == <>[](\A i \in Tries : row[i] # "sending")

\* A message whose first attempt was reported as sent and whose row is in
\* the table is received or stored for offline delivery, although PubSub may
\* lose it and the receiver's node may refuse it, unless a node crashes or
\* the store itself fails.
SentIsNotLost ==
    (report = "ok" /\ try = 1 /\ row[1] # "none")
        ~> (shown \/ stored # {} \/ storeErr \/ alive # Nodes)

\* A message the receiver's connection accepted is not stored again by the
\* ACK timeout: its status has replaced "sending" in the table by then.
DeliveredIsNotStored == ~(shown /\ "ack" \in stored)
=============================================================================
