----------------------------- MODULE LocalSend -----------------------------
(***************************************************************************)
(* What a client sends, from its frame to the devices of the receiver, on  *)
(* a Hub of one node: the dispatch by message type, the attempts of        *)
(* SendToUserWithRetry, the devices one after the other, the copies for    *)
(* the sender's other devices, the coalescer of high-frequency messages    *)
(* and the scan that removes idle SSE devices.  Messages have the kind     *)
(* their bytes show: "ping" and "ack" (found by the peek or after the full *)
(* parse), "text" for what goes to the application, which includes what is *)
(* no JSON at all, "binary", and the forwarded "window", "typing" and      *)
(* "stray", which names no receiver.                                       *)
(***************************************************************************)
EXTENDS Integers, FiniteSets

CONSTANTS
    LsKinds,    \* messages: message -> the kinds it may have
    LsUser,     \* devices: device -> "sender" or "receiver"
    LsSSE,      \* the devices that are SSE subscriptions
    LsOrigin,   \* the sender's device that sends: SenderClient
    LsLeavers,  \* bound: the WebSocket devices that may leave
    LsRoom,     \* cap of a device's channel
    LsRetries,  \* RetryPolicy.MaxRetries
    LsFaults    \* bound: refusals of the gate, of the coalescer or of the offline store

ASSUME LocalSendAssumption == LsSSE \subseteq DOMAIN LsUser /\ LsLeavers \cup {LsOrigin} \subseteq DOMAIN LsUser \ LsSSE /\ LsRoom \in Nat \ {0} /\ {LsRetries, LsFaults} \subseteq Nat

LsMessages == DOMAIN LsKinds
LsDevices == DOMAIN LsUser
NoMessage == "none"  \* an empty slot of the coalescer

VARIABLES
    lsKind,    \* message -> kind
    lsAt,      \* message -> "unread", "forward", "attempt", "deliver", "sync", "backoff", "store", "done"
    lsFate,    \* message -> "", "handled", "delivered", "stored", "dropped", "failed": how its sender sees it end
    lsTodo,    \* message -> devices the walk has still to reach
    lsSent,    \* message -> devices that took it in this attempt
    lsTries,   \* message -> attempts made
    lsQueue,   \* device -> frames in its channel
    lsTaken,   \* device -> message -> copies its channel has taken of a forwarded message that is not express
    lsSlot,    \* user -> the message the coalescer holds for the user
    lsOpen,    \* registered devices
    lsIdle,    \* SSE devices not written to for the client timeout
    lsScan,    \* devices ScanSSETimeouts has collected
    lsLeft     \* refusals that may still happen

lsVars == <<lsKind, lsAt, lsFate, lsTodo, lsSent, lsTries, lsQueue, lsTaken, lsSlot, lsOpen, lsIdle, lsScan, lsLeft>>
lsSends == <<lsKind, lsAt, lsFate, lsTodo, lsSent, lsTries>>
lsChans == <<lsQueue, lsTaken, lsIdle>>

LsInit ==
    /\ lsKind \in [LsMessages -> UNION {LsKinds[m] : m \in LsMessages}] /\ (\A m \in LsMessages : lsKind[m] \in LsKinds[m])
    /\ lsAt = [m \in LsMessages |-> "unread"] /\ lsFate = [m \in LsMessages |-> ""]
    /\ lsTodo = [m \in LsMessages |-> {}] /\ lsSent = [m \in LsMessages |-> 0] /\ lsTries = [m \in LsMessages |-> 0]
    /\ lsQueue = [d \in LsDevices |-> 0] /\ lsTaken = [d \in LsDevices |-> [m \in LsMessages |-> 0]]
    /\ lsSlot = [u \in {"sender", "receiver"} |-> NoMessage]
    /\ lsOpen = LsDevices /\ lsIdle = {} /\ lsScan = {} /\ lsLeft = LsFaults

DevicesOf(u) == {d \in lsOpen : LsUser[d] = u}
Express(m) == lsKind[m] = "typing"
Counted(m) == lsKind[m] = "window"
LsRefuses == lsLeft > 0 /\ lsLeft' = lsLeft - 1
GoesTo(m, at) == lsAt' = [lsAt EXCEPT ![m] = at]
\* The goroutine that sends m ends, and what it remembers of the attempts with it.
Ends(m, fate) ==
    /\ GoesTo(m, "done") /\ lsFate' = [lsFate EXCEPT ![m] = fate]
    /\ lsSent' = [lsSent EXCEPT ![m] = 0] /\ lsTries' = [lsTries EXCEPT ![m] = 0]
Continues(m, at) == GoesTo(m, at) /\ UNCHANGED <<lsFate, lsSent, lsTries>>

-----------------------------------------------------------------------------
(* The frame of a client.                                                  *)

IsForwardableType(k) == k \in {"window", "typing", "stray"}

\* normalizeMessageFields names the sender and its device, so that the copies for the
\* sender's other devices leave this one out.
normalizeMessageFields == [sender |-> "sender", client |-> LsOrigin]

\* InvokeMessageReceivedCallback: what is not forwarded is the application's.
InvokeMessageReceivedCallback(m) == Ends(m, "handled")

\* handleTextMessage: heartbeats and acknowledgements end here (ClientLanes, AckManager),
\* a forwardable message goes on in a goroutine, the rest to the application.
handleTextMessage(m) ==
    /\ lsAt[m] = "unread" /\ LsOrigin \in lsOpen /\ lsKind[m] # "binary"
    /\ CASE lsKind[m] \in {"ping", "ack"}   -> Ends(m, "handled")
         [] IsForwardableType(lsKind[m])    -> Continues(m, "forward")
         [] OTHER                           -> InvokeMessageReceivedCallback(m)
    /\ UNCHANGED <<lsKind, lsTodo, lsChans, lsSlot, lsOpen, lsScan, lsLeft>>

\* handleBinaryMessage only logs.
handleBinaryMessage(m) ==
    /\ lsAt[m] = "unread" /\ LsOrigin \in lsOpen /\ lsKind[m] = "binary" /\ Ends(m, "handled")
    /\ UNCHANGED <<lsKind, lsTodo, lsChans, lsSlot, lsOpen, lsScan, lsLeft>>

\* SendPriority is the other entrance: the application sends, and the message takes the
\* same way, in a goroutine of its own or in the caller's.
SendPriority(m) ==
    /\ lsAt[m] = "unread" /\ lsKind[m] \in {"window", "typing"} /\ GoesTo(m, "forward")
    /\ UNCHANGED <<lsKind, lsFate, lsTodo, lsSent, lsTries, lsChans, lsSlot, lsOpen, lsScan, lsLeft>>

-----------------------------------------------------------------------------
(* SendToUserWithRetry.                                                    *)

\* handleForwardableMessage, down to the question whether the receiver is online: offline,
\* an express message is dropped and any other stored.
handleForwardableMessage(m) ==
    /\ lsAt[m] = "forward"
    /\ IF lsKind[m] = "stray" THEN Ends(m, "handled")
       ELSE IF DevicesOf("receiver") # {} THEN Continues(m, "attempt")
       ELSE IF Express(m) THEN Ends(m, "dropped") ELSE Continues(m, "store")
    /\ UNCHANGED <<lsKind, lsTodo, lsChans, lsSlot, lsOpen, lsScan, lsLeft>>

\* executeSendAttempt: the walk over the receiver's devices begins.
executeSendAttempt(m) ==
    /\ lsAt[m] = "attempt" /\ GoesTo(m, "deliver")
    /\ lsTodo' = [lsTodo EXCEPT ![m] = DevicesOf("receiver")] /\ lsSent' = [lsSent EXCEPT ![m] = 0]
    /\ lsTries' = [lsTries EXCEPT ![m] = @ + 1]
    /\ UNCHANGED <<lsKind, lsFate, lsChans, lsSlot, lsOpen, lsScan, lsLeft>>

\* TrySend and TrySendSSE; a device is written to and so no longer idle.
Fits(d) == d \in lsOpen /\ lsQueue[d] < LsRoom
Takes(d, m) ==
    /\ lsQueue' = [lsQueue EXCEPT ![d] = @ + 1]
    /\ lsTaken' = [lsTaken EXCEPT ![d] = IF Counted(m) THEN [n \in LsMessages |-> lsTaken[d][n] + (IF n = m THEN 1 ELSE 0)] ELSE lsTaken[d]]
TrySendSSE(d, m) == Takes(d, m) /\ lsIdle' = lsIdle \ {d}

\* sendToClientCore for the device d: whether it took m.
sendToClientCore(m, d, took) ==
    \/ /\ took /\ d \in lsOpen /\ Express(m) /\ d \notin LsSSE
       /\ lsSlot' = [lsSlot EXCEPT ![LsUser[d]] = m] /\ UNCHANGED <<lsChans, lsLeft>>
    \/ /\ took /\ Fits(d) /\ ~ (Express(m) /\ d \notin LsSSE)
       /\ IF d \in LsSSE THEN TrySendSSE(d, m) ELSE Takes(d, m) /\ UNCHANGED lsIdle
       /\ UNCHANGED <<lsSlot, lsLeft>>
    \/ /\ ~ took /\ UNCHANGED <<lsChans, lsSlot>>
       /\ \/ d \notin lsOpen /\ UNCHANGED lsLeft
          \/ ~ (Express(m) /\ d \notin LsSSE) /\ ~ Fits(d) /\ UNCHANGED lsLeft
          \/ LsRefuses

\* One device of the receiver.
TryDeliverToClient(m, d) ==
    /\ lsAt[m] = "deliver" /\ d \in lsTodo[m] /\ LsUser[d] = "receiver"
    /\ \E took \in BOOLEAN :
         /\ sendToClientCore(m, d, took) /\ lsSent' = [lsSent EXCEPT ![m] = IF took THEN @ + 1 ELSE @]
    /\ lsTodo' = [lsTodo EXCEPT ![m] = @ \ {d}]
    /\ UNCHANGED <<lsKind, lsAt, lsFate, lsTries, lsOpen, lsScan>>

\* The walk is over: the sender's other devices are next, if there are any.
syncToSenderDevices(m) ==
    /\ lsAt[m] = "deliver" /\ lsTodo[m] = {} /\ GoesTo(m, "sync")
    /\ lsTodo' = [lsTodo EXCEPT ![m] = IF Cardinality(DevicesOf("sender")) <= 1 THEN {} ELSE DevicesOf(normalizeMessageFields.sender) \ {normalizeMessageFields.client}]
    /\ UNCHANGED <<lsKind, lsFate, lsSent, lsTries, lsChans, lsSlot, lsOpen, lsScan, lsLeft>>

SyncTo_Counts(m, d) ==
    /\ lsAt[m] = "sync" /\ d \in lsTodo[m] /\ lsTodo' = [lsTodo EXCEPT ![m] = @ \ {d}]
    /\ \E took \in BOOLEAN :
         /\ sendToClientCore(m, d, took) /\ lsSent' = [lsSent EXCEPT ![m] = IF took THEN @ + 1 ELSE @]
    /\ UNCHANGED <<lsKind, lsAt, lsFate, lsTries, lsOpen, lsScan>>

\* A copy for one of them counts for nothing.
SyncTo(m, d) ==
    /\ lsAt[m] = "sync" /\ d \in lsTodo[m] /\ lsTodo' = [lsTodo EXCEPT ![m] = @ \ {d}]
    /\ \E took \in BOOLEAN : sendToClientCore(m, d, took)
    /\ UNCHANGED <<lsKind, lsAt, lsFate, lsSent, lsTries, lsOpen, lsScan>>

\* The attempt ends: a device took the message, or it is tried again, or given up.
deliverOnlineWithPolicy(m) ==
    /\ lsAt[m] = "sync" /\ lsTodo[m] = {}
    /\ IF lsSent[m] > 0 THEN Ends(m, "delivered")
       ELSE IF Express(m) THEN Ends(m, "failed")
       ELSE Continues(m, IF lsTries[m] <= LsRetries THEN "backoff" ELSE "store")
    /\ UNCHANGED <<lsKind, lsTodo, lsChans, lsSlot, lsOpen, lsScan, lsLeft>>

\* The backoff is over, or the five seconds of the forwarding goroutine are.
RetryOrTimeout(m) ==
    /\ lsAt[m] = "backoff" /\ (GoesTo(m, "attempt") \/ GoesTo(m, "store"))
    /\ UNCHANGED <<lsKind, lsFate, lsTodo, lsSent, lsTries, lsChans, lsSlot, lsOpen, lsScan, lsLeft>>

\* StoreOfflineMessage, and finalizeSendResult with what became of it.
StoreOffline(m) ==
    /\ lsAt[m] = "store"
    /\ \/ Ends(m, "stored") /\ UNCHANGED lsLeft
       \/ Ends(m, "failed") /\ LsRefuses
    /\ UNCHANGED <<lsKind, lsTodo, lsChans, lsSlot, lsOpen, lsScan>>

-----------------------------------------------------------------------------
(* The coalescer, SSE and the devices.                                     *)

\* The devices that take m when all of ds are tried.
AllTake(ds, m) ==
    LET fit == {d \in ds : Fits(d)}
    IN  /\ lsQueue' = [d \in LsDevices |-> lsQueue[d] + (IF d \in fit THEN 1 ELSE 0)]
        /\ lsTaken' = [d \in LsDevices |-> [n \in LsMessages |-> lsTaken[d][n] + (IF d \in fit /\ n = m /\ Counted(m) THEN 1 ELSE 0)]]

\* deliverCoalesced: the drain hands the held message to the devices of its Receiver,
\* whosever slot it was held in.
deliverCoalesced(u) ==
    /\ lsSlot[u] # NoMessage /\ lsSlot' = [lsSlot EXCEPT ![u] = NoMessage]
    /\ AllTake(DevicesOf("receiver"), lsSlot[u])
    /\ UNCHANGED <<lsSends, lsIdle, lsOpen, lsScan, lsLeft>>

\* SendToUserViaSSE: true if a device of the user took the message; nothing is stored.
SendToUserViaSSE(m) ==
    /\ lsAt[m] = "unread" /\ lsKind[m] = "text"
    /\ LET ds == DevicesOf("receiver") \cap LsSSE
       IN  /\ AllTake(ds, m) /\ lsIdle' = lsIdle \ {d \in ds : Fits(d)}
           /\ Ends(m, IF \E d \in ds : Fits(d) THEN "delivered" ELSE "failed")
    /\ UNCHANGED <<lsKind, lsTodo, lsSlot, lsOpen, lsScan, lsLeft>>

\* BroadcastToSSEClients: every SSE device, and no result.
BroadcastToSSEClients(m) ==
    /\ lsAt[m] = "unread" /\ lsKind[m] = "text" /\ Ends(m, "handled")
    /\ LET ds == lsOpen \cap LsSSE IN AllTake(ds, m) /\ lsIdle' = lsIdle \ {d \in ds : Fits(d)}
    /\ UNCHANGED <<lsKind, lsTodo, lsSlot, lsOpen, lsScan, lsLeft>>

\* The client reads everything its channel holds.
ClientReads(d) ==
    /\ d \in lsOpen /\ lsQueue[d] > 0 /\ lsQueue' = [lsQueue EXCEPT ![d] = 0]
    /\ UNCHANGED <<lsSends, lsTaken, lsIdle, lsSlot, lsOpen, lsScan, lsLeft>>

\* The client timeout passes.
GoesIdle(d) ==
    /\ d \in (lsOpen \cap LsSSE) \ lsIdle /\ lsIdle' = lsIdle \cup {d}
    /\ UNCHANGED <<lsSends, lsQueue, lsTaken, lsSlot, lsOpen, lsScan, lsLeft>>

\* ScanSSETimeouts collects under the shard locks and unregisters afterwards.
ScanSSETimeouts ==
    /\ \/ lsScan = {} /\ lsIdle \cap lsOpen # {} /\ lsScan' = lsIdle \cap lsOpen /\ UNCHANGED lsOpen
       \/ lsScan # {} /\ lsOpen' = lsOpen \ lsScan /\ lsScan' = {}
    /\ UNCHANGED <<lsSends, lsChans, lsSlot, lsLeft>>

\* A WebSocket device leaves.
Leaves(d) ==
    /\ d \in lsOpen \cap LsLeavers /\ lsOpen' = lsOpen \ {d}
    /\ UNCHANGED <<lsSends, lsChans, lsSlot, lsScan, lsLeft>>

Sending(m) ==
    \/ handleForwardableMessage(m) \/ executeSendAttempt(m) \/ syncToSenderDevices(m) \/ deliverOnlineWithPolicy(m)
    \/ RetryOrTimeout(m) \/ StoreOffline(m)
    \/ \E d \in LsDevices : TryDeliverToClient(m, d) \/ SyncTo(m, d)
LsNext ==
    \/ \E m \in LsMessages :
         handleTextMessage(m) \/ handleBinaryMessage(m) \/ SendPriority(m) \/ Sending(m) \/ SendToUserViaSSE(m) \/ BroadcastToSSEClients(m)
    \/ \E u \in {"sender", "receiver"} : deliverCoalesced(u)
    \/ \E d \in LsDevices : ClientReads(d) \/ GoesIdle(d) \/ Leaves(d)
    \/ ScanSSETimeouts
LsSpec == LsInit /\ [][LsNext]_lsVars

-----------------------------------------------------------------------------
(* Properties                                                              *)

\* A message that is not express has one fate and its sender is told which: reported
\* delivered, a device of the receiver took it, each at most once however often it was
\* retried; reported stored or failed, none did, whatever the sender's other devices got
\* (handleDirectMessage's count of devices, deliverOnlineWithPolicy, sendToUserWithRetryCore).
FateIsTold ==
    \A m \in LsMessages : Counted(m) =>
        LET copies == {d \in LsDevices : LsUser[d] = "receiver" /\ lsTaken[d][m] > 0}
        IN  /\ \A d \in copies : lsTaken[d][m] = 1
            /\ lsAt[m] = "done" => (copies # {} <=> lsFate[m] = "delivered")
=============================================================================
