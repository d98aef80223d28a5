--------------------------- MODULE PendingWrites ---------------------------
(***************************************************************************)
(* The outbound accounting of a connection: models.Client.TrySend,         *)
(* CompletePendingWrites and MarkClosed, the write pump that drains        *)
(* SendChan, the slow-consumer scanner that may drain it as well, and      *)
(* CloseChannel.  None of them takes a lock: every connection has an       *)
(* atomic pendingWrites and all connections of a Hub share one atomic      *)
(* pendingMessages, which is what the admission gate reads as its backlog. *)
(*                                                                         *)
(* A frame is anonymous, so SendChan is its length.  A compare-and-swap    *)
(* loop is one step, taken where the swap succeeds; every other atomic     *)
(* operation is a step of its own.                                         *)
(***************************************************************************)
EXTENDS Integers, FiniteSets, Functions

CONSTANTS
    Clients,       \* connections bound to one Hub counter
    Senders,       \* goroutines that call TrySend
    ChanCap,       \* cap(SendChan)
    BatchSize,     \* clientWriteBatchSize
    SlowMark,      \* queue length at which the backlog ratio reaches the threshold
    SlowLimit,     \* SlowConsumerConsecutiveThreshold
    SalvageBound   \* bound: frames one eviction drains before it lets the pump run

ASSUME SendersFinite == IsFiniteSet(Senders)
ASSUME ClientsFinite == IsFiniteSet(Clients)

ASSUME BoundsAssumption ==
    /\ ChanCap \in Nat \ {0}
    /\ BatchSize \in Nat \ {0}
    /\ SlowMark \in Nat \ {0}
    /\ SlowLimit \in Nat \ {0}
    /\ SalvageBound \in Nat \ {0}

VARIABLES
    hub,       \* Hub.pendingMessages, shared by all connections
    pend,      \* Client.pendingWrites
    qlen,      \* len(SendChan)
    closed,    \* Client.closed
    hubDone,   \* the Hub's context is cancelled
    unreg,     \* an Unregister of the connection has been started
    snd,       \* control point of each sender inside TrySend
    tgt,       \* the connection a sender is sending to
    pump,      \* control point of the write pump
    batch,     \* frames the pump must settle, then what it took
    failed,    \* the pump's current batch met a write error
    slow,      \* backlog ratio at or above the threshold, as last stored
    strikes,   \* slowConsumerState.consecutive
    evict,     \* control point of the scanner's evict
    salvaged,  \* frames evict must settle, then what it took
    closer,    \* control point of CloseChannel
    closeN     \* argument of MarkClosed's settlement, then what it took

sendVars == <<snd, tgt>>
pumpVars == <<pump, batch, failed, slow>>
scanVars == <<strikes, evict, salvaged>>
closeVars == <<closed, closer, closeN>>
vars == <<hub, pend, qlen, hubDone, unreg, sendVars, pumpVars, scanVars, closeVars>>

SendPC == {"idle", "add", "hubAdd", "check", "enqueue", "settle", "hubSub"}
PumpPC == {"idle", "first", "drain", "settle", "hubSub", "exited"}
EvictPC == {"idle", "drain", "settle", "hubSub"}
ClosePC == {"open", "load", "settle", "hubSub", "done"}

TypeOK ==
    /\ hub \in Int
    /\ pend \in [Clients -> Nat]
    /\ qlen \in [Clients -> 0 .. ChanCap]
    /\ closed \in [Clients -> BOOLEAN]
    /\ hubDone \in BOOLEAN
    /\ unreg \in [Clients -> BOOLEAN]
    /\ snd \in [Senders -> SendPC]
    /\ tgt \in [Senders -> Clients]
    /\ pump \in [Clients -> PumpPC]
    /\ batch \in [Clients -> 0 .. BatchSize]
    /\ failed \in [Clients -> BOOLEAN]
    /\ slow \in [Clients -> BOOLEAN]
    /\ strikes \in [Clients -> 0 .. SlowLimit]
    /\ evict \in [Clients -> EvictPC]
    /\ salvaged \in [Clients -> Nat]
    /\ closer \in [Clients -> ClosePC]
    /\ closeN \in [Clients -> Nat]

Init ==
    /\ hub = 0
    /\ pend = [c \in Clients |-> 0]
    /\ qlen = [c \in Clients |-> 0]
    /\ closed = [c \in Clients |-> FALSE]
    /\ hubDone = FALSE
    /\ unreg = [c \in Clients |-> FALSE]
    /\ snd = [s \in Senders |-> "idle"]
    /\ tgt \in [Senders -> Clients]
    /\ pump = [c \in Clients |-> "idle"]
    /\ batch = [c \in Clients |-> 0]
    /\ failed = [c \in Clients |-> FALSE]
    /\ slow = [c \in Clients |-> FALSE]
    /\ strikes = [c \in Clients |-> 0]
    /\ evict = [c \in Clients |-> "idle"]
    /\ salvaged = [c \in Clients |-> 0]
    /\ closer = [c \in Clients |-> "open"]
    /\ closeN = [c \in Clients |-> 0]

-----------------------------------------------------------------------------
(* CompletePendingWrites(n): what the successful swap takes.  A result of  *)
(* zero ends the call; otherwise the caller still subtracts it from hub.   *)

Take(c, n) == IF n <= pend[c] THEN n ELSE pend[c]

Settle(c, n) == pend' = [pend EXCEPT ![c] = @ - Take(c, n)]

-----------------------------------------------------------------------------
(* TrySend *)

TrySendEnter(s, c) ==
    /\ snd[s] = "idle"
    /\ ~closed[c]
    /\ snd' = [snd EXCEPT ![s] = "add"]
    /\ tgt' = [tgt EXCEPT ![s] = c]
    /\ UNCHANGED <<hub, pend, qlen, hubDone, unreg, pumpVars, scanVars, closeVars>>

TrySendReserve(s) ==
    /\ snd[s] = "add"
    /\ pend' = [pend EXCEPT ![tgt[s]] = @ + 1]
    /\ snd' = [snd EXCEPT ![s] = "hubAdd"]
    /\ UNCHANGED <<hub, qlen, hubDone, unreg, tgt, pumpVars, scanVars, closeVars>>

TrySendReserveHub(s) ==
    /\ snd[s] = "hubAdd"
    /\ hub' = hub + 1
    /\ snd' = [snd EXCEPT ![s] = "check"]
    /\ UNCHANGED <<pend, qlen, hubDone, unreg, tgt, pumpVars, scanVars, closeVars>>

\* Without the second look at the closed flag.
TrySendRecheck_Skipped(s) ==
    /\ snd[s] = "check"
    /\ snd' = [snd EXCEPT ![s] = "enqueue"]
    /\ UNCHANGED <<hub, pend, qlen, hubDone, unreg, tgt, pumpVars, scanVars, closeVars>>

TrySendRecheck(s) ==
    /\ snd[s] = "check"
    /\ snd' = [snd EXCEPT ![s] = IF closed[tgt[s]] THEN "settle" ELSE "enqueue"]
    /\ UNCHANGED <<hub, pend, qlen, hubDone, unreg, tgt, pumpVars, scanVars, closeVars>>

\* A full channel that keeps the reservation.
TrySendEnqueue_NoRollback(s) ==
    /\ snd[s] = "enqueue"
    /\ IF qlen[tgt[s]] < ChanCap
       THEN qlen' = [qlen EXCEPT ![tgt[s]] = @ + 1]
       ELSE UNCHANGED qlen
    /\ snd' = [snd EXCEPT ![s] = "idle"]
    /\ UNCHANGED <<hub, pend, hubDone, unreg, tgt, pumpVars, scanVars, closeVars>>

TrySendEnqueue(s) ==
    /\ snd[s] = "enqueue"
    /\ IF qlen[tgt[s]] < ChanCap
       THEN /\ qlen' = [qlen EXCEPT ![tgt[s]] = @ + 1]
            /\ snd' = [snd EXCEPT ![s] = "idle"]
       ELSE /\ snd' = [snd EXCEPT ![s] = "settle"]
            /\ UNCHANGED qlen
    /\ UNCHANGED <<hub, pend, hubDone, unreg, tgt, pumpVars, scanVars, closeVars>>

TrySendRollback(s) ==
    /\ snd[s] = "settle"
    /\ Settle(tgt[s], 1)
    /\ snd' = [snd EXCEPT ![s] = IF Take(tgt[s], 1) = 0 THEN "idle" ELSE "hubSub"]
    /\ UNCHANGED <<hub, qlen, hubDone, unreg, tgt, pumpVars, scanVars, closeVars>>

TrySendRollbackHub(s) ==
    /\ snd[s] = "hubSub"
    /\ hub' = hub - 1
    /\ snd' = [snd EXCEPT ![s] = "idle"]
    /\ UNCHANGED <<pend, qlen, hubDone, unreg, tgt, pumpVars, scanVars, closeVars>>

-----------------------------------------------------------------------------
(* The write pump: handleClientWrite and writeClientMessagesBatch.  A      *)
(* write may fail at any time; the frames of the batch are settled either  *)
(* way, after which a failed pump closes the socket and exits, and the     *)
(* read pump answers the closed socket with Unregister.                    *)

PumpTake(c) ==
    /\ pump[c] = "idle"
    /\ qlen[c] > 0
    /\ qlen' = [qlen EXCEPT ![c] = @ - 1]
    /\ batch' = [batch EXCEPT ![c] = 1]
    /\ pump' = [pump EXCEPT ![c] = "first"]
    /\ UNCHANGED <<hub, pend, hubDone, unreg, failed, slow, sendVars, scanVars, closeVars>>

PumpWriteFirst(c) ==
    /\ pump[c] = "first"
    /\ \E err \in BOOLEAN :
          /\ failed' = [failed EXCEPT ![c] = err]
          /\ pump' = [pump EXCEPT ![c] = IF err THEN "settle" ELSE "drain"]
    /\ UNCHANGED <<hub, pend, qlen, hubDone, unreg, batch, slow, sendVars, scanVars, closeVars>>

PumpDrain(c) ==
    /\ pump[c] = "drain"
    /\ batch[c] < BatchSize
    /\ qlen[c] > 0
    /\ qlen' = [qlen EXCEPT ![c] = @ - 1]
    /\ batch' = [batch EXCEPT ![c] = @ + 1]
    /\ UNCHANGED <<hub, pend, hubDone, unreg, pump, failed, slow, sendVars, scanVars, closeVars>>

\* SetBacklogRatio, then the collected frames in one writev.
PumpWriteBatch(c) ==
    /\ pump[c] = "drain"
    /\ batch[c] = BatchSize \/ qlen[c] = 0
    /\ slow' = [slow EXCEPT ![c] = qlen[c] >= SlowMark]
    /\ \E err \in BOOLEAN : failed' = [failed EXCEPT ![c] = err]
    /\ pump' = [pump EXCEPT ![c] = "settle"]
    /\ UNCHANGED <<hub, pend, qlen, hubDone, unreg, batch, sendVars, scanVars, closeVars>>

PumpSettle(c) ==
    /\ pump[c] = "settle"
    /\ Settle(c, batch[c])
    /\ batch' = [batch EXCEPT ![c] = Take(c, @)]
    /\ pump' = [pump EXCEPT ![c] = "hubSub"]
    /\ UNCHANGED <<hub, qlen, hubDone, unreg, failed, slow, sendVars, scanVars, closeVars>>

\* A batch settled on the connection only.
PumpSettleHub_Forgotten(c) ==
    /\ pump[c] = "hubSub"
    /\ batch' = [batch EXCEPT ![c] = 0]
    /\ pump' = [pump EXCEPT ![c] = IF failed[c] THEN "exited" ELSE "idle"]
    /\ unreg' = [unreg EXCEPT ![c] = @ \/ failed[c]]
    /\ UNCHANGED <<hub, pend, qlen, hubDone, failed, slow, sendVars, scanVars, closeVars>>

PumpSettleHub(c) ==
    /\ pump[c] = "hubSub"
    /\ hub' = hub - batch[c]
    /\ batch' = [batch EXCEPT ![c] = 0]
    /\ pump' = [pump EXCEPT ![c] = IF failed[c] THEN "exited" ELSE "idle"]
    /\ unreg' = [unreg EXCEPT ![c] = @ \/ failed[c]]
    /\ UNCHANGED <<pend, qlen, hubDone, failed, slow, sendVars, scanVars, closeVars>>

\* DoneCh or the Hub's context; select may still prefer a queued frame.
PumpExit(c) ==
    /\ pump[c] = "idle"
    /\ closer[c] = "done" \/ hubDone
    /\ pump' = [pump EXCEPT ![c] = "exited"]
    /\ UNCHANGED <<hub, pend, qlen, hubDone, unreg, batch, failed, slow, sendVars, scanVars, closeVars>>

-----------------------------------------------------------------------------
(* SlowConsumerScanner: one scan of a registered connection, and evict,    *)
(* which drains SendChan in competition with the pump.                     *)

Scan(c) ==
    /\ evict[c] = "idle"
    /\ closer[c] # "done"
    /\ IF slow[c]
       THEN IF strikes[c] + 1 >= SlowLimit
            THEN /\ strikes' = [strikes EXCEPT ![c] = 0]
                 /\ evict' = [evict EXCEPT ![c] = "drain"]
            ELSE /\ strikes' = [strikes EXCEPT ![c] = @ + 1]
                 /\ UNCHANGED evict
       ELSE /\ strikes' = [strikes EXCEPT ![c] = 0]
            /\ UNCHANGED evict
    /\ UNCHANGED <<hub, pend, qlen, hubDone, unreg, salvaged, sendVars, pumpVars, closeVars>>

EvictDrain(c) ==
    /\ evict[c] = "drain"
    /\ IF qlen[c] > 0
       THEN /\ salvaged[c] < SalvageBound
            /\ qlen' = [qlen EXCEPT ![c] = @ - 1]
            /\ salvaged' = [salvaged EXCEPT ![c] = @ + 1]
            /\ UNCHANGED evict
       ELSE /\ evict' = [evict EXCEPT ![c] = "settle"]
            /\ UNCHANGED <<qlen, salvaged>>
    /\ UNCHANGED <<hub, pend, hubDone, unreg, strikes, sendVars, pumpVars, closeVars>>

EvictSettle(c) ==
    /\ evict[c] = "settle"
    /\ Settle(c, salvaged[c])
    /\ salvaged' = [salvaged EXCEPT ![c] = Take(c, @)]
    /\ evict' = [evict EXCEPT ![c] = "hubSub"]
    /\ UNCHANGED <<hub, qlen, hubDone, unreg, strikes, sendVars, pumpVars, closeVars>>

\* The last subtraction, then OnSlowConsumerEvicted, which unregisters.
EvictSettleHub(c) ==
    /\ evict[c] = "hubSub"
    /\ hub' = hub - salvaged[c]
    /\ salvaged' = [salvaged EXCEPT ![c] = 0]
    /\ evict' = [evict EXCEPT ![c] = "idle"]
    /\ unreg' = [unreg EXCEPT ![c] = TRUE]
    /\ UNCHANGED <<pend, qlen, hubDone, strikes, sendVars, pumpVars, closeVars>>

-----------------------------------------------------------------------------
(* CloseChannel and MarkClosed.  CloseMu admits one caller, so the steps   *)
(* of one close are those of one goroutine.                                *)

Unregister(c) ==
    /\ ~unreg[c]
    /\ unreg' = [unreg EXCEPT ![c] = TRUE]
    /\ UNCHANGED <<hub, pend, qlen, hubDone, sendVars, pumpVars, scanVars, closeVars>>

MarkClosedStore(c) ==
    /\ closer[c] = "open"
    /\ unreg[c]
    /\ closed' = [closed EXCEPT ![c] = TRUE]
    /\ closer' = [closer EXCEPT ![c] = "load"]
    /\ UNCHANGED <<hub, pend, qlen, hubDone, unreg, closeN, sendVars, pumpVars, scanVars>>

MarkClosedLoad(c) ==
    /\ closer[c] = "load"
    /\ closeN' = [closeN EXCEPT ![c] = pend[c]]
    /\ closer' = [closer EXCEPT ![c] = "settle"]
    /\ UNCHANGED <<hub, pend, qlen, hubDone, unreg, closed, sendVars, pumpVars, scanVars>>

MarkClosedSettle(c) ==
    /\ closer[c] = "settle"
    /\ Settle(c, closeN[c])
    /\ closeN' = [closeN EXCEPT ![c] = Take(c, @)]
    /\ closer' = [closer EXCEPT ![c] = "hubSub"]
    /\ UNCHANGED <<hub, qlen, hubDone, unreg, closed, sendVars, pumpVars, scanVars>>

\* The last subtraction, then close(DoneCh).
MarkClosedSettleHub(c) ==
    /\ closer[c] = "hubSub"
    /\ hub' = hub - closeN[c]
    /\ closeN' = [closeN EXCEPT ![c] = 0]
    /\ closer' = [closer EXCEPT ![c] = "done"]
    /\ UNCHANGED <<pend, qlen, hubDone, unreg, closed, sendVars, pumpVars, scanVars>>

HubStop ==
    /\ ~hubDone
    /\ hubDone' = TRUE
    /\ UNCHANGED <<hub, pend, qlen, unreg, sendVars, pumpVars, scanVars, closeVars>>

-----------------------------------------------------------------------------
TrySendStep(s) ==
    \/ TrySendReserve(s) \/ TrySendReserveHub(s) \/ TrySendRecheck(s)
    \/ TrySendEnqueue(s) \/ TrySendRollback(s) \/ TrySendRollbackHub(s)

PumpStep(c) ==
    \/ PumpTake(c) \/ PumpWriteFirst(c) \/ PumpDrain(c) \/ PumpWriteBatch(c)
    \/ PumpSettle(c) \/ PumpSettleHub(c) \/ PumpExit(c)

EvictStep(c) == EvictDrain(c) \/ EvictSettle(c) \/ EvictSettleHub(c)

CloseStep(c) ==
    \/ MarkClosedStore(c) \/ MarkClosedLoad(c)
    \/ MarkClosedSettle(c) \/ MarkClosedSettleHub(c)

Next ==
    \/ \E s \in Senders : TrySendStep(s) \/ \E c \in Clients : TrySendEnter(s, c)
    \/ \E c \in Clients :
          PumpStep(c) \/ Scan(c) \/ EvictStep(c) \/ Unregister(c) \/ CloseStep(c)
    \/ HubStop

(* A goroutine inside a call keeps running: every started TrySend, batch,  *)
(* eviction and close finishes.  New sends, scans, disconnects and the     *)
(* Hub's stop are not promised.                                            *)
Fairness ==
    /\ \A s \in Senders : WF_vars(TrySendStep(s))
    /\ \A c \in Clients : WF_vars(PumpStep(c)) /\ WF_vars(EvictStep(c)) /\ WF_vars(CloseStep(c))

Spec == Init /\ [][Next]_vars
FairSpec == Spec /\ Fairness

-----------------------------------------------------------------------------
(* What is still to be settled on a connection, by whom. *)

\* Inside TrySend with the reservation made; and, of those, certain not to publish a frame.
Reserved == {"hubAdd", "check", "enqueue", "settle"}
Unpublished == Reserved \ {"enqueue"}

Inside(c, pcs) == {s \in Senders : tgt[s] = c /\ snd[s] \in pcs}

PumpOwes(c) == IF pump[c] \in {"first", "drain", "settle"} THEN batch[c] ELSE 0

EvictOwes(c) == IF evict[c] \in {"drain", "settle"} THEN salvaged[c] ELSE 0

CloseOwes(c) == IF closer[c] = "settle" THEN closeN[c] ELSE 0

Settled(c) ==
    /\ closer[c] = "done"
    /\ pump[c] \in {"idle", "exited"}
    /\ evict[c] = "idle"
    /\ Inside(c, SendPC \ {"idle"}) = {}

(* While a connection is open its counter is exact: every unit of          *)
(* pendingWrites is a frame in SendChan, a frame in the pump's batch or    *)
(* the scanner's drain, or a TrySend that has reserved and not finished.   *)
(* "First reserve, then publish" (models/client.go:687) is what makes it   *)
(* so: the pump can never settle a frame that was not counted yet.         *)
PendingIsExact ==
    \A c \in Clients : closer[c] \in {"open", "load"} =>
        pend[c] = qlen[c] + PumpOwes(c) + EvictOwes(c)
                  + Cardinality(Inside(c, Reserved))

(* Once MarkClosed has read the counter, nothing is left on it that nobody *)
(* will settle, whatever order the close, the pump, an eviction and late   *)
(* senders run in: the frames abandoned in SendChan are all covered.       *)
NoUnitAbandoned ==
    \A c \in Clients : closer[c] \notin {"open", "load"} =>
        pend[c] <= CloseOwes(c) + PumpOwes(c) + EvictOwes(c)
                   + Cardinality(Inside(c, Unpublished))

(* What has been taken from pendingWrites and is not yet subtracted from    *)
(* the Hub counter, by whom.                                               *)

PumpHolds(c) == IF pump[c] = "hubSub" THEN batch[c] ELSE 0

EvictHolds(c) == IF evict[c] = "hubSub" THEN salvaged[c] ELSE 0

CloseHolds(c) == IF closer[c] = "hubSub" THEN closeN[c] ELSE 0

\* The share of a connection in the Hub counter.
Share(c) ==
    pend[c] + PumpHolds(c) + EvictHolds(c) + CloseHolds(c)
        + Cardinality(Inside(c, {"hubSub"})) - Cardinality(Inside(c, {"hubAdd"}))

HubIsExact == hub = SumFunction([c \in Clients |-> Share(c)])

(* The shared Hub counter differs from the sum of the connections' counters *)
(* only by what goroutines inside TrySend or CompletePendingWrites have     *)
(* done to one and not yet to the other: no interleaving of sends, batches, *)
(* evictions and closes makes AdmissionGate.Backlog() drift.  After a close  *)
(* no unit is left that nobody will settle.                                 *)
HubIsSumOfPending == HubIsExact /\ NoUnitAbandoned

(* A closed connection that nobody works on any more counts for nothing.   *)
NoLeakAfterClose == \A c \in Clients : Settled(c) => pend[c] = 0

-----------------------------------------------------------------------------
(* The theorems need the inductive form: the control points also fix the   *)
(* counters that are at rest and the closed flag.                          *)
AtRest ==
    \A c \in Clients :
        /\ pump[c] \in {"idle", "exited"} => batch[c] = 0
        /\ pump[c] \in {"first", "drain", "settle"} => batch[c] > 0
        /\ evict[c] = "idle" => salvaged[c] = 0
        /\ closed[c] <=> closer[c] # "open"

Accounting == TypeOK /\ AtRest /\ PendingIsExact /\ NoUnitAbandoned
=============================================================================
