---------------------------- MODULE AckManager ----------------------------
(***************************************************************************)
(* The pending acknowledgements of AckManager.  AddPendingMessage makes a  *)
(* PendingMessage with a channel of one acknowledgement and a context with *)
(* a deadline, and stores it under the message id, over an older one with  *)
(* the same id; ConfirmMessage takes it out, sends into the channel and    *)
(* then cancels the context; the caller waits with WaitForAck or with      *)
(* WaitForAckWithRetry.  Cleanup and Shutdown look at the map first and    *)
(* delete from it later.                                                   *)
(***************************************************************************)
EXTENDS Naturals, FiniteSets

CONSTANTS
    AkPending,          \* the PendingMessages made
    AkId,               \* the message id of each
    AkPlain,            \* those waited for with WaitForAck
    AkMaxRetry,         \* MaxRetry
    AkMaxCleanups       \* bound on runs of CleanupExpired

ASSUME AkAssumption ==
    /\ DOMAIN AkId = AkPending
    /\ AkPlain \subseteq AkPending
    /\ AkMaxRetry \in Nat /\ AkMaxCleanups \in Nat

AkSameId(m) == {x \in AkPending : AkId[x] = AkId[m]}

VARIABLES
    akMap,      \* pending: those stored, one per id
    akTaken,    \* loaded and deleted by ConfirmMessage, not yet sent to
    akSent,     \* sent to by ConfirmMessage, not yet cancelled
    akChan,     \* PendingMessages with an acknowledgement in AckChan
    akDone,     \* those whose context is done
    akWait,     \* the waiter: "none", "open", "retry" (in retryFunc), or its result
    akRetry,    \* retries made
    akExpired,  \* ids CleanupExpired found expired and has not deleted
    akCleanups, \* runs of CleanupExpired so far
    akClosing,  \* Shutdown: "no", "clear", "done"
    akAcked     \* those sent to while their waiter had not returned

akWaiter == <<akWait, akRetry>>
akSweep == <<akExpired, akCleanups, akClosing>>
akVars == <<akMap, akTaken, akSent, akChan, akDone, akWaiter, akSweep, akAcked>>

AkWaiting(m) == akWait[m] \in {"open", "retry"}

AkInit ==
    /\ akMap = {}
    /\ akTaken = {} /\ akSent = {} /\ akChan = {} /\ akDone = {}
    /\ akWait = [m \in AkPending |-> "none"]
    /\ akRetry = [m \in AkPending |-> 0]
    /\ akExpired = {} /\ akCleanups = 0 /\ akClosing = "no"
    /\ akAcked = {}
-----------------------------------------------------------------------------
\* AddPendingMessageWithExpire, and the wait that follows it.
AddPendingMessage(m) ==
    /\ akWait[m] = "none"
    /\ akWait' = [akWait EXCEPT ![m] = "open"]
    /\ akMap' = (akMap \ AkSameId(m)) \cup {m}
    /\ UNCHANGED <<akTaken, akSent, akChan, akDone, akRetry, akSweep, akAcked>>

\* ConfirmMessage, from the acknowledgement of a client.
ConfirmMessage(m) ==
    /\ m \in akMap
    /\ akTaken' = akTaken \cup {m}
    /\ akMap' = akMap \ {m}
    /\ UNCHANGED <<akSent, akChan, akDone, akWaiter, akSweep, akAcked>>

ConfirmSends(m) ==
    /\ m \in akTaken
    /\ akTaken' = akTaken \ {m}
    /\ akSent' = akSent \cup {m}
    /\ akChan' = akChan \cup {m}
    /\ akAcked' = IF AkWaiting(m) THEN akAcked \cup {m} ELSE akAcked
    /\ UNCHANGED <<akMap, akDone, akWaiter, akSweep>>

ConfirmCancels(m) ==
    /\ m \in akSent
    /\ akSent' = akSent \ {m}
    /\ akDone' = akDone \cup {m}
    /\ UNCHANGED <<akMap, akTaken, akChan, akWaiter, akSweep, akAcked>>

RemovePendingMessage(m) ==
    /\ m \in akMap
    /\ akDone' = akDone \cup {m}
    /\ akMap' = akMap \ {m}
    /\ UNCHANGED <<akTaken, akSent, akChan, akWaiter, akSweep, akAcked>>

\* The deadline of a context passes.
Deadline(m) ==
    /\ akWait[m] # "none" /\ m \notin akDone
    /\ akDone' = akDone \cup {m}
    /\ UNCHANGED <<akMap, akTaken, akSent, akChan, akWaiter, akSweep, akAcked>>
-----------------------------------------------------------------------------
Receive(m) ==
    /\ m \in akChan
    /\ akChan' = akChan \ {m}
    /\ akWait' = [akWait EXCEPT ![m] = "confirmed"]
    /\ UNCHANGED akRetry

AkTimeout(m) == akWait' = [akWait EXCEPT ![m] = "timeout"] /\ UNCHANGED <<akChan, akRetry>>

WaitForAck_NoDone(m) ==
    /\ m \in AkPlain /\ akWait[m] = "open"
    /\ Receive(m)
    /\ UNCHANGED <<akMap, akTaken, akSent, akDone, akSweep, akAcked>>

\* WaitForAck: when both cases of the select are ready either is taken.
WaitForAck(m) ==
    /\ m \in AkPlain /\ akWait[m] = "open"
    /\ Receive(m) \/ (m \in akDone /\ AkTimeout(m))
    /\ UNCHANGED <<akMap, akTaken, akSent, akDone, akSweep, akAcked>>

WaitForAckWithRetry_OneLook(m) ==
    /\ m \notin AkPlain /\ akWait[m] = "open"
    /\ Receive(m) \/ (m \in akDone /\ AkTimeout(m))
    /\ UNCHANGED <<akMap, akTaken, akSent, akDone, akSweep, akAcked>>

\* WaitForAckWithRetry: the channel, or the context with a second look at it.
WaitForAckWithRetry(m) ==
    /\ m \notin AkPlain /\ akWait[m] = "open"
    /\ Receive(m) \/ (m \in akDone /\ m \notin akChan /\ AkTimeout(m))
    /\ UNCHANGED <<akMap, akTaken, akSent, akDone, akSweep, akAcked>>

\* Its timer: a second look, the limit, or another attempt.
TimerFires(m) ==
    /\ m \notin AkPlain /\ akWait[m] = "open"
    /\ \/ Receive(m)
       \/ m \notin akChan /\ akRetry[m] >= AkMaxRetry /\ AkTimeout(m)
       \/ /\ m \notin akChan /\ akRetry[m] < AkMaxRetry
          /\ akRetry' = [akRetry EXCEPT ![m] = @ + 1]
          /\ akWait' = [akWait EXCEPT ![m] = "retry"]
          /\ UNCHANGED akChan
    /\ UNCHANGED <<akMap, akTaken, akSent, akDone, akSweep, akAcked>>

\* retryFunc has returned: its error ends the wait, whatever is in the channel.
Retried(m) ==
    /\ akWait[m] = "retry"
    /\ \/ Receive(m)
       \/ m \notin akChan /\ akWait' = [akWait EXCEPT ![m] = "open"] /\ UNCHANGED <<akChan, akRetry>>
       \/ akWait' = [akWait EXCEPT ![m] = "failed"] /\ UNCHANGED <<akChan, akRetry>>
    /\ UNCHANGED <<akMap, akTaken, akSent, akDone, akSweep, akAcked>>
-----------------------------------------------------------------------------
\* CleanupExpired: the ids whose context is done are collected, then deleted.
CleanupScan ==
    /\ akExpired = {} /\ akCleanups < AkMaxCleanups
    /\ akCleanups' = akCleanups + 1
    /\ akExpired' = {AkId[m] : m \in akMap \cap akDone}
    /\ UNCHANGED <<akMap, akTaken, akSent, akChan, akDone, akWaiter, akClosing, akAcked>>

CleanupDelete(i) ==
    /\ i \in akExpired
    /\ akExpired' = akExpired \ {i}
    /\ akMap' = {m \in akMap : AkId[m] # i}
    /\ UNCHANGED <<akTaken, akSent, akChan, akDone, akWaiter, akCleanups, akClosing, akAcked>>

\* Shutdown cancels what it finds, then clears the map.
AkShutdown ==
    /\ \/ /\ akClosing = "no" /\ akClosing' = "clear"
          /\ akDone' = akDone \cup akMap
          /\ UNCHANGED akMap
       \/ /\ akClosing = "clear" /\ akClosing' = "done"
          /\ akMap' = {}
          /\ UNCHANGED akDone
    /\ UNCHANGED <<akTaken, akSent, akChan, akWaiter, akExpired, akCleanups, akAcked>>

AkWaits(m) == WaitForAck(m) \/ WaitForAckWithRetry(m) \/ TimerFires(m) \/ Retried(m)

AkNext ==
    \/ \E m \in AkPending :
        \/ AddPendingMessage(m) \/ ConfirmMessage(m) \/ ConfirmSends(m) \/ ConfirmCancels(m)
        \/ RemovePendingMessage(m) \/ Deadline(m) \/ AkWaits(m)
    \/ \E i \in akExpired : CleanupDelete(i)
    \/ CleanupScan \/ AkShutdown

AkSpec == AkInit /\ [][AkNext]_akVars

\* A deadline passes, and a waiter with something to receive runs.
AkFairness == \A m \in AkPending : WF_akVars(Deadline(m)) /\ WF_akVars(AkWaits(m))
-----------------------------------------------------------------------------
\* A waiter that retries sees the promise "open" while it is in retryFunc.
Promise == INSTANCE AckPromise WITH
    Promises <- AkPending \ AkPlain,
    state <- [m \in AkPending \ AkPlain |-> IF akWait[m] = "retry" THEN "open" ELSE akWait[m]],
    acked <- akAcked \ AkPlain

(* WaitForAckWithRetry keeps the promise of AckPromise through overlapping  *)
(* confirmations, retries, deadlines, cleanups and a shutdown: it reports   *)
(* an acknowledgement when one came while it waited, unless sending again   *)
(* failed, and never one that did not come.                                 *)
RetryKeepsPromise == Promise!Spec

(* Every wait ends: a PendingMessage whose map entry was overwritten,       *)
(* deleted by a cleanup that meant its predecessor, or cleared by Shutdown  *)
(* still has its own deadline.                                              *)
WaitsEnd == []<>(\A m \in AkPending : ~AkWaiting(m))
=============================================================================
