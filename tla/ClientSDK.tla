----------------------------- MODULE ClientSDK -----------------------------
(***************************************************************************)
(* The client library: one goroutine that connects, with a state machine   *)
(* whose transitions are refused when they are not allowed, a reader and a *)
(* writer for a connection that was made, and an application that sends    *)
(* and closes whenever it likes.                                           *)
(***************************************************************************)
EXTENDS Naturals, Sequences, FiniteSets, SequencesExt

CONSTANTS
    SdkMsgs,     \* messages the application sends, each once
    SdkBuffer,   \* MessageBufferSize
    SdkUrls,     \* the addresses given to WithServers
    SdkDrops,    \* bound: connections the network breaks
    SdkCloses    \* whether the application closes the client

ASSUME SdkAssumption == SdkBuffer \in Nat \ {0} /\ SdkUrls \in Seq(STRING) /\ SdkDrops \in Nat /\ SdkCloses \in BOOLEAN

VARIABLES
    sdkAuto,    \* AutoReconnect
    sdkState,   \* stateMachine
    sdkLoop,    \* where Connect is, "none" when it does not run
    sdkTries,   \* addresses attemptConnection has not tried in this round
    sdkConn,    \* Conn: how many connections were made, 0 before the first
    sdkOpen,    \* those that are open
    sdkIsConn,  \* isConnected
    sdkChans,   \* the send channels made so far: [buf, closed]; the last is the current one
    sdkReader,  \* "none", "reads", "lost", or "clean" on its way to reconnecting
    sdkWriters, \* the writers that run: <<channel, message taken from it>>
    sdkClose,   \* Close of the application: "no", "called", "checked", "done"
    sdkMsg,     \* what became of a message: "unsent", "accepted", "refused", or "early":
                \* accepted into the channel of New, before Connect made its own
    sdkReports, \* the callbacks for a message, "sent" or "failed"
    sdkBroken   \* connections broken so far

sdkLink == <<sdkConn, sdkOpen, sdkIsConn, sdkBroken>>
sdkData == <<sdkMsg, sdkReports>>
sdkVars == <<sdkAuto, sdkState, sdkLoop, sdkTries, sdkLink, sdkChans, sdkReader, sdkWriters, sdkClose, sdkData>>

NoMsg == "no message"

SdkInit ==
    /\ sdkAuto \in BOOLEAN
    /\ sdkState = "disconnected" /\ sdkLoop = "enter" /\ sdkTries = 0
    /\ sdkConn = 0 /\ sdkOpen = {} /\ sdkIsConn = FALSE /\ sdkBroken = 0
    /\ sdkChans = <<[buf |-> <<>>, closed |-> FALSE]>>
    /\ sdkReader = "none" /\ sdkWriters = {} /\ sdkClose = "no"
    /\ sdkMsg = [m \in SdkMsgs |-> "unsent"] /\ sdkReports = [m \in SdkMsgs |-> <<>>]

\* AllowTransitions of New.
Allowed ==
    [disconnected |-> {"connecting", "reconnecting"}, connecting |-> {"connected", "disconnected", "error"},
     connected |-> {"disconnected", "error"}, reconnecting |-> {"connected", "disconnected", "error"},
     error |-> {"disconnected", "reconnecting"}]

\* The state after TransitionTo, whose error most callers ignore.
TransitionTo(s) == IF s \in Allowed[sdkState] THEN s ELSE sdkState

Closed == sdkState = "disconnected"
Chan == Len(sdkChans)

\* No empty address and none twice, in the order given.
sanitizeServers(urls) == FoldLeft(LAMBDA kept, u : IF u = "" \/ u \in ToSet(kept) THEN kept ELSE Append(kept, u), <<>>, urls)

\* What one round of attemptConnection dials: the list, or Url when there is none.
WithServers == IF sanitizeServers(SdkUrls) = <<>> THEN 1 ELSE Len(sanitizeServers(SdkUrls))

\* clean: disconnected, the connection and the channel closed, and with the
\* channel the signal that ends a wait.
clean ==
    /\ sdkState' = TransitionTo("disconnected")
    /\ sdkIsConn' = FALSE /\ sdkOpen' = sdkOpen \ {sdkConn}
    /\ sdkChans' = [sdkChans EXCEPT ![Chan].closed = TRUE]
    /\ UNCHANGED <<sdkConn, sdkBroken>>

-----------------------------------------------------------------------------
(* Connect.                                                                *)

\* The transition, or the error callback and no more.
EnterConnect ==
    /\ sdkLoop = "enter"
    /\ sdkState' = TransitionTo("connecting")
    /\ sdkLoop' = IF "connecting" \in Allowed[sdkState] THEN "init" ELSE "none"
    /\ UNCHANGED <<sdkTries, sdkLink, sdkChans, sdkReader, sdkWriters, sdkClose, sdkData>>

initSendChannel ==
    /\ sdkLoop = "init" /\ sdkLoop' = "check"
    /\ sdkChans' = Append(sdkChans, [buf |-> <<>>, closed |-> FALSE])
    /\ UNCHANGED <<sdkState, sdkTries, sdkLink, sdkReader, sdkWriters, sdkClose, sdkData>>

\* The head of the loop: a client that was closed does not dial.
CheckClosed ==
    /\ sdkLoop = "check"
    /\ sdkLoop' = IF Closed THEN "none" ELSE "dial"
    /\ sdkTries' = IF Closed THEN sdkTries ELSE WithServers
    /\ UNCHANGED <<sdkState, sdkLink, sdkChans, sdkReader, sdkWriters, sdkClose, sdkData>>

\* dialServer: the new connection is stored.
dialServer ==
    /\ sdkLoop = "dial" /\ sdkLoop' = "dialed"
    /\ sdkConn' = sdkConn + 1 /\ sdkOpen' = sdkOpen \cup {sdkConn + 1}
    /\ UNCHANGED <<sdkState, sdkTries, sdkIsConn, sdkBroken, sdkChans, sdkReader, sdkWriters, sdkClose, sdkData>>

\* attemptConnection: the next address, until all failed.
DialFails ==
    /\ sdkLoop = "dial" /\ sdkTries' = sdkTries - 1
    /\ IF sdkTries > 1 THEN UNCHANGED <<sdkLoop, sdkState>>
       ELSE sdkLoop' = "wait" /\ sdkState' = TransitionTo("error")
    /\ UNCHANGED <<sdkLink, sdkChans, sdkReader, sdkWriters, sdkClose, sdkData>>

\* The wait ends with the timer, or with the signal.
Backoff ==
    /\ sdkLoop = "wait"
    /\ sdkLoop' \in {"retry"} \cup (IF sdkChans[Chan].closed THEN {"none"} ELSE {})
    /\ UNCHANGED <<sdkState, sdkTries, sdkLink, sdkChans, sdkReader, sdkWriters, sdkClose, sdkData>>

RetryDial ==
    /\ sdkLoop = "retry" /\ sdkLoop' = "check"
    /\ sdkState' = TransitionTo("reconnecting")
    /\ UNCHANGED <<sdkTries, sdkLink, sdkChans, sdkReader, sdkWriters, sdkClose, sdkData>>

\* Closed while it dialed: the new connection is closed again.
AfterDial ==
    /\ sdkLoop = "dialed"
    /\ IF Closed THEN clean /\ sdkLoop' = "none"
       ELSE sdkLoop' = "success" /\ UNCHANGED <<sdkState, sdkLink, sdkChans>>
    /\ UNCHANGED <<sdkTries, sdkReader, sdkWriters, sdkClose, sdkData>>

\* setConnectedState.
setConnectedState ==
    /\ sdkLoop = "success" /\ sdkLoop' = "pumps"
    /\ sdkIsConn' = TRUE /\ sdkState' = TransitionTo("connected")
    /\ UNCHANGED <<sdkTries, sdkConn, sdkOpen, sdkBroken, sdkChans, sdkReader, sdkWriters, sdkClose, sdkData>>

\* The rest of onConnectionSuccess: the reader, and a writer of the channel.
onConnectionSuccess ==
    /\ sdkLoop = "pumps" /\ sdkLoop' = "none"
    /\ sdkReader' = "reads"
    /\ sdkWriters' = sdkWriters \cup {<<Chan, NoMsg>>}
    /\ UNCHANGED <<sdkState, sdkTries, sdkLink, sdkChans, sdkClose, sdkData>>

-----------------------------------------------------------------------------
(* The reader: an error ends it, and reconnects unless the client closed.  *)

\* The network or the server ends the connection.
ConnBreaks ==
    /\ sdkConn \in sdkOpen /\ sdkReader = "reads" /\ sdkBroken < SdkDrops
    /\ sdkOpen' = sdkOpen \ {sdkConn} /\ sdkBroken' = sdkBroken + 1
    /\ UNCHANGED <<sdkState, sdkLoop, sdkTries, sdkConn, sdkIsConn, sdkChans, sdkReader, sdkWriters, sdkClose, sdkData>>

readMessages ==
    /\ sdkReader = "reads" /\ sdkConn \notin sdkOpen
    /\ sdkReader' = "lost"
    /\ UNCHANGED <<sdkState, sdkLoop, sdkTries, sdkLink, sdkChans, sdkWriters, sdkClose, sdkData>>

\* Without AutoReconnect the client is cleaned and stays disconnected.
handleReconnectOrClean ==
    /\ sdkReader = "lost" /\ ~ sdkAuto /\ sdkReader' = "none"
    /\ clean
    /\ UNCHANGED <<sdkLoop, sdkTries, sdkWriters, sdkClose, sdkData>>

\* CloseAndReconnect: the check, then clean and a new Connect.
CloseAndReconnect ==
    \/ /\ sdkReader = "lost" /\ sdkAuto
       /\ sdkReader' = IF Closed THEN "none" ELSE "clean"
       /\ UNCHANGED <<sdkState, sdkLoop, sdkTries, sdkLink, sdkChans, sdkWriters, sdkClose, sdkData>>
    \/ /\ sdkReader = "clean" /\ sdkReader' = "none"
       /\ clean /\ sdkLoop' = "enter"
       /\ UNCHANGED <<sdkTries, sdkWriters, sdkClose, sdkData>>

-----------------------------------------------------------------------------
(* The writers.  A channel that is closed is still emptied.                *)

\* range over the channel the writer started with.
writeMessages(k) ==
    /\ <<k, NoMsg>> \in sdkWriters
    /\ IF sdkChans[k].buf # <<>>
       THEN /\ sdkWriters' = (sdkWriters \ {<<k, NoMsg>>}) \cup {<<k, Head(sdkChans[k].buf)>>}
            /\ sdkChans' = [sdkChans EXCEPT ![k].buf = Tail(@)]
       ELSE /\ sdkChans[k].closed
            /\ sdkWriters' = sdkWriters \ {<<k, NoMsg>>} /\ UNCHANGED sdkChans
    /\ UNCHANGED <<sdkState, sdkLoop, sdkTries, sdkLink, sdkReader, sdkClose, sdkData>>

\* A frame is written if the client is connected and the connection takes it.
Writable == sdkIsConn /\ sdkConn \in sdkOpen

send_StopsOnError(k, m) ==
    /\ m # NoMsg /\ <<k, m>> \in sdkWriters
    /\ sdkWriters' = (sdkWriters \ {<<k, m>>}) \cup IF Writable THEN {<<k, NoMsg>>} ELSE {}
    /\ sdkReports' = [sdkReports EXCEPT ![m] = Append(@, IF Writable THEN "sent" ELSE "failed")]
    /\ UNCHANGED <<sdkState, sdkLoop, sdkTries, sdkLink, sdkChans, sdkReader, sdkClose, sdkMsg>>

\* send on whatever connection there is, and the callback for what came of it:
\* sent, or an error after which the writer goes on.
send(k, m) ==
    /\ m # NoMsg /\ <<k, m>> \in sdkWriters
    /\ sdkWriters' = (sdkWriters \ {<<k, m>>}) \cup {<<k, NoMsg>>}
    /\ sdkReports' = [sdkReports EXCEPT ![m] = Append(@, IF Writable THEN "sent" ELSE "failed")]
    /\ UNCHANGED <<sdkState, sdkLoop, sdkTries, sdkLink, sdkChans, sdkReader, sdkClose, sdkMsg>>

-----------------------------------------------------------------------------
(* The application.                                                        *)

\* SendTextMessage and SendBinaryMessage: closed, channel closed, full, or taken.
SendTextMessage(m) ==
    /\ sdkMsg[m] = "unsent"
    /\ IF Closed \/ sdkChans[Chan].closed \/ Len(sdkChans[Chan].buf) >= SdkBuffer
       THEN sdkMsg' = [sdkMsg EXCEPT ![m] = "refused"] /\ UNCHANGED sdkChans
       ELSE /\ sdkMsg' = [sdkMsg EXCEPT ![m] = IF Chan = 1 THEN "early" ELSE "accepted"]
            /\ sdkChans' = [sdkChans EXCEPT ![Chan].buf = Append(@, m)]
    /\ UNCHANGED <<sdkState, sdkLoop, sdkTries, sdkLink, sdkReader, sdkWriters, sdkClose, sdkReports>>

\* CloseWithMsg: nothing to do when closed; a close frame, then clean.
CloseWithMsg ==
    \/ /\ SdkCloses /\ sdkClose = "no" /\ ~ (sdkLoop = "enter" /\ Chan = 1)
       /\ sdkClose' = IF Closed THEN "done" ELSE "checked"
       /\ UNCHANGED <<sdkState, sdkLoop, sdkTries, sdkLink, sdkChans, sdkReader, sdkWriters, sdkData>>
    \/ /\ sdkClose = "checked" /\ sdkClose' = "done"
       /\ clean
       /\ UNCHANGED <<sdkLoop, sdkTries, sdkReader, sdkWriters, sdkData>>

SdkConnect == EnterConnect \/ initSendChannel \/ CheckClosed \/ Backoff \/ RetryDial \/ AfterDial
              \/ setConnectedState \/ onConnectionSuccess
SdkPumps == readMessages \/ handleReconnectOrClean \/ CloseAndReconnect
SdkWrite(k) == writeMessages(k) \/ \E m \in SdkMsgs : send(k, m)
SdkApp == (\E m \in SdkMsgs : SendTextMessage(m)) \/ CloseWithMsg

SdkNext ==
    /\ \/ SdkConnect \/ dialServer \/ DialFails \/ SdkPumps \/ ConnBreaks \/ SdkApp
       \/ \E k \in DOMAIN sdkChans : SdkWrite(k)
    /\ UNCHANGED sdkAuto

\* Goroutines run on; a server that is dialed again and again answers some time;
\* a Close that was begun ends.
SdkFairness ==
    /\ WF_sdkVars(SdkConnect /\ UNCHANGED sdkAuto) /\ WF_sdkVars(SdkPumps /\ UNCHANGED sdkAuto)
    /\ WF_sdkVars((dialServer \/ DialFails) /\ UNCHANGED sdkAuto) /\ SF_sdkVars(dialServer /\ UNCHANGED sdkAuto)
    /\ \A k \in 1..(SdkDrops + 3) : WF_sdkVars(k \in DOMAIN sdkChans /\ SdkWrite(k) /\ UNCHANGED sdkAuto)
    /\ WF_sdkVars(sdkClose = "checked" /\ CloseWithMsg /\ UNCHANGED sdkAuto)

SdkSpec == SdkInit /\ [][SdkNext]_sdkVars /\ SdkFairness

-----------------------------------------------------------------------------
(* Properties.                                                             *)

\* While the application does not close it, a client that lost its connection comes
\* back again and again, if it is to reconnect, however many rounds of dialing fail:
\* the state machine lets the loop through, and no ending of a reader is left without
\* a Connect.  And every message that was accepted is reported once, as sent or
\* as failed: the writer of the old channel empties it while the new one is in use
\* (writeMessages, clean, initSendChannel).  Not so for what slips in between the
\* first transition and the first initSendChannel: that channel is dropped with what
\* it holds.
LossIsRepaired ==
    /\ [](\A m \in SdkMsgs : Len(sdkReports[m]) <= 1)
    /\ []<>(sdkClose = "no" =>
               /\ sdkAuto => sdkState = "connected"
               /\ \A m \in SdkMsgs : sdkMsg[m] = "accepted" => sdkReports[m] # <<>>)

\* Once Close was called the loop does not dial again: "Close 置 Disconnected
\* 后循环不得再拨号（防连接复活）" (Connect).
CloseIsFinal == [][sdkClose = "done" => ~ (sdkLoop = "check" /\ sdkLoop' = "dial")]_sdkVars
=============================================================================
