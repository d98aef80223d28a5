---------------------------- MODULE ClientLanes ----------------------------
(***************************************************************************)
(* The lanes of one WebSocket connection: the data lane, the control lane  *)
(* and the pongs, the one goroutine that writes them out, and the ways in  *)
(* which the server ends the connection.  Only the order of the frames     *)
(* matters here; what they are counted as is in PendingWrites.             *)
(***************************************************************************)
EXTENDS Integers, Sequences

CONSTANTS
    LnTypes,    \* user types of the client: type -> its configured capacity, 0 if there is none
    LnDefault,  \* DefaultClientSendChanCapacity
    LnCtrlCap,  \* CtrlChanCapacity
    LnBatch,    \* clientWriteBatchSize
    LnFrames    \* bound: frames sent to the client or by it

ASSUME LanesAssumption == {LnDefault, LnCtrlCap, LnBatch} \subseteq Nat \ {0} /\ LnFrames \in Nat /\ \A t \in DOMAIN LnTypes : LnTypes[t] \in Nat

VARIABLES
    lnCap,     \* cap(SendChan)
    lnDoneCh,  \* there is a DoneCh
    lnData,    \* len(SendChan)
    lnCtrl,    \* CtrlCh: for each frame the data batches written since it was queued
    lnPong,    \* len(PongCh)
    lnClosed,  \* IsClosed
    lnConn,    \* the connection is open
    lnPump,    \* "top", "select", "exited": the write pump
    lnLeft,    \* frames that may still be sent
    lnKick,    \* "no", "told", "gone": the client is being removed
    lnBeat     \* the timeout task of the client is scheduled

lnVars == <<lnCap, lnDoneCh, lnData, lnCtrl, lnPong, lnClosed, lnConn, lnPump, lnLeft, lnKick, lnBeat>>

\* CapacityFor, and the default where nothing is configured.
CapacityFor(t) == IF LnTypes[t] > 0 THEN LnTypes[t] ELSE LnDefault

InitClientSendChan_SkipsDone(t, made) ==
    /\ lnDoneCh = ~ made
    /\ lnCap = IF made THEN 1 ELSE CapacityFor(t)

\* InitClientSendChan: the channels; made: the client came with a SendChan.  The
\* DoneCh is made either way.
InitClientSendChan(t, made) ==
    /\ lnDoneCh = TRUE
    /\ lnCap = IF made THEN 1 ELSE CapacityFor(t)

LnInit ==
    /\ \E t \in DOMAIN LnTypes, made \in BOOLEAN : InitClientSendChan(t, made)
    /\ lnData = 0 /\ lnCtrl = <<>> /\ lnPong = 0 /\ lnClosed = FALSE /\ lnConn = TRUE /\ lnPump = "top"
    /\ lnLeft = LnFrames /\ lnKick = "no" /\ lnBeat = TRUE

-----------------------------------------------------------------------------
(* Into the lanes.                                                         *)

SpendFrame == lnLeft > 0 /\ lnLeft' = lnLeft - 1

\* A message for the client.
SendData ==
    /\ SpendFrame /\ ~ lnClosed /\ lnData < lnCap /\ lnData' = lnData + 1
    /\ UNCHANGED <<lnCap, lnDoneCh, lnCtrl, lnPong, lnClosed, lnConn, lnPump, lnKick, lnBeat>>

TrySendControl == IF lnClosed \/ Len(lnCtrl) >= LnCtrlCap THEN {} ELSE {Append(lnCtrl, 0)}
IsDisconnectMessage(type) == type \in {"kick_out", "force_offline", "terminate"}

\* SendControl: the control lane, or, for a message that ends the connection anyway,
\* its end.
SendControl(type) ==
    IF TrySendControl # {} THEN lnCtrl' \in TrySendControl /\ UNCHANGED lnConn
    ELSE lnConn' = (lnConn /\ ~ IsDisconnectMessage(type)) /\ UNCHANGED lnCtrl

\* touch: the timeout of the client starts again.
touch == lnBeat' = (lnBeat \/ ~ lnClosed)

\* A protocol ping: the heartbeat counts, its pong is dropped if one waits already.
setupPingHandler ==
    /\ SpendFrame /\ lnConn /\ touch /\ lnPong' = 1
    /\ UNCHANGED <<lnCap, lnDoneCh, lnData, lnCtrl, lnClosed, lnConn, lnPump, lnKick>>

\* A heartbeat message: its pong takes the control lane, or is dropped.
handleHeartbeatMessage ==
    /\ SpendFrame /\ lnConn /\ touch
    /\ IF lnClosed THEN UNCHANGED <<lnCtrl, lnConn>> ELSE SendControl("pong")
    /\ UNCHANGED <<lnCap, lnDoneCh, lnData, lnPong, lnClosed, lnPump, lnKick>>

-----------------------------------------------------------------------------
(* The end of the connection.                                              *)

\* The scanner evicts a slow client: a message on the control lane, then Unregister.
SendControlMessage ==
    /\ lnKick = "no" /\ SendControl("kick_out") /\ lnKick' = "told"
    /\ UNCHANGED <<lnCap, lnDoneCh, lnData, lnPong, lnClosed, lnPump, lnLeft, lnBeat>>

\* KickClient tells the client on the data lane, where the message may find no room.
KickClient ==
    /\ lnKick = "no" /\ lnKick' = "told"
    /\ lnData' = IF ~ lnClosed /\ lnData < lnCap THEN lnData + 1 ELSE lnData
    /\ UNCHANGED <<lnCap, lnDoneCh, lnCtrl, lnPong, lnClosed, lnConn, lnPump, lnLeft, lnBeat>>

\* onTimeout: the task has fired, and a heartbeat of now schedules the next in vain.
onTimeout ==
    /\ lnBeat /\ lnBeat' = FALSE /\ lnKick' = IF lnKick = "no" THEN "told" ELSE lnKick
    /\ UNCHANGED <<lnCap, lnDoneCh, lnData, lnCtrl, lnPong, lnClosed, lnConn, lnPump, lnLeft>>

\* The peer leaves or the network fails; the reader's ReadMessage reports it.
PeerGone ==
    /\ lnConn /\ lnConn' = FALSE
    /\ UNCHANGED <<lnCap, lnDoneCh, lnData, lnCtrl, lnPong, lnClosed, lnPump, lnLeft, lnKick, lnBeat>>

ReaderUnregisters ==
    /\ ~ lnConn /\ lnKick = "no" /\ lnKick' = "told"
    /\ UNCHANGED <<lnCap, lnDoneCh, lnData, lnCtrl, lnPong, lnClosed, lnConn, lnPump, lnLeft, lnBeat>>

\* Unregister runs: the timeout is cancelled and the client marked closed ...
CloseChannel ==
    /\ lnKick = "told" /\ lnKick' = "gone" /\ lnBeat' = FALSE /\ lnClosed' = TRUE
    /\ UNCHANGED <<lnCap, lnDoneCh, lnData, lnCtrl, lnPong, lnConn, lnPump, lnLeft>>

\* RemoveUnsafe: the same at shutdown, without a message.
RemoveUnsafe ==
    /\ lnKick # "gone" /\ lnKick' = "gone" /\ lnBeat' = FALSE /\ lnClosed' = TRUE
    /\ UNCHANGED <<lnCap, lnDoneCh, lnData, lnCtrl, lnPong, lnConn, lnPump, lnLeft>>

\* ... and then the connection is closed, after a close frame at shutdown.
CloseConnection ==
    /\ lnKick = "gone" /\ lnConn /\ lnConn' = FALSE
    /\ UNCHANGED <<lnCap, lnDoneCh, lnData, lnCtrl, lnPong, lnClosed, lnPump, lnLeft, lnKick, lnBeat>>

-----------------------------------------------------------------------------
(* The write pump.                                                         *)

AtMostBatch(n) == IF n > LnBatch THEN LnBatch ELSE n
Unwritten == UNCHANGED <<lnCap, lnDoneCh, lnClosed, lnLeft, lnKick, lnBeat>>

\* A write that fails closes the connection and ends the pump.
LaneWrite ==
    \/ lnConn /\ lnPump' = "top" /\ UNCHANGED lnConn
    \/ lnPump' = "exited" /\ lnConn' = FALSE

\* writeControlBatch: up to a batch of the control lane.
writeControlBatch ==
    /\ lnCtrl' = SubSeq(lnCtrl, AtMostBatch(Len(lnCtrl)) + 1, Len(lnCtrl))
    /\ LaneWrite /\ UNCHANGED <<lnData, lnPong>>

\* The control lane first, a batch at a time, until it is empty.
DrainControl ==
    /\ lnPump = "top"
    /\ IF lnCtrl = <<>> THEN lnPump' = "select" /\ UNCHANGED <<lnData, lnCtrl, lnPong, lnConn>>
       ELSE writeControlBatch
    /\ Unwritten

\* Then whatever is ready: a batch of data ...
WriteData ==
    /\ lnPump = "select" /\ lnData > 0 /\ lnData' = lnData - AtMostBatch(lnData)
    /\ lnCtrl' = [i \in DOMAIN lnCtrl |-> lnCtrl[i] + 1]
    /\ LaneWrite /\ UNCHANGED lnPong /\ Unwritten

\* ... one control frame ...
writeClientMessages ==
    /\ lnPump = "select" /\ lnCtrl # <<>> /\ lnCtrl' = Tail(lnCtrl)
    /\ LaneWrite /\ UNCHANGED <<lnData, lnPong>> /\ Unwritten

\* ... a pong ...
WritePong ==
    /\ lnPump = "select" /\ lnPong = 1 /\ lnPong' = 0
    /\ LaneWrite /\ UNCHANGED <<lnData, lnCtrl>> /\ Unwritten

\* ... or the end.
PumpDone ==
    /\ lnPump = "select" /\ lnClosed /\ lnDoneCh /\ lnPump' = "exited"
    /\ UNCHANGED <<lnData, lnCtrl, lnPong, lnConn>> /\ Unwritten

LnPumps == DrainControl \/ WriteData \/ writeClientMessages \/ WritePong \/ PumpDone
LnNext ==
    \/ SendData \/ setupPingHandler \/ handleHeartbeatMessage \/ SendControlMessage \/ KickClient \/ onTimeout
    \/ PeerGone \/ ReaderUnregisters \/ CloseChannel \/ RemoveUnsafe \/ CloseConnection \/ LnPumps
LnFairness == WF_lnVars(LnPumps) /\ WF_lnVars(ReaderUnregisters) /\ WF_lnVars(CloseChannel) /\ WF_lnVars(CloseConnection)
LnSpec == LnInit /\ [][LnNext]_lnVars /\ LnFairness

-----------------------------------------------------------------------------
(* Properties                                                              *)

\* No control frame waits while more than one batch of data goes out: one that is
\* queued after the pump has found the lane empty may be overtaken by what the select
\* picks, and never again (handleClientWrite drains CtrlCh before every select).
ControlOvertakenOnce == \A i \in DOMAIN lnCtrl : lnCtrl[i] <= 1

\* However the connection ends, the write pump ends too (InitClientSendChan, CloseChannel).
PumpEnds == []<>(~ lnConn \/ lnClosed => lnPump = "exited")

\* The write pump serves both lanes: control frames wait for one batch of data at
\* most, and no end of the connection leaves it behind.
LanesAreServed == []ControlOvertakenOnce /\ PumpEnds
=============================================================================
