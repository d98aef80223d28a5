-------------------------- MODULE OverloadControl --------------------------
(***************************************************************************)
(* The closed loop of overload protection: the frames counted by           *)
(* PendingWrites raise the level of the AdmissionGate, and the level       *)
(* decides which messages Manager.sendToClientCore hands to TrySend.  A    *)
(* message that is not admitted leaves this loop (the caller stores it for *)
(* offline delivery) and changes nothing here.  The Hub is running: its    *)
(* stop also stops the gate's evaluation loop.                             *)
(***************************************************************************)
EXTENDS PendingWrites, AdmissionGate

loopVars == <<vars, gateVars>>

LoopInit == Init /\ GateInit

SendToClient(s, c, guarantee) ==
    /\ Admit(guarantee, level) = "admit"
    /\ TrySendEnter(s, c)
    /\ UNCHANGED gateVars

Traffic ==
    /\ \/ \E s \in Senders : TrySendStep(s)
       \/ \E c \in Clients : PumpStep(c) \/ Scan(c) \/ EvictStep(c) \/ Unregister(c) \/ CloseStep(c)
    /\ UNCHANGED gateVars

Evaluate == (EvalRead(hub) \/ EvalAct) /\ UNCHANGED vars

LoopNext ==
    \/ \E s \in Senders, c \in Clients, g \in Guarantees : SendToClient(s, c, g)
    \/ Traffic
    \/ Evaluate

(* The goroutines of PendingWrites run on, and the ticker keeps ticking. *)
LoopSpec == LoopInit /\ [][LoopNext]_loopVars /\ Fairness /\ WF_loopVars(Evaluate)

(* The gate is not stuck at a raised level.  Once every connection has been *)
(* told to go, the backlog it reads returns to zero and the level to L0, so *)
(* Standard messages are admitted again, although frames are abandoned in   *)
(* SendChan and senders may still be inside TrySend.  And while there are   *)
(* connections messages are refused only for a reason that can pass: either *)
(* frames keep being counted, or the level is back at L0 again and again.   *)
GateRecovers ==
    /\ <>[]((\A c \in Clients : unreg[c]) => hub = 0 /\ level = LevelNormal)
    /\ []<>(hub > 0 \/ level = LevelNormal)
=============================================================================
