------------------------- MODULE MCOverloadControl -------------------------
(* The overload loop on one connection and one sender, and the replay of   *)
(* what was stored while a user was away.  A behaviour is one of a single  *)
(* part; the other keeps an initial state.                                 *)
EXTENDS OverloadControl, OfflineReplay

VARIABLE part

writeVars == <<part, loopVars, offlineVars>>
loopRest == <<part, offlineVars>>
replayRest == <<part, loopVars>>

WriteInit == part \in {"loop", "replay"} /\ LoopInit /\ OfflineInit

WriteNext ==
    \/ part = "loop" /\ LoopNext /\ UNCHANGED loopRest
    \/ part = "replay" /\ OfflineNext /\ UNCHANGED replayRest

\* The fairness of OverloadControl and OfflineReplay, each in its part.
LoopPartFairness ==
    /\ \A s \in Senders : WF_writeVars(part = "loop" /\ TrySendStep(s) /\ UNCHANGED <<gateVars, loopRest>>)
    /\ \A c \in Clients :
          /\ WF_writeVars(part = "loop" /\ PumpStep(c) /\ UNCHANGED <<gateVars, loopRest>>)
          /\ WF_writeVars(part = "loop" /\ EvictStep(c) /\ UNCHANGED <<gateVars, loopRest>>)
          /\ WF_writeVars(part = "loop" /\ CloseStep(c) /\ UNCHANGED <<gateVars, loopRest>>)
    /\ WF_writeVars(part = "loop" /\ Evaluate /\ UNCHANGED loopRest)

ReplayPartFairness ==
    /\ \A c \in Callers : WF_writeVars(part = "replay" /\ SendStep(c) /\ UNCHANGED replayRest)
    /\ \A o \in Owners : WF_writeVars(part = "replay" /\ (\E b \in Backends : StoreWrite(o, b)) /\ UNCHANGED replayRest)
    /\ \A r \in Replays :
          /\ WF_writeVars(part = "replay" /\ ReplayStep(r) /\ UNCHANGED replayRest)
          /\ WF_writeVars(part = "replay" /\ Deadline(r) /\ UNCHANGED replayRest)

WriteSpec ==
    /\ WriteInit /\ [][WriteNext]_writeVars
    /\ LoopPartFairness /\ ReplayPartFairness
=============================================================================
