----------------------------- MODULE MCRecords -----------------------------
(* The record of a message to one user, the way of a message to many, the  *)
(* two lanes of a connection's write pump, and the client at the other     *)
(* end.  A behaviour is one of a single part; the others keep an initial   *)
(* state.                                                                  *)
EXTENDS MessageRecord, GroupCast, ClientLanes, ClientSDK

VARIABLE part

CONSTANTS n1, n2, n3

\* User u1 is in both groups and has connections on two nodes, u2 two on one node,
\* u3 one by SSE.
Conns == {"a1", "a2", "b2", "d2", "c3"}

By(f, g, h, k) == [c \in Conns |-> CASE c = "a1" -> f [] c = "a2" -> g [] c \in {"b2", "d2"} -> h [] c = "c3" -> k]

Homes == By(n1, n2, n2, n3)
Users == By("u1", "u1", "u2", "u3")
Spaces == By("s1", "s1", "s2", "s1")
Groups == By({"g1"}, {"g1", "g2"}, {"g1"}, {"g1"})

M(call, gs, space, grade, bus) ==
    [call |-> call, origin |-> n1, groups |-> gs, ack |-> FALSE, space |-> space, match |-> {"a1"}, sender |-> "u1",
     exclude |-> FALSE, grade |-> grade, bus |-> bus]

Group(gs, grade) == M("deliver", gs, "s1", grade, FALSE)
Reliable(gs) == [Group(gs, "standard") EXCEPT !.ack = TRUE]
Space(grade) == M("deliver", {}, "s1", grade, FALSE)
Global == M("deliver", {}, "", "standard", FALSE)
Attribute == M("attribute", {}, "s1", "standard", FALSE)
Kick == M("kick", {}, "s1", "standard", FALSE)
Listed(call) == [M(call, {}, "s1", "standard", FALSE) EXCEPT !.match = {"a1", "b2", "c3"}]
Bus(m) == [m EXCEPT !.bus = TRUE]
Nowhere(m) == [m EXCEPT !.space = ""]

S(casts, grpc, pubsub, batch, faults) ==
    [casts |-> casts, grpc |-> grpc, pubsub |-> pubsub, batch |-> batch, known |-> CastNodes,
     stale |-> {}, slow |-> {}, replayed |-> {}, loaded |-> FALSE, observed |-> FALSE, faults |-> faults,
     members |-> [g \in {"g1", "g2"} |-> {"u1", "u2", "u4"}], hidden |-> {}]

g1 == {"g1"}
both == {"g1", "g2"}
excluding(m) == [m EXCEPT !.exclude = TRUE]

Watched(s) == [s EXCEPT !.observed = TRUE]

Setups ==
    { S(<<Group(both, "standard")>>, TRUE, TRUE, TRUE, 2),
      S(<<Group(both, "standard")>>, TRUE, FALSE, FALSE, 1),
      [S(<<excluding(Group(g1, "standard"))>>, FALSE, TRUE, FALSE, 1) EXCEPT !.slow = {"b2", "c3"}],
      [S(<<Group(g1, "aggregatable"), Group(g1, "aggregatable")>>, FALSE, TRUE, FALSE, 0) EXCEPT !.known = {}],
      [S(<<Space("standard"), Space("ephemeral")>>, TRUE, TRUE, TRUE, 0) EXCEPT !.loaded = TRUE, !.slow = {"a1"}],
      [S(<<Nowhere(Group(g1, "standard")), Group(both, "standard")>>, FALSE, TRUE, FALSE, 0) EXCEPT !.replayed = {"u1"}],
      [S(<<Space("standard")>>, FALSE, TRUE, FALSE, 1) EXCEPT !.replayed = {"u1"}, !.loaded = TRUE, !.slow = {"a2"}],
      S(<<Global, Space("guaranteed")>>, TRUE, TRUE, TRUE, 1),
      [S(<<Group(g1, "aggregatable")>>, TRUE, TRUE, TRUE, 0) EXCEPT !.loaded = TRUE, !.slow = {"a2"}],
      [S(<<Group(g1, "aggregatable"), Global>>, FALSE, TRUE, FALSE, 0) EXCEPT !.loaded = TRUE, !.slow = {"a2"}],
      [S(<<Group(both, "standard")>>, TRUE, TRUE, TRUE, 0) EXCEPT !.loaded = TRUE, !.replayed = {"u1"}],
      [S(<<Group(both, "standard"), Attribute>>, TRUE, TRUE, TRUE, 0) EXCEPT !.replayed = {"u1"}],
      [S(<<Global, Space("standard")>>, FALSE, TRUE, FALSE, 0) EXCEPT !.loaded = TRUE, !.slow = {"c3"}],
      S(<<Bus(Global)>>, FALSE, TRUE, FALSE, 0),
      S(<<Attribute, Bus(Space("standard"))>>, FALSE, TRUE, FALSE, 0),
      [S(<<Kick>>, TRUE, TRUE, TRUE, 1) EXCEPT !.stale = {n3}],
      S(<<Kick, Group(g1, "standard")>>, FALSE, TRUE, FALSE, 0),
      [S(<<Reliable(g1)>>, TRUE, TRUE, TRUE, 0) EXCEPT !.slow = {"b2"}, !.hidden = {"u2"}],
      Watched([S(<<excluding(Listed("members"))>>, TRUE, TRUE, TRUE, 1) EXCEPT !.slow = {"c3"}]),
      Watched([S(<<Listed("users")>>, TRUE, TRUE, TRUE, 1) EXCEPT !.slow = {"a1"}, !.hidden = {"u3"}]),
      Watched(S(<<Group(g1, "standard")>>, TRUE, TRUE, TRUE, 1)),
      Watched(S(<<Global, Global>>, FALSE, TRUE, FALSE, 0)),
      Watched([S(<<Reliable(g1)>>, FALSE, TRUE, FALSE, 1) EXCEPT !.slow = {"a1"}]) }

-----------------------------------------------------------------------------
\* Agents have a buffer of their own, visitors the default one.
LaneTypes == [t \in {"agent", "visitor"} |-> IF t = "agent" THEN 2 ELSE 0]

\* The application names servers, one of them empty and one of them twice.
SdkServers == <<"a", "", "b", "a">>

recordsVars == <<part, vars, castVars, lnVars, sdkVars>>
recordRest == <<part, castVars, lnVars, sdkVars>>
castRest == <<part, vars, lnVars, sdkVars>>
lanesRest == <<part, vars, castVars, sdkVars>>
sdkRest == <<part, vars, castVars, lnVars>>

\* The part that a behaviour is about chooses; the others keep one initial state.
RecordsInit ==
    /\ part \in {"record", "cast", "lanes", "sdk"}
    /\ Init /\ (part # "record" => loc = n1)
    /\ CastInit /\ (part # "cast" => castEnv = CHOOSE e \in CastSetups : TRUE)
    /\ LnInit /\ (part # "lanes" => InitClientSendChan("agent", FALSE))
    /\ SdkInit /\ (part # "sdk" => ~ sdkAuto)

RecordsNext ==
    \/ part = "record" /\ Next /\ UNCHANGED recordRest
    \/ part = "cast" /\ CastNext /\ UNCHANGED castRest
    \/ part = "lanes" /\ LnNext /\ UNCHANGED lanesRest
    \/ part = "sdk" /\ SdkNext /\ UNCHANGED sdkRest

\* The fairness of the four components, each in its part.
RecordFairness ==
    /\ WF_recordsVars(part = "record" /\ SenderStep /\ UNCHANGED recordRest)
    /\ WF_recordsVars(part = "record" /\ FlushStep /\ UNCHANGED recordRest)
    /\ WF_recordsVars(part = "record" /\ TimerFire /\ UNCHANGED recordRest)
    /\ WF_recordsVars(part = "record" /\ (HandleRemote \/ Lose) /\ UNCHANGED recordRest)
    /\ WF_recordsVars(part = "record" /\ (\E i \in Tries, ok \in BOOLEAN : IncrementRetry(i, ok)) /\ UNCHANGED recordRest)
    /\ \A n \in Nodes :
          /\ WF_recordsVars(part = "record" /\ UpdaterFlush(n) /\ UNCHANGED recordRest)
          /\ WF_recordsVars(part = "record" /\ StoreStep(n) /\ UNCHANGED recordRest)
          /\ WF_recordsVars(part = "record" /\ ScanQuery(n) /\ UNCHANGED recordRest)
          /\ SF_recordsVars(part = "record" /\ ScanClaim(n) /\ UNCHANGED recordRest)

LanesPartFairness ==
    /\ WF_recordsVars(part = "lanes" /\ LnPumps /\ UNCHANGED lanesRest)
    /\ WF_recordsVars(part = "lanes" /\ ReaderUnregisters /\ UNCHANGED lanesRest)
    /\ WF_recordsVars(part = "lanes" /\ CloseChannel /\ UNCHANGED lanesRest)
    /\ WF_recordsVars(part = "lanes" /\ CloseConnection /\ UNCHANGED lanesRest)

SdkPartFairness ==
    /\ WF_recordsVars(part = "sdk" /\ SdkConnect /\ UNCHANGED <<sdkAuto, sdkRest>>)
    /\ WF_recordsVars(part = "sdk" /\ SdkPumps /\ UNCHANGED <<sdkAuto, sdkRest>>)
    /\ WF_recordsVars(part = "sdk" /\ (dialServer \/ DialFails) /\ UNCHANGED <<sdkAuto, sdkRest>>)
    /\ SF_recordsVars(part = "sdk" /\ dialServer /\ UNCHANGED <<sdkAuto, sdkRest>>)
    /\ \A k \in 1..(SdkDrops + 3) : WF_recordsVars(part = "sdk" /\ k \in DOMAIN sdkChans /\ SdkWrite(k) /\ UNCHANGED <<sdkAuto, sdkRest>>)
    /\ WF_recordsVars(part = "sdk" /\ sdkClose = "checked" /\ CloseWithMsg /\ UNCHANGED <<sdkAuto, sdkRest>>)

RecordsSpec ==
    /\ RecordsInit /\ [][RecordsNext]_recordsVars /\ RecordFairness
    /\ WF_recordsVars(part = "cast" /\ CastNext /\ UNCHANGED castRest)
    /\ LanesPartFairness /\ SdkPartFairness
=============================================================================
