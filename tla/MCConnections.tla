--------------------------- MODULE MCConnections ---------------------------
(* The registration of connections as the hub runs it, the indexes of the  *)
(* registry that broadcasts use, and the way of a connection in and out    *)
(* during a shutdown.  A behaviour is one of a single part; the others     *)
(* keep an initial state.                                                  *)
EXTENDS ConnRegistry, ClientIndexes, MCConnectionEntry

VARIABLE part

\* Two users.  u has two devices in one namespace and overlapping groups, one of
\* them an agent over SSE; w is an observer of group g.
IxC == {"a", "b", "w"}
IxU == [c \in IxC |-> IF c = "w" THEN "w" ELSE "u"]
IxS == [c \in IxC |-> "s"]
IxG == [c \in IxC |-> CASE c = "a" -> {"g"} [] c = "b" -> {"g", "h"} [] c = "w" -> {"g"}]
IxW == [c \in IxC |-> IF c = "w" THEN "g" ELSE ""]
IxA == [c \in IxC |-> CASE c = "a" -> {<<"role", "x">>, <<"dept", "">>} [] c = "b" -> {<<"role", "x">>} [] c = "w" -> {<<"dept", "">>}]
IxK == [c \in IxC |-> CASE c = "a" -> {"agent"} [] c = "b" -> {"agent", "sse"} [] c = "w" -> {"observer"}]

connVars == <<part, vars, ixVars, enVars>>

ConnInit ==
    /\ part \in {"registry", "indexes", "entry"}
    /\ Init /\ (part # "registry" => ~ allowMulti)
    /\ IxInit /\ (part # "indexes" => ixOn = {"sse"})
    /\ EnInit /\ (part # "entry" => enCfg = {})

ConnNext ==
    \/ part = "registry" /\ Next /\ UNCHANGED <<part, ixVars, enVars>>
    \/ part = "indexes" /\ IxNext /\ UNCHANGED <<part, vars, enVars>>
    \/ part = "entry" /\ EnNext /\ UNCHANGED <<part, vars, ixVars>>

\* The fairness of ConnectionEntry, in its part.
entryRest == <<part, vars, ixVars>>
EntryPartFairness ==
    /\ \A c \in EnConns :
          /\ WF_connVars(part = "entry" /\ enAt[c] # "new" /\ Handler(c) /\ UNCHANGED entryRest)
          /\ WF_connVars(part = "entry" /\ Registration(c) /\ UNCHANGED entryRest)
          /\ WF_connVars(part = "entry" /\ handleClientWrite(c) /\ UNCHANGED entryRest)
          /\ WF_connVars(part = "entry" /\ handleClientRead(c) /\ UNCHANGED entryRest)
          /\ WF_connVars(part = "entry" /\ handleUnregister(c) /\ UNCHANGED entryRest)
    /\ WF_connVars(part = "entry" /\ IsShutdown /\ SafeShutdown /\ UNCHANGED entryRest)

ConnSpec ==
    /\ ConnInit /\ [][ConnNext]_connVars
    /\ WF_connVars(part = "registry" /\ Progress /\ UNCHANGED <<part, ixVars, enVars>>)
    /\ EntryPartFairness
=============================================================================
