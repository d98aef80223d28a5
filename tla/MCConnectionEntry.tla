------------------------- MODULE MCConnectionEntry -------------------------
(* Instances of ConnectionEntry: a WebSocket and an SSE stream.            *)
EXTENDS ConnectionEntry

EnRequest(sse, probe, token, valid, origin, stream) ==
    [sse |-> sse, probe |-> probe, token |-> token, valid |-> valid, origin |-> origin, stream |-> stream]
EnPair(ws, sse) == [c \in {"ws", "sse"} |-> IF c = "ws" THEN ws ELSE sse]
EnSetup(cfg, ws, sse) == [cfg |-> cfg, req |-> EnPair(ws, sse)]

\* Requests that get through.
GoodSocket == EnRequest(FALSE, FALSE, "good", TRUE, TRUE, TRUE)
GoodStream == [GoodSocket EXCEPT !.sse = TRUE]

\* All options on, the Hub's context injected, or nothing of it.
OpenSetups == {EnSetup(cfg, GoodSocket, GoodStream) : cfg \in {EnOptions, {}}}

\* A WebSocket alone.
SocketSetups == {[cfg |-> EnOptions, req |-> [c \in {"ws"} |-> GoodSocket]]}

\* Requests of which something is wrong, next to a health check.
Spoilt(r) ==
    {[r EXCEPT !.valid = FALSE], [r EXCEPT !.origin = FALSE], [r EXCEPT !.stream = FALSE]}
    \cup {[r EXCEPT !.token = t] : t \in EnTokens \ {"good"}}
Probe(r) == [r EXCEPT !.probe = TRUE]
SpoiltSetups ==
    UNION {{EnSetup(cfg, r, Probe(GoodStream)) : r \in Spoilt(GoodSocket)}
           \cup {EnSetup(cfg, Probe(GoodSocket), r) : r \in Spoilt(GoodStream)} :
               cfg \in {EnOptions, EnOptions \ {"fallback"}}}

EntrySetups == OpenSetups \cup SpoiltSetups
=============================================================================
