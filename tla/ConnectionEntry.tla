--------------------------- MODULE ConnectionEntry ---------------------------
(***************************************************************************)
(* How a connection gets into the Hub and out of it again, while           *)
(* SafeShutdown runs.  An HTTP request is screened, upgraded and           *)
(* registered: a WebSocket on a goroutine of its own (Register), an SSE    *)
(* stream inside the handler (RegisterSync), which then stays in           *)
(* WriteLoop.  The shutdown flag is read twice on the way, once before the *)
(* upgrade and once in handleRegister; the shutdown itself closes the      *)
(* connections it finds in the registry, cancels the Hub's context and     *)
(* waits.  Client IDs are different here (ConnRegistry has equal ones).    *)
(***************************************************************************)
EXTENDS Naturals, FiniteSets

CONSTANTS
    EnConns,   \* requests, and the connections they become
    EnSetups,  \* [cfg : the options of the transport, req : the requests]
    EnPanics   \* how often a registration may panic: bound

\* What the configuration enables: the health check, connection tokens and the
\* fallback from them, validation, a list of origins, the confirmation; injected:
\* WithHubContext was called.
EnOptions == {"health", "auth", "fallback", "validate", "origins", "confirm", "injected"}

\* Connection tokens, by what the authenticator makes of them.
EnTokens == {"absent", "garbled", "foreign", "expired", "good"}

\* probe: asks for the health check; valid: the parameters pass the validation;
\* origin: an allowed one; stream: the handshake, or streaming, works.
EnRequests == [sse : BOOLEAN, probe : BOOLEAN, token : EnTokens, valid : BOOLEAN, origin : BOOLEAN, stream : BOOLEAN]

ASSUME EntryAssumption ==
    /\ EnPanics \in Nat
    /\ \A s \in EnSetups : s.cfg \subseteq EnOptions /\ s.req \in [EnConns -> EnRequests]

VARIABLES
    enCfg, enReq,  \* options and requests: the setup
    enAt,          \* where the HTTP handler is
    enReg,         \* where handleRegister is
    enStored,      \* shardedRegistry
    enClosed,      \* clients whose DoneCh (SSECloseCh) is closed
    enOpen,        \* WebSockets the server has not closed
    enGone,        \* connections the client has left
    enReader, enWriter,  \* running pumps
    enNotice,      \* confirmations in SendChan
    enRemoving,    \* handleUnregister on its goroutine: a count for each connection
    enPanic,       \* panics left: bound
    enHub,         \* how far SafeShutdown is
    enSnap,        \* of its snapshot, the connections still to be closed
    enLate         \* registered after the snapshot: history

enSetup == <<enCfg, enReq>>
enPumps == <<enReader, enWriter, enNotice>>
enSocket == <<enClosed, enOpen>>
enShut == <<enHub, enSnap>>
enVars == <<enSetup, enAt, enReg, enStored, enSocket, enGone, enPumps, enRemoving, enPanic, enShut, enLate>>

EnInit ==
    /\ \E s \in EnSetups : enCfg = s.cfg /\ enReq = s.req
    /\ enAt = [c \in EnConns |-> "new"] /\ enReg = [c \in EnConns |-> "none"]
    /\ enStored = {} /\ enClosed = {} /\ enOpen = {} /\ enGone = {}
    /\ enReader = {} /\ enWriter = {} /\ enNotice = {}
    /\ enRemoving = [c \in EnConns |-> 0]
    /\ enPanic = EnPanics /\ enHub = "up" /\ enSnap = {} /\ enLate = {}

IsShutdown == enHub # "up"
HubContextDone == enHub \in {"cancelled", "waited", "down", "timeout"}

-----------------------------------------------------------------------------
(* The HTTP handlers, up to the first look at the shutdown flag.           *)

\* A token that is there has to be readable, to open with one of the keys and to
\* be fresh.
Authenticate(t) ==
    CASE t = "absent" -> "not found"
      [] t \in {"garbled", "foreign", "expired"} -> "invalid"
      [] OTHER -> "claims"

\* Where the attributes come from.  Only a request without a token may fall back
\* to its plain parameters.
ExtractClientAttributes(t) ==
    IF "auth" \notin enCfg \/ ("fallback" \in enCfg /\ Authenticate(t) = "not found") THEN "plain"
    ELSE IF Authenticate(t) = "claims" THEN "token" ELSE "nil"

IsHealthCheck(c) == "health" \in enCfg /\ enReq[c].probe

\* http.Error, or nothing to say: the handler is over.
Answers(c) == enAt' = [enAt EXCEPT ![c] = "over"]

\* The requests that the checks before the upgrade let through.
Passes(r) ==
    /\ ExtractClientAttributes(r.token) # "nil"
    /\ "validate" \in enCfg => r.valid
    /\ ~IsShutdown

\* handleHealthCheck closes what it upgraded and registers nothing.
handleHealthCheck(c) == IsHealthCheck(c) /\ Answers(c)

HandleWebSocketUpgrade(c) ==
    /\ enAt[c] = "new" /\ ~enReq[c].sse
    /\ \/ handleHealthCheck(c)
       \/ ~IsHealthCheck(c) /\ ~Passes(enReq[c]) /\ Answers(c)
       \/ ~IsHealthCheck(c) /\ Passes(enReq[c]) /\ enAt' = [enAt EXCEPT ![c] = "checked"]
    /\ UNCHANGED <<enSetup, enReg, enStored, enSocket, enGone, enPumps, enRemoving, enPanic, enShut, enLate>>

HandleSSEUpgrade(c) ==
    /\ enAt[c] = "new" /\ enReq[c].sse
    /\ \/ (IsHealthCheck(c) \/ ~Passes(enReq[c])) /\ Answers(c)
       \/ ~IsHealthCheck(c) /\ Passes(enReq[c]) /\ enAt' = [enAt EXCEPT ![c] = "checked"]
    /\ UNCHANGED <<enSetup, enReg, enStored, enSocket, enGone, enPumps, enRemoving, enPanic, enShut, enLate>>

-----------------------------------------------------------------------------
(* From the upgrade to the registration.                                   *)

\* Without a list of origins all are allowed.
CheckOrigin(r) == "origins" \in enCfg => r.origin

UpgradeFails(c) ==
    /\ enAt[c] = "checked" /\ ~enReq[c].sse
    /\ ~CheckOrigin(enReq[c]) \/ ~enReq[c].stream
    /\ Answers(c)
    /\ UNCHANGED <<enSetup, enReg, enStored, enSocket, enGone, enPumps, enRemoving, enPanic, enShut, enLate>>

\* The socket is the server's to close from here on.
CreateClientFromRequest(c) ==
    /\ enAt[c] = "checked" /\ ~enReq[c].sse /\ CheckOrigin(enReq[c]) /\ enReq[c].stream
    /\ enAt' = [enAt EXCEPT ![c] = "created"]
    /\ enOpen' = enOpen \cup {c}
    /\ UNCHANGED <<enSetup, enReg, enStored, enClosed, enGone, enPumps, enRemoving, enPanic, enShut, enLate>>

CreateSSEClient(c) ==
    /\ enAt[c] = "checked" /\ enReq[c].sse
    /\ IF enReq[c].stream THEN enAt' = [enAt EXCEPT ![c] = "created"] ELSE Answers(c)
    /\ UNCHANGED <<enSetup, enReg, enStored, enSocket, enGone, enPumps, enRemoving, enPanic, enShut, enLate>>

\* Register starts the goroutine and returns; SendRegisteredMessage puts the
\* confirmation into SendChan, which Register has made, and the handler is over.
Register(c) ==
    /\ enAt[c] = "created" /\ ~enReq[c].sse /\ enReg[c] = "none"
    /\ enReg' = [enReg EXCEPT ![c] = "task"]
    /\ UNCHANGED <<enSetup, enAt, enStored, enSocket, enGone, enPumps, enRemoving, enPanic, enShut, enLate>>

SendRegisteredMessage(c) ==
    /\ enAt[c] = "created" /\ ~enReq[c].sse /\ enReg[c] # "none"
    /\ enNotice' = IF "confirm" \in enCfg /\ c \notin enClosed THEN enNotice \cup {c} ELSE enNotice
    /\ Answers(c)
    /\ UNCHANGED <<enSetup, enReg, enStored, enSocket, enGone, enReader, enWriter, enRemoving, enPanic, enShut, enLate>>

RegisterSync(c) ==
    /\ enAt[c] = "created" /\ enReq[c].sse
    /\ enAt' = [enAt EXCEPT ![c] = "registering"]
    /\ enReg' = [enReg EXCEPT ![c] = "task"]
    /\ UNCHANGED <<enSetup, enStored, enSocket, enGone, enPumps, enRemoving, enPanic, enShut, enLate>>

-----------------------------------------------------------------------------
(* handleRegister.                                                         *)

RegisterCheck_KeepsSocket(c) ==
    /\ enReg[c] = "task"
    /\ enReg' = [enReg EXCEPT ![c] = IF IsShutdown THEN "over" ELSE "passed"]
    /\ UNCHANGED <<enSetup, enAt, enStored, enSocket, enGone, enPumps, enRemoving, enPanic, enShut, enLate>>

\* A refusal closes the socket; an SSE client has none.
RegisterCheck(c) ==
    /\ enReg[c] = "task"
    /\ IF IsShutdown THEN enReg' = [enReg EXCEPT ![c] = "over"] /\ enOpen' = enOpen \ {c}
                     ELSE enReg' = [enReg EXCEPT ![c] = "passed"] /\ UNCHANGED enOpen
    /\ UNCHANGED <<enSetup, enAt, enStored, enClosed, enGone, enPumps, enRemoving, enPanic, enShut, enLate>>

AddToRegistry(c) ==
    /\ enReg[c] = "passed"
    /\ enReg' = [enReg EXCEPT ![c] = "added"]
    /\ enStored' = enStored \cup {c}
    /\ enLate' = IF enHub \in {"up", "flagged"} THEN enLate ELSE enLate \cup {c}
    /\ UNCHANGED <<enSetup, enAt, enSocket, enGone, enPumps, enRemoving, enPanic, enShut>>

\* StartClientPumps does not look whether the client was closed meanwhile; SSE has
\* no pumps.
StartPumps(c) ==
    /\ enReg[c] = "added"
    /\ enReg' = [enReg EXCEPT ![c] = "over"]
    /\ LET started == {c} \ {d \in EnConns : enReq[d].sse}
       IN  enReader' = enReader \cup started /\ enWriter' = enWriter \cup started
    /\ UNCHANGED <<enSetup, enAt, enStored, enSocket, enGone, enNotice, enRemoving, enPanic, enShut, enLate>>

\* CloseChannel and CloseConnection, and the removal before them.
Drop(c) ==
    /\ enStored' = enStored \ {c}
    /\ enClosed' = enClosed \cup {c} /\ enOpen' = enOpen \ {c}

\* The group store panics: CleanupHalfRegistered.
RegisterPanics(c) ==
    /\ enReg[c] = "added" /\ enPanic > 0
    /\ enPanic' = enPanic - 1
    /\ enReg' = [enReg EXCEPT ![c] = "over"]
    /\ Drop(c)
    /\ UNCHANGED <<enSetup, enAt, enGone, enPumps, enRemoving, enShut, enLate>>

-----------------------------------------------------------------------------
(* The life of a connection.                                               *)

StartUnregister(c) == enRemoving' = [enRemoving EXCEPT ![c] = @ + 1]

\* RegisterSync returns, also after a refusal or a panic, and the handler stays.
EnterWriteLoop(c) ==
    /\ enAt[c] = "registering" /\ enReg[c] = "over"
    /\ enAt' = [enAt EXCEPT ![c] = "loop"]
    /\ UNCHANGED <<enSetup, enReg, enStored, enSocket, enGone, enPumps, enRemoving, enPanic, enShut, enLate>>

WriteLoop_Forgets(c) ==
    /\ enAt[c] = "loop"
    /\ c \in enClosed \/ c \in enGone \/ ("injected" \in enCfg /\ HubContextDone)
    /\ Answers(c)
    /\ UNCHANGED <<enSetup, enReg, enStored, enSocket, enGone, enPumps, enRemoving, enPanic, enShut, enLate>>

\* SSECloseCh, r.Context(), a write that fails, the context the handler was given.
WriteLoop(c) ==
    /\ enAt[c] = "loop"
    /\ c \in enClosed \/ c \in enGone \/ ("injected" \in enCfg /\ HubContextDone)
    /\ Answers(c) /\ StartUnregister(c)
    /\ UNCHANGED <<enSetup, enReg, enStored, enSocket, enGone, enPumps, enPanic, enShut, enLate>>

WriteNotice(c) ==
    /\ c \in enWriter /\ c \in enNotice /\ c \in enOpen
    /\ enNotice' = enNotice \ {c}
    /\ UNCHANGED <<enSetup, enAt, enReg, enStored, enSocket, enGone, enReader, enWriter, enRemoving, enPanic, enShut, enLate>>

\* DoneCh and the Hub's context end the pump and leave the socket as it is; a
\* write that fails closes it.
handleClientWrite(c) ==
    /\ c \in enWriter
    /\ \/ (c \in enClosed \/ HubContextDone) /\ UNCHANGED enOpen
       \/ (c \in enGone \/ c \notin enOpen) /\ c \in enNotice /\ enOpen' = enOpen \ {c}
    /\ enWriter' = enWriter \ {c}
    /\ UNCHANGED <<enSetup, enAt, enReg, enStored, enClosed, enGone, enReader, enNotice, enRemoving, enPanic, enShut, enLate>>

\* ReadMessage fails; the deferred calls end with the pump's wg.Done.
handleClientRead(c) ==
    /\ c \in enReader /\ (c \in enGone \/ c \notin enOpen)
    /\ enReader' = enReader \ {c} /\ StartUnregister(c)
    /\ UNCHANGED <<enSetup, enAt, enReg, enStored, enSocket, enGone, enWriter, enNotice, enPanic, enShut, enLate>>

handleUnregister(c) ==
    /\ enRemoving[c] > 0
    /\ enRemoving' = [enRemoving EXCEPT ![c] = @ - 1]
    /\ IF c \in enStored THEN Drop(c) ELSE UNCHANGED <<enStored, enSocket>>
    /\ UNCHANGED <<enSetup, enAt, enReg, enGone, enPumps, enPanic, enShut, enLate>>

\* The client goes away: the request's context ends, reads and writes fail.
ClientLeaves(c) ==
    /\ enAt[c] # "new" /\ c \notin enGone
    /\ enGone' = enGone \cup {c}
    /\ UNCHANGED <<enSetup, enAt, enReg, enStored, enSocket, enPumps, enRemoving, enPanic, enShut, enLate>>

-----------------------------------------------------------------------------
(* SafeShutdown.  A second call returns at once.                           *)

SetShutdown ==
    /\ enHub = "up" /\ enHub' = "flagged"
    /\ UNCHANGED <<enSetup, enAt, enReg, enStored, enSocket, enGone, enPumps, enRemoving, enPanic, enSnap, enLate>>

GetAllClients ==
    /\ enHub = "flagged" /\ enHub' = "closing"
    /\ enSnap' = enStored
    /\ UNCHANGED <<enSetup, enAt, enReg, enStored, enSocket, enGone, enPumps, enRemoving, enPanic, enLate>>

\* shutdownAllClientsParallel: RemoveUnsafe for each of them, in parallel.
ShutdownRemoves(c) ==
    /\ enHub = "closing" /\ c \in enSnap
    /\ enSnap' = enSnap \ {c}
    /\ IF c \in enStored THEN Drop(c) ELSE UNCHANGED <<enStored, enSocket>>
    /\ UNCHANGED <<enSetup, enAt, enReg, enGone, enPumps, enRemoving, enPanic, enHub, enLate>>

Cancel ==
    /\ enHub = "closing" /\ enSnap = {} /\ enHub' = "cancelled"
    /\ UNCHANGED <<enSetup, enAt, enReg, enStored, enSocket, enGone, enPumps, enRemoving, enPanic, enSnap, enLate>>

\* Tasks counted in h.wg.  RegisterSync is not.
Tasks == {c \in EnConns : enRemoving[c] > 0 \/ (~enReq[c].sse /\ enReg[c] \notin {"none", "over"})}

\* h.wg.Wait(), then messagingMgr.Wait().
WaitTasks ==
    /\ enHub = "cancelled" /\ Tasks = {} /\ enHub' = "waited"
    /\ UNCHANGED <<enSetup, enAt, enReg, enStored, enSocket, enGone, enPumps, enRemoving, enPanic, enSnap, enLate>>

WaitPumps ==
    /\ enHub = "waited" /\ enReader \cup enWriter = {} /\ enHub' = "down"
    /\ UNCHANGED <<enSetup, enAt, enReg, enStored, enSocket, enGone, enPumps, enRemoving, enPanic, enSnap, enLate>>

\* ErrHubShutdownTimeout: the clock does not know what is still running.
WaitTimesOut ==
    /\ enHub \in {"cancelled", "waited"} /\ enHub' = "timeout"
    /\ UNCHANGED <<enSetup, enAt, enReg, enStored, enSocket, enGone, enPumps, enRemoving, enPanic, enSnap, enLate>>

SafeShutdown == SetShutdown \/ GetAllClients \/ (\E c \in EnConns : ShutdownRemoves(c)) \/ Cancel \/ WaitTasks \/ WaitPumps \/ WaitTimesOut

Handler(c) ==
    \/ HandleWebSocketUpgrade(c) \/ HandleSSEUpgrade(c) \/ UpgradeFails(c) \/ CreateClientFromRequest(c)
    \/ CreateSSEClient(c) \/ Register(c) \/ SendRegisteredMessage(c) \/ RegisterSync(c)
    \/ EnterWriteLoop(c) \/ WriteLoop(c)
Registration(c) == RegisterCheck(c) \/ AddToRegistry(c) \/ StartPumps(c) \/ RegisterPanics(c)

EnNext ==
    \/ \E c \in EnConns :
          \/ Handler(c) \/ Registration(c) \/ WriteNotice(c) \/ handleClientWrite(c)
          \/ handleClientRead(c) \/ handleUnregister(c) \/ ClientLeaves(c)
    \/ SafeShutdown

\* Goroutines that can go on do so.  Nobody has to connect, to leave or to shut
\* the Hub down; a shutdown that began goes on.
EnFairness ==
    /\ \A c \in EnConns :
          /\ WF_enVars(enAt[c] # "new" /\ Handler(c)) /\ WF_enVars(Registration(c))
          /\ WF_enVars(handleClientWrite(c)) /\ WF_enVars(handleClientRead(c))
          /\ WF_enVars(handleUnregister(c))
    /\ WF_enVars(IsShutdown /\ SafeShutdown)

EnSpec == EnInit /\ [][EnNext]_enVars /\ EnFairness

-----------------------------------------------------------------------------
(* Properties.                                                             *)

\* Nothing of the connection is left on the server.
IsOver(c) ==
    /\ enAt[c] \in {"new", "over"} /\ enReg[c] \in {"none", "over"}
    /\ c \notin enStored \cup enOpen \cup enReader \cup enWriter

\* What a shutdown leaves behind as long as the client stays: a WebSocket that
\* read the flag before it was set and reached the registry after the snapshot,
\* whose reader nothing wakes; a stream that neither the snapshot nor the context
\* reaches, because WithHubContext was not called.
LeftBehind(c) ==
    c \notin enGone /\ IF enReq[c].sse THEN "injected" \notin enCfg /\ c \notin enClosed ELSE c \in enLate

\* Whatever the order of screening, registration, shutdown and the client's
\* leaving, a connection whose client left, and any connection once the Hub shuts
\* down, is removed, closed and has no goroutine left in the end, but for those
\* left behind (HandleWebSocketUpgrade, HandleSSEUpgrade, WriteLoop, handleRegister,
\* SafeShutdown).
EntriesSettle == \A c \in EnConns : []<>((c \in enGone \/ IsShutdown) => IsOver(c) \/ LeftBehind(c))

\* hub/registry.go: removals are counted in h.wg, so SafeShutdown waits for those
\* under way: when it returns without an error there is none.
ShutdownWaits == [][enHub' = "down" => \A c \in EnConns : enRemoving[c] = 0]_enShut
=============================================================================
