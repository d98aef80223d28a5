--------------------------- MODULE ConnectionRows ---------------------------
(***************************************************************************)
(* The rows the database keeps of a connection: its record and its         *)
(* quality, both under the client ID, which a device that comes back soon  *)
(* uses again.  Registering saves both rows on a goroutine of its own;     *)
(* heartbeats, messages, errors and the end of a session go through        *)
(* batchers that merge what is queued into one statement.  A shutdown      *)
(* closes the batchers in an order of its own and scores the connections.  *)
(***************************************************************************)
EXTENDS Naturals, Sequences, FiniteSets, SequencesExt

CONSTANTS
    CrConns,      \* client IDs
    CrUntracked,  \* those of system users, bots and observers
    CrItems,      \* items of MessageStatsBatcher's pool: bound
    CrQueueSize,  \* capacity of a batcher's queue
    CrBudgets,    \* bounds: how often what may happen, of each kind in CrKinds
    CrPings,      \* the latencies measured, ms
    CrNone,       \* no row, no batch
    CrDurations   \* how long sessions last, seconds

\* Connects, heartbeats, messages and errors counted, cleanups, and faults: the
\* record pool is full, or a statement fails.
CrKinds == {"sessions", "beats", "msgs", "errors", "cleanups", "faults"}

ASSUME RowsAssumption ==
    /\ CrUntracked \subseteq CrConns /\ CrQueueSize \in Nat \ {0} /\ CrBudgets \subseteq [CrKinds -> Nat]
    /\ CrPings \subseteq Nat \ {0} /\ CrDurations \subseteq Nat

\* The batchers, in the order in which they are stopped.
Tracking == <<"beats", "stats", "errors">>
Batchers == ToSet(Tracking) \cup {"ends"}

VARIABLES
    crLive,     \* the connections registered
    crLeft,     \* how often what may still happen: bounds
    crJobs,     \* calls on the record pool and its goroutines: <<call, connection, session>>
    crRow,      \* wsc_connection_records
    crQual,     \* wsc_connection_qualities
    crQueue,    \* queues of the batchers
    crBatch,    \* what a batcher is writing, CrNone when it is not
    crFree,     \* itemPool
    crSums,     \* what flush added up for each connection, CrNone before
    crItem,     \* the contents of the pooled items
    crClosed,   \* the batchers that take nothing any more
    crPhase,    \* how far SafeShutdown is
    crShut,     \* its snapshot of the connections, with what it writes of each
    crTracked,  \* messages counted for a connection,
    crLost      \* and those given up: queue full, statement failed, no row

crPooled == <<crFree, crItem, crSums, crTracked, crLost>>
crVars == <<crLive, crLeft, crJobs, crRow, crQual, crQueue, crBatch, crPooled, crClosed, crPhase, crShut>>

NoMessages == [sent |-> 0, recv |-> 0]
Plus(a, b) == [sent |-> a.sent + b.sent, recv |-> a.recv + b.recv]

CrInit ==
    /\ crLive = {} /\ crJobs = {}
    /\ crLeft \in CrBudgets
    /\ crRow = [c \in CrConns |-> CrNone] /\ crQual = [c \in CrConns |-> CrNone]
    /\ crQueue = [b \in Batchers |-> <<>>] /\ crBatch = [b \in Batchers |-> CrNone]
    /\ crFree = CrItems /\ crSums = CrNone /\ crItem = [i \in CrItems |-> CrNone]
    /\ crClosed = {} /\ crPhase = "up" /\ crShut = {}
    /\ crTracked = [c \in CrConns |-> NoMessages] /\ crLost = [c \in CrConns |-> NoMessages]

-----------------------------------------------------------------------------
(* The tables.  A statement changes the rows there are.                    *)

NewRow == [active |-> TRUE, reason |-> "", abnormal |-> FALSE, duration |-> 0, ping |-> 0]

\* INSERT ... ON CONFLICT: a reconnection starts the session's columns afresh.
BatchUpsert(rows, c) == [rows EXCEPT ![c] = NewRow]

NewQuality == [msgs |-> NoMessages, errors |-> 0, avg |-> 0, max |-> 0, min |-> 0, reconnects |-> 0, score |-> 10000]

\* The quality row keeps its statistics; reconnect_count goes up.
UpsertQuality(quals, c) ==
    [quals EXCEPT ![c] = IF quals[c] = CrNone THEN NewQuality ELSE [quals[c] EXCEPT !.reconnects = @ + 1]]

\* The last entry of a connection counts; no row, nothing happens.
BatchMarkDisconnected(rows, entries) ==
    LET last(c) == entries[CHOOSE i \in DOMAIN entries :
                       entries[i].conn = c /\ \A j \in DOMAIN entries : entries[j].conn = c => j <= i]
    IN  [c \in CrConns |->
            IF rows[c] = CrNone \/ c \notin {entries[i].conn : i \in DOMAIN entries} THEN rows[c]
            ELSE [rows[c] EXCEPT !.active = FALSE, !.reason = last(c).reason, !.duration = last(c).duration,
                                 !.abnormal = last(c).reason \notin {"client_request", "server_shutdown"}]]

\* What heartbeats of a batch leave of a connection: the last one.
LastBeat(batch, c) ==
    LET is == {i \in DOMAIN batch : batch[i].conn = c}
    IN  IF is = {} THEN 0 ELSE batch[CHOOSE i \in is : \A j \in is : j <= i].ms

BatchUpdateHeartbeats(rows, batch) ==
    [c \in CrConns |-> IF rows[c] = CrNone \/ LastBeat(batch, c) = 0 THEN rows[c]
                       ELSE [rows[c] EXCEPT !.ping = LastBeat(batch, c)]]

\* The moving average, in whole milliseconds, the largest and the smallest.
BatchUpdatePings(quals, batch) ==
    [c \in CrConns |->
        LET ms == LastBeat(batch, c)
        IN  IF quals[c] = CrNone \/ ms = 0 THEN quals[c]
            ELSE [quals[c] EXCEPT !.avg = IF @ > 0 THEN (@ * 7 + ms * 3) \div 10 ELSE ms,
                                  !.max = IF @ = 0 \/ @ < ms THEN ms ELSE @,
                                  !.min = IF @ = 0 \/ @ > ms THEN ms ELSE @]]

BatchIncrementStats(quals, sums) ==
    [c \in CrConns |-> IF quals[c] = CrNone THEN quals[c] ELSE [quals[c] EXCEPT !.msgs = Plus(@, sums[c])]]

BatchAddErrors(quals, batch) ==
    [c \in CrConns |-> IF quals[c] = CrNone THEN quals[c]
                       ELSE [quals[c] EXCEPT !.errors = @ + Cardinality({i \in DOMAIN batch : batch[i].conn = c})]]

AtMost(n, limit) == IF n > limit THEN limit ELSE n
Minus(n, k) == IF n > k THEN n - k ELSE 0

\* The score of a connection in hundredths: latency, errors per message and
\* reconnections cost; 20 are left.  The loss rate is never written.
LiveScore(q) ==
    LET total == q.msgs.sent + q.msgs.recv
        latency == CASE q.avg > 500 -> 2500 [] q.avg > 200 /\ q.avg <= 500 -> 1500 [] q.avg > 100 /\ q.avg <= 200 -> 800
                     [] q.avg > 50 /\ q.avg <= 100 -> 400 [] OTHER -> 0
        errors == IF total = 0 THEN 0 ELSE AtMost((q.errors * 1500) \div total, 1500)
        score == 10000 - latency - errors - AtMost(q.reconnects * 300, 1500)
    IN  IF score < 2000 THEN 2000 ELSE score

\* Short sessions cost more, and nothing need be left.
FinalScore(q, seconds) ==
    Minus(LiveScore(q), CASE seconds < 30 -> 2000 [] seconds >= 30 /\ seconds < 300 -> 1000
                          [] seconds >= 300 /\ seconds < 1800 -> 500 [] OTHER -> 0)

BatchFinalizeOnDisconnect(quals, entries) ==
    [c \in CrConns |-> IF quals[c] = CrNone \/ ~ \E e \in entries : e.conn = c THEN quals[c]
                       ELSE [quals[c] EXCEPT !.score = FinalScore(quals[c], (CHOOSE e \in entries : e.conn = c).duration)]]

-----------------------------------------------------------------------------
(* Sessions.                                                               *)

Spend(kind) == crLeft[kind] > 0 /\ crLeft' = [crLeft EXCEPT ![kind] = @ - 1]
\* A step that goes well, or one that does not.
NoFault == UNCHANGED crLeft
Fault == Spend("faults")

\* The record pool takes a call, or is full and drops it.
TrySubmitRecord(job) == \/ NoFault /\ crJobs' = crJobs \cup {job}
                        \/ Fault /\ UNCHANGED crJobs

\* handleRegister, as far as the rows: refused once the shutdown began.
RegisterRow(c) ==
    /\ crPhase = "up" /\ c \notin crLive /\ crLeft["sessions"] > 0
    /\ crLive' = crLive \cup {c}
    /\ \/ Spend("sessions") /\ crJobs' = crJobs \cup {<<"save", c, crLeft["sessions"]>>}
       \/ /\ crLeft["faults"] > 0 /\ UNCHANGED crJobs
          /\ crLeft' = [crLeft EXCEPT !["sessions"] = @ - 1, !["faults"] = @ - 1]
    /\ UNCHANGED <<crRow, crQual, crQueue, crBatch, crPooled, crClosed, crPhase, crShut>>

\* handleUnregister: the entry is made when the pool runs the call.
UnregisterRow(c) ==
    /\ c \in crLive
    /\ crLive' = crLive \ {c}
    /\ TrySubmitRecord(<<"mark", c, crLeft["sessions"]>>)
    /\ UNCHANGED <<crRow, crQual, crQueue, crBatch, crPooled, crClosed, crPhase, crShut>>

\* A statement is executed, or fails.
WriteOrFail(next, before, after) ==
    \/ NoFault /\ next = after
    \/ Fault /\ next = before

\* Save: two upserts, the second whatever became of the first.
Save(c, n) ==
    /\ \/ /\ <<"save", c, n>> \in crJobs
          /\ crJobs' = (crJobs \ {<<"save", c, n>>}) \cup {<<"saveQuality", c, n>>}
          /\ WriteOrFail(crRow', crRow, BatchUpsert(crRow, c))
          /\ UNCHANGED crQual
       \/ /\ <<"saveQuality", c, n>> \in crJobs
          /\ crJobs' = crJobs \ {<<"saveQuality", c, n>>}
          /\ WriteOrFail(crQual', crQual, UpsertQuality(crQual, c))
          /\ UNCHANGED crRow
    /\ UNCHANGED <<crLive, crQueue, crBatch, crPooled, crClosed, crPhase, crShut>>

\* A batcher's queue refuses when it is closed or full.
Submits(b, x) == b \notin crClosed /\ Len(crQueue[b]) < CrQueueSize

MarkDisconnected(c, n) ==
    /\ <<"mark", c, n>> \in crJobs
    /\ crJobs' = crJobs \ {<<"mark", c, n>>}
    /\ \E d \in CrDurations :
          LET entry == [conn |-> c, reason |-> "client_request", duration |-> d]
          IN  crQueue' = IF Submits("ends", entry) THEN [crQueue EXCEPT !["ends"] = Append(@, entry)] ELSE crQueue
    /\ UNCHANGED <<crLive, crLeft, crRow, crQual, crBatch, crPooled, crClosed, crPhase, crShut>>

-----------------------------------------------------------------------------
(* Statistics of a connection, counted while messages are on their way and *)
(* so also after it went.                                                  *)

ShouldTrackUserStats(c) == c \notin CrUntracked

Tracks(c, kind) ==
    /\ ShouldTrackUserStats(c) /\ (c \in crLive \/ crQual[c] # CrNone) /\ Spend(kind)
    /\ UNCHANGED <<crLive, crJobs, crRow, crQual, crBatch, crClosed, crPhase, crShut>>

TrackHeartbeatStats(c) ==
    /\ Tracks(c, "beats") /\ c \in crLive
    /\ \E ms \in CrPings :
          crQueue' = IF Submits("beats", c) THEN [crQueue EXCEPT !["beats"] = Append(@, [conn |-> c, ms |-> ms])] ELSE crQueue
    /\ UNCHANGED crPooled

TrackConnectionError(c) ==
    /\ Tracks(c, "errors")
    /\ crQueue' = IF Submits("errors", c) THEN [crQueue EXCEPT !["errors"] = Append(@, [conn |-> c])] ELSE crQueue
    /\ UNCHANGED crPooled

SubmitItem_PutsBack(c, msgs) ==
    LET i == CHOOSE j \in crFree : TRUE
    IN  /\ crFree # {} /\ UNCHANGED crSums
        /\ crTracked' = [crTracked EXCEPT ![c] = Plus(@, msgs)]
        /\ IF Submits("stats", i)
           THEN /\ crItem' = [crItem EXCEPT ![i] = [conn |-> c, msgs |-> msgs]]
                /\ crQueue' = [crQueue EXCEPT !["stats"] = Append(@, i)]
                /\ UNCHANGED <<crFree, crLost>>
           ELSE /\ crLost' = [crLost EXCEPT ![c] = Plus(@, msgs)]
                /\ UNCHANGED <<crQueue, crFree, crItem>>

\* An item of the pool is filled and queued, or goes back at once.
SubmitItem(c, msgs) ==
    LET i == CHOOSE j \in crFree : TRUE
    IN  /\ crFree # {} /\ UNCHANGED crSums
        /\ crTracked' = [crTracked EXCEPT ![c] = Plus(@, msgs)]
        /\ IF Submits("stats", i)
           THEN /\ crItem' = [crItem EXCEPT ![i] = [conn |-> c, msgs |-> msgs]]
                /\ crQueue' = [crQueue EXCEPT !["stats"] = Append(@, i)]
                /\ crFree' = crFree \ {i} /\ UNCHANGED crLost
           ELSE /\ crLost' = [crLost EXCEPT ![c] = Plus(@, msgs)]
                /\ UNCHANGED <<crQueue, crFree, crItem>>

TrackSenderMessageStats(c) == Tracks(c, "msgs") /\ SubmitItem(c, [sent |-> 1, recv |-> 0])
TrackReceiverMessageStats(c) == Tracks(c, "msgs") /\ SubmitItem(c, [sent |-> 0, recv |-> 1])

-----------------------------------------------------------------------------
(* The batchers.                                                           *)

\* BatchProcessor: its goroutine takes what is queued, one batch at a time.
TakeBatch(b) ==
    /\ crBatch[b] = CrNone /\ crQueue[b] # <<>>
    /\ crBatch' = [crBatch EXCEPT ![b] = crQueue[b]]
    /\ crQueue' = [crQueue EXCEPT ![b] = <<>>]

\* The batch holds the items; they are not free.
TakeStats ==
    /\ TakeBatch("stats")
    /\ UNCHANGED <<crLive, crLeft, crJobs, crRow, crQual, crPooled, crClosed, crPhase, crShut>>

\* flush, first half: sums of the connections are copied, then the items go back;
\* what they hold until Acquire clears it is not looked at.
SumOf(items, c) ==
    FoldSeq(LAMBDA i, acc : IF crItem[i].conn = c THEN Plus(acc, crItem[i].msgs) ELSE acc, NoMessages, items)

AggregateStats ==
    /\ crBatch["stats"] # CrNone /\ crSums = CrNone
    /\ crSums' = [c \in CrConns |-> SumOf(crBatch["stats"], c)]
    /\ crFree' = crFree \cup ToSet(crBatch["stats"])
    /\ crItem' = [i \in CrItems |-> IF i \in ToSet(crBatch["stats"]) \ crFree THEN CrNone ELSE crItem[i]]
    /\ UNCHANGED <<crLive, crLeft, crJobs, crRow, crQual, crQueue, crBatch, crTracked, crLost, crClosed, crPhase, crShut>>

\* flush, second half: one statement, which may fail.
WriteStats ==
    LET sums == crSums
    IN  /\ sums # CrNone
        /\ crBatch' = [crBatch EXCEPT !["stats"] = CrNone] /\ crSums' = CrNone
        /\ \/ /\ NoFault /\ crQual' = BatchIncrementStats(crQual, sums)
              /\ crLost' = [c \in CrConns |-> IF crQual[c] = CrNone THEN Plus(crLost[c], sums[c]) ELSE crLost[c]]
           \/ Fault /\ crLost' = [c \in CrConns |-> Plus(crLost[c], sums[c])] /\ UNCHANGED crQual
        /\ UNCHANGED <<crLive, crJobs, crRow, crQueue, crFree, crItem, crTracked, crClosed, crPhase, crShut>>

\* The other batchers merge and write what they took.
FlushErrors ==
    \/ /\ TakeBatch("errors") /\ UNCHANGED crQual
       /\ UNCHANGED <<crLive, crLeft, crJobs, crRow, crPooled, crClosed, crPhase, crShut>>
    \/ /\ crBatch["errors"] # CrNone
       /\ crBatch' = [crBatch EXCEPT !["errors"] = CrNone]
       /\ WriteOrFail(crQual', crQual, BatchAddErrors(crQual, crBatch["errors"]))
       /\ UNCHANGED <<crLive, crJobs, crRow, crQueue, crPooled, crClosed, crPhase, crShut>>

\* Two statements, the second whatever became of the first.
FlushBeats ==
    \/ /\ TakeBatch("beats")
       /\ UNCHANGED <<crLive, crLeft, crJobs, crRow, crQual, crPooled, crClosed, crPhase, crShut>>
    \/ /\ crBatch["beats"] # CrNone
       /\ crBatch' = [crBatch EXCEPT !["beats"] = CrNone]
       /\ \/ crRow' = BatchUpdateHeartbeats(crRow, crBatch["beats"]) /\ WriteOrFail(crQual', crQual, BatchUpdatePings(crQual, crBatch["beats"]))
          \/ Fault /\ UNCHANGED crRow /\ crQual' = BatchUpdatePings(crQual, crBatch["beats"])
       /\ UNCHANGED <<crLive, crJobs, crQueue, crPooled, crClosed, crPhase, crShut>>

FlushEnds ==
    \/ /\ TakeBatch("ends")
       /\ UNCHANGED <<crLive, crLeft, crJobs, crRow, crQual, crPooled, crClosed, crPhase, crShut>>
    \/ /\ crBatch["ends"] # CrNone
       /\ crBatch' = [crBatch EXCEPT !["ends"] = CrNone]
       /\ WriteOrFail(crRow', crRow, BatchMarkDisconnected(crRow, crBatch["ends"]))
       /\ UNCHANGED <<crLive, crJobs, crQual, crQueue, crPooled, crClosed, crPhase, crShut>>

\* The daily cleanup: rows of sessions that ended long ago.
CleanupInactiveRecords(c) ==
    /\ \/ crRow[c] # CrNone /\ ~ crRow[c].active /\ crRow' = [crRow EXCEPT ![c] = CrNone] /\ UNCHANGED <<crQual, crLost>>
       \/ /\ crQual[c] # CrNone /\ c \notin crLive
          /\ crQual' = [crQual EXCEPT ![c] = CrNone]
          /\ crLost' = [crLost EXCEPT ![c] = Plus(@, crQual[c].msgs)]
          /\ UNCHANGED crRow
    /\ crPhase = "up" /\ Spend("cleanups")
    /\ UNCHANGED <<crLive, crJobs, crQueue, crBatch, crFree, crItem, crSums, crTracked, crClosed, crPhase, crShut>>

-----------------------------------------------------------------------------
(* SafeShutdown, as far as the rows.                                       *)

Drained(b) == crQueue[b] = <<>> /\ crBatch[b] = CrNone

\* StopTracking: a batcher takes nothing more and is waited for, then the next.
StopTracking ==
    /\ \/ crPhase = "up" /\ crPhase' = Tracking[1] /\ crClosed' = {Tracking[1]}
       \/ \E i \in DOMAIN Tracking :
             /\ crPhase = Tracking[i] /\ Drained(crPhase)
             /\ IF i = Len(Tracking) THEN crPhase' = "tracked" /\ UNCHANGED crClosed
                ELSE crPhase' = Tracking[i + 1] /\ crClosed' = crClosed \cup {Tracking[i + 1]}
    /\ UNCHANGED <<crLive, crLeft, crJobs, crRow, crQual, crQueue, crBatch, crPooled, crShut>>

\* The snapshot of the registry; its connections are removed without a record.
RemoveAll ==
    /\ crPhase = "tracked" /\ crPhase' = "removed"
    /\ \E d \in CrDurations : crShut' = {[conn |-> c, reason |-> "server_shutdown", duration |-> d] : c \in crLive}
    /\ crLive' = {}
    /\ UNCHANGED <<crLeft, crJobs, crRow, crQual, crQueue, crBatch, crPooled, crClosed>>

MarkDisconnectedBatch ==
    /\ crPhase = "removed" /\ crPhase' = "marked"
    /\ WriteOrFail(crRow', crRow, BatchMarkDisconnected(crRow, SetToSeq(crShut)))
    /\ UNCHANGED <<crLive, crJobs, crQual, crQueue, crBatch, crPooled, crClosed, crShut>>

\* The scores, unless the cleanup already took too long or the statement fails.
ScoreAll ==
    /\ crPhase = "marked"
    /\ \/ NoFault /\ crPhase' = "scored" /\ crQual' = BatchFinalizeOnDisconnect(crQual, crShut)
       \/ Fault /\ crPhase' = "unscored" /\ UNCHANGED crQual
    /\ UNCHANGED <<crLive, crJobs, crRow, crQueue, crBatch, crPooled, crClosed, crShut>>

\* Ends of sessions that came in meanwhile are written before the node goes.
StopRecords ==
    /\ \/ /\ crPhase \in {"scored", "unscored"} /\ "ends" \notin crClosed
          /\ crClosed' = crClosed \cup {"ends"} /\ UNCHANGED crPhase
       \/ /\ "ends" \in crClosed /\ Drained("ends") /\ crPhase' = "down" /\ crPhase # "down" /\ UNCHANGED crClosed
    /\ UNCHANGED <<crLive, crLeft, crJobs, crRow, crQual, crQueue, crBatch, crPooled, crShut>>

CrNext ==
    \/ \E c \in CrConns :
          \/ RegisterRow(c) \/ UnregisterRow(c) \/ \E job \in crJobs : Save(c, job[3]) \/ MarkDisconnected(c, job[3])
          \/ TrackHeartbeatStats(c) \/ TrackConnectionError(c)
          \/ TrackSenderMessageStats(c) \/ TrackReceiverMessageStats(c) \/ CleanupInactiveRecords(c)
    \/ TakeStats \/ AggregateStats \/ WriteStats \/ FlushErrors \/ FlushBeats \/ FlushEnds
    \/ StopTracking \/ RemoveAll \/ MarkDisconnectedBatch \/ ScoreAll \/ StopRecords

CrSpec == CrInit /\ [][CrNext]_crVars

-----------------------------------------------------------------------------
(* Properties.                                                             *)

\* Messages of a connection that are queued or being written.
Underway(c) ==
    Plus(SumOf(crQueue["stats"], c),
         IF crSums # CrNone THEN crSums[c]
         ELSE IF crBatch["stats"] # CrNone THEN SumOf(crBatch["stats"], c) ELSE NoMessages)

\* Every message counted for a connection is in its quality row, on its way, or
\* known to be lost, and is so once and for this connection: an item of the pool
\* that flush or a full queue gave back is filled for another connection only
\* after its count was copied (MessageStatsBatcher: Acquire, Submit, flush).
StatsAreExact ==
    \A c \in CrConns :
        crTracked[c] = Plus(Plus(Underway(c), crLost[c]), IF crQual[c] = CrNone THEN NoMessages ELSE crQual[c].msgs)

\* What the score stands for, but for the reconnections.
Scored(q) == <<q.score, q.msgs, q.errors, q.avg, q.max, q.min>>

\* The score a shutdown gives a connection is computed from all that will ever be
\* counted of the session: no batch changes the statistics of a scored row,
\* because StopTracking emptied the batchers before (SafeShutdown,
\* batchCleanupOnShutdown, BatchFinalizeOnDisconnect).
ScoreStays ==
    \A e \in crShut : crPhase \in {"scored", "down"} /\ crQual[e.conn] # CrNone
        => Scored(crQual'[e.conn]) = Scored(crQual[e.conn])

\* No step breaks the books: after it the statistics of a connection are what was
\* counted, and what was scored before stays as it is.  (The first disjunct, that of
\* a step which touches no row, saves TLC the sums.)
RowsAreExact == [][UNCHANGED crVars \/ (StatsAreExact' /\ ScoreStays)]_crVars
=============================================================================
