------------------------------ MODULE Shaping ------------------------------
(***************************************************************************)
(* The helpers that shape the load of a node, each used by many goroutines *)
(* at once: the coalescer that keeps the latest of what is superseded, the *)
(* aggregator that collects the messages of a group into one frame, the    *)
(* token bucket, and the batch sender.  They share no state.               *)
(***************************************************************************)
EXTENDS Integers, Sequences, FiniteSets, FiniteSetsExt, SequencesExt

CONSTANTS
    SpMessages,   \* superseded messages, each offered by a goroutine of its own
    SpKeyOf,      \* message -> key (user and type)
    SpShardOf,    \* key -> shard of the coalescer, group -> shard of the aggregator
    SpShards,     \* shards are 1..SpShards
    SpCapacity,   \* of the coalescer
    SpPayloads,   \* messages for groups, each offered by a goroutine of its own
    SpGroupOf,    \* payload -> group
    SpMaxPerGroup,
    SpMaxGroups,
    SpCallers,    \* calls of Allow
    SpInterval,   \* time between two tokens
    SpBurst,      \* burstTime
    SpTime,       \* bound: when the clock stops
    SpAdded,      \* what goes to the batch sender: set of <<user, message>>
    SpRuns        \* bound: calls of Execute

ASSUME ShapingAssumption ==
    /\ SpKeyOf \in [SpMessages -> DOMAIN SpShardOf]
    /\ SpGroupOf \in [SpPayloads -> DOMAIN SpShardOf]
    /\ SpShards \in Nat \ {0} /\ SpShardOf \in [DOMAIN SpShardOf -> 1..SpShards]
    /\ {SpCapacity, SpMaxPerGroup, SpMaxGroups, SpInterval} \subseteq Nat \ {0}
    /\ {SpBurst, SpTime, SpRuns} \subseteq Nat

VARIABLES
    \* the coalescer
    spSlots,    \* key -> the latest message of it
    spSize,     \* size
    spOffer,    \* per message: "new", "added" (size not counted yet), "done", "refused"
    spLast,     \* key -> the last message accepted for it (history)
    spDrain,    \* Drain: the shard it is at, 0 when idle, SpShards + 1 when all are taken
    spDrained,  \* what it took so far
    spOut,      \* what was drained and delivered
    \* the aggregator
    spGroups,   \* group -> the window in use
    spWindows,  \* all windows made: the payloads in each
    spCount,    \* groupCount
    spLock,     \* shard -> the payload whose Offer holds it, or NoPayload
    spPut,      \* payload -> "new", "checked", "found", "in", "refused"
    spRef,      \* payload -> the window its Offer found
    spFrames,   \* the frames flushed: <<group, payloads>>
    \* the token bucket
    spNow,      \* the clock
    spTat,      \* tat
    spCall,     \* call of Allow -> <<where, now, tat read>>
    \* the batch sender
    spQueue,    \* user -> messages
    spExec,     \* Execute: the copy it works on, or NoCopy
    spSent,     \* user -> results of the messages sent so far
    spResults,  \* the users whose result is stored
    spReturned, \* results returned: [total, ok, failed, users]
    spToAdd     \* what is still to be added

spCoVars == <<spSlots, spSize, spOffer, spLast, spDrain, spDrained, spOut>>
spAgVars == <<spGroups, spWindows, spCount, spLock, spPut, spRef, spFrames>>
spTbVars == <<spNow, spTat, spCall>>
spBsVars == <<spQueue, spExec, spSent, spResults, spReturned, spToAdd>>

NoPayload == "free"
NoCopy == <<>>
With(f, k, v) == [x \in DOMAIN f \cup {k} |-> IF x = k THEN v ELSE f[x]]
Without(f, ks) == [x \in DOMAIN f \ ks |-> f[x]]
InShard(f, s) == {k \in DOMAIN f : SpShardOf[k] = s}

-----------------------------------------------------------------------------
(* The coalescer.                                                          *)

NewCoalescer ==
    /\ spSlots = <<>> /\ spSize = 0 /\ spOffer = [m \in SpMessages |-> "new"] /\ spLast = <<>>
    /\ spDrain = 0 /\ spDrained = {} /\ spOut = <<>>

\* Offer up to the unlock: an existing key is overwritten whatever the size, a new
\* one is refused when the size has reached the capacity.
OfferLatest(m) ==
    LET k == SpKeyOf[m] IN
    /\ spOffer[m] = "new"
    /\ IF k \notin DOMAIN spSlots /\ spSize >= SpCapacity
       THEN spOffer' = [spOffer EXCEPT ![m] = "refused"] /\ UNCHANGED <<spSlots, spLast>>
       ELSE /\ spSlots' = With(spSlots, k, m) /\ spLast' = With(spLast, k, m)
            /\ spOffer' = [spOffer EXCEPT ![m] = IF k \in DOMAIN spSlots THEN "done" ELSE "added"]
    /\ UNCHANGED <<spSize, spDrain, spDrained, spOut>>

\* The size is counted after the unlock.
CountSlot(m) ==
    /\ spOffer[m] = "added" /\ spOffer' = [spOffer EXCEPT ![m] = "done"]
    /\ spSize' = spSize + 1
    /\ UNCHANGED <<spSlots, spLast, spDrain, spDrained, spOut>>

startCoalescerDrain ==
    /\ spDrain = 0 /\ spDrain' = 1
    /\ UNCHANGED <<spSlots, spSize, spOffer, spLast, spDrained, spOut>>

Drain_ReadsFirst ==
    /\ spDrain \in 1..SpShards /\ spDrain' = spDrain + 1
    /\ spDrained' = IF spDrain = 1 THEN {spSlots[k] : k \in DOMAIN spSlots} ELSE spDrained
    /\ spSlots' = Without(spSlots, InShard(spSlots, spDrain))
    /\ UNCHANGED <<spSize, spOffer, spLast, spOut>>

\* Drain: shard by shard, each under its lock.
Drain ==
    /\ spDrain \in 1..SpShards /\ spDrain' = spDrain + 1
    /\ spDrained' = spDrained \cup {spSlots[k] : k \in InShard(spSlots, spDrain)}
    /\ spSlots' = Without(spSlots, InShard(spSlots, spDrain))
    /\ UNCHANGED <<spSize, spOffer, spLast, spOut>>

\* The size at the end; the messages go to their receivers, in no order.
DrainEnds ==
    /\ spDrain = SpShards + 1 /\ spDrain' = 0
    /\ spSize' = spSize - Cardinality(spDrained)
    /\ spOut' = spOut \o SetToSeq(spDrained) /\ spDrained' = {}
    /\ UNCHANGED <<spSlots, spOffer, spLast>>

CoNext == (\E m \in SpMessages : OfferLatest(m) \/ CountSlot(m)) \/ startCoalescerDrain \/ Drain \/ DrainEnds

-----------------------------------------------------------------------------
(* The aggregator.                                                         *)

NewMessageAggregator ==
    /\ spGroups = <<>> /\ spWindows = <<>> /\ spCount = 0 /\ spFrames = <<>>
    /\ spLock = [s \in 1..SpShards |-> NoPayload] /\ spPut = [p \in SpPayloads |-> "new"] /\ spRef = [p \in SpPayloads |-> 0]

LookGroup_Unlocks(p) ==
    LET g == SpGroupOf[p] IN
    /\ spPut[p] = "new" /\ spLock[SpShardOf[g]] = NoPayload
    /\ spPut' = [spPut EXCEPT ![p] = IF g \in DOMAIN spGroups THEN "found"
                                     ELSE IF spCount >= SpMaxGroups THEN "refused" ELSE "checked"]
    /\ spLock' = [spLock EXCEPT ![SpShardOf[g]] = IF spPut'[p] = "checked" THEN p ELSE NoPayload]
    /\ spRef' = [spRef EXCEPT ![p] = IF g \in DOMAIN spGroups THEN spGroups[g] ELSE 0]
    /\ UNCHANGED <<spGroups, spWindows, spCount, spFrames>>

\* Offer takes the lock of the shard, which it keeps: the window of the group, or
\* whether one more group is allowed.
LookGroup(p) ==
    LET g == SpGroupOf[p] IN
    /\ spPut[p] = "new" /\ spLock[SpShardOf[g]] = NoPayload
    /\ spPut' = [spPut EXCEPT ![p] = IF g \in DOMAIN spGroups THEN "found"
                                     ELSE IF spCount >= SpMaxGroups THEN "refused" ELSE "checked"]
    /\ spLock' = [spLock EXCEPT ![SpShardOf[g]] = IF spPut'[p] = "refused" THEN NoPayload ELSE p]
    /\ spRef' = [spRef EXCEPT ![p] = IF g \in DOMAIN spGroups THEN spGroups[g] ELSE 0]
    /\ UNCHANGED <<spGroups, spWindows, spCount, spFrames>>

MakeGroup(p) ==
    /\ spPut[p] = "checked"
    /\ spWindows' = Append(spWindows, <<>>)
    /\ spGroups' = With(spGroups, SpGroupOf[p], Len(spWindows')) /\ spCount' = spCount + 1
    /\ spPut' = [spPut EXCEPT ![p] = "found"] /\ spRef' = [spRef EXCEPT ![p] = Len(spWindows')]
    /\ UNCHANGED <<spLock, spFrames>>

\* The rest of Offer: into the window unless it is full.
PutInWindow(p) ==
    /\ spPut[p] = "found"
    /\ LET w == spRef[p]  full == Len(spWindows[w]) >= SpMaxPerGroup IN
       /\ spWindows' = IF full THEN spWindows ELSE [spWindows EXCEPT ![w] = Append(@, p)]
       /\ spPut' = [spPut EXCEPT ![p] = IF full THEN "refused" ELSE "in"]
    /\ spLock' = [spLock EXCEPT ![SpShardOf[SpGroupOf[p]]] = IF @ = p THEN NoPayload ELSE @]
    /\ UNCHANGED <<spGroups, spRef, spCount, spFrames>>

\* joinJSONPayloads: the frame is the payloads in their order.
joinJSONPayloads(w) == spWindows[w]

\* Flush of one shard: a frame for every window that holds something; an empty
\* one goes, with its group.
Flush(s) ==
    LET full == {g \in InShard(spGroups, s) : spWindows[spGroups[g]] # <<>>} IN
    /\ spLock[s] = NoPayload
    /\ spFrames' = spFrames \o SetToSeq({<<g, joinJSONPayloads(spGroups[g])>> : g \in full})
    /\ spWindows' = [w \in DOMAIN spWindows |-> IF \E g \in full : spGroups[g] = w THEN <<>> ELSE spWindows[w]]
    /\ spGroups' = Without(spGroups, InShard(spGroups, s) \ full)
    /\ spCount' = spCount - Cardinality(InShard(spGroups, s) \ full)
    /\ UNCHANGED <<spLock, spPut, spRef>>

AgNext == (\E p \in SpPayloads : LookGroup(p) \/ MakeGroup(p) \/ PutInWindow(p)) \/ (\E s \in 1..SpShards : Flush(s))

-----------------------------------------------------------------------------
(* The token bucket (GCRA).                                                *)

NewShaper == spNow = 0 /\ spTat = 0 /\ spCall = [c \in SpCallers |-> <<"new", 0, 0>>]

TimePasses == spNow < SpTime /\ spNow' = spNow + 1 /\ UNCHANGED <<spTat, spCall>>

\* Allow reads the clock once, and tat.
ReadTat(c) ==
    /\ \/ spCall[c][1] = "new" /\ spCall' = [spCall EXCEPT ![c] = <<"read", spNow, spTat>>]
       \/ spCall[c][1] = "retry" /\ spCall' = [spCall EXCEPT ![c] = <<"read", @[2], spTat>>]
    /\ UNCHANGED <<spNow, spTat>>

NewTat(now, tat) == (IF tat < now THEN now ELSE tat) + SpInterval

Allow_Stores(c) ==
    LET now == spCall[c][2]  tat == spCall[c][3] IN
    /\ spCall[c][1] = "read"
    /\ IF now + SpBurst < tat
       THEN spCall' = [spCall EXCEPT ![c][1] = "denied"] /\ UNCHANGED spTat
       ELSE spCall' = [spCall EXCEPT ![c][1] = "allowed"] /\ spTat' = NewTat(now, tat)
    /\ UNCHANGED spNow

\* The verdict, and the compare-and-swap, which is tried again when tat moved.
Allow(c) ==
    LET now == spCall[c][2]  tat == spCall[c][3] IN
    /\ spCall[c][1] = "read"
    /\ IF now + SpBurst < tat
       THEN spCall' = [spCall EXCEPT ![c][1] = "denied"] /\ UNCHANGED spTat
       ELSE IF spTat = tat
       THEN spCall' = [spCall EXCEPT ![c][1] = "allowed"] /\ spTat' = NewTat(now, tat)
       ELSE spCall' = [spCall EXCEPT ![c][1] = "retry"] /\ UNCHANGED spTat
    /\ UNCHANGED spNow

TbNext == TimePasses \/ \E c \in SpCallers : ReadTat(c) \/ Allow(c)

-----------------------------------------------------------------------------
(* The batch sender.                                                       *)

NewBatchSender ==
    /\ spQueue = <<>> /\ spExec = NoCopy /\ spSent = <<>> /\ spResults = {} /\ spReturned = <<>> /\ spToAdd = SpAdded

\* AddMessage, and AddMessages and AddUserMessages for several.
AddMessage(u, m) ==
    /\ <<u, m>> \in spToAdd /\ spToAdd' = spToAdd \ {<<u, m>>}
    /\ spQueue' = With(spQueue, u, (IF u \in DOMAIN spQueue THEN spQueue[u] ELSE <<>>) \o <<m>>)
    /\ UNCHANGED <<spExec, spSent, spResults, spReturned>>

Clear ==
    /\ spQueue # <<>> /\ spQueue' = <<>>
    /\ UNCHANGED <<spExec, spSent, spResults, spReturned, spToAdd>>

Total(copy) == MapThenSumSet(LAMBDA u : Len(copy[u]), DOMAIN copy)

\* Execute copies what is queued, and a goroutine per user begins.  What is
\* queued stays queued.
Execute ==
    /\ spExec = NoCopy /\ Len(spReturned) < SpRuns
    /\ IF Total(spQueue) = 0
       THEN spReturned' = Append(spReturned, [total |-> 0, ok |-> 0, failed |-> 0, users |-> {}]) /\ UNCHANGED <<spExec, spSent, spResults>>
       ELSE /\ spExec' = spQueue /\ spSent' = [u \in DOMAIN spQueue |-> <<>>] /\ spResults' = {}
            /\ UNCHANGED spReturned
    /\ UNCHANGED <<spQueue, spToAdd>>

\* One message after the other; at the end the result of the user is stored.
sendUserMessages(u) ==
    /\ u \in DOMAIN spExec /\ u \notin spResults
    /\ IF Len(spSent[u]) < Len(spExec[u])
       THEN (\E r \in {"ok", "failed"} : spSent' = [spSent EXCEPT ![u] = Append(@, r)]) /\ UNCHANGED spResults
       ELSE spResults' = spResults \cup {u} /\ UNCHANGED spSent
    /\ UNCHANGED <<spQueue, spExec, spReturned, spToAdd>>

Tally(r) == MapThenSumSet(LAMBDA u : Cardinality({i \in DOMAIN spSent[u] : spSent[u][i] = r}), DOMAIN spSent)

ReturnResult_AtOnce ==
    /\ spExec # NoCopy /\ spExec' = NoCopy
    /\ spReturned' = Append(spReturned, [total |-> Total(spExec), ok |-> Tally("ok"), failed |-> Tally("failed"), users |-> spResults])
    /\ UNCHANGED <<spQueue, spSent, spResults, spToAdd>>

\* wg.Wait, and the result.
ReturnResult ==
    /\ spExec # NoCopy /\ spResults = DOMAIN spExec /\ spExec' = NoCopy
    /\ spReturned' = Append(spReturned, [total |-> Total(spExec), ok |-> Tally("ok"), failed |-> Tally("failed"), users |-> spResults])
    /\ UNCHANGED <<spQueue, spSent, spResults, spToAdd>>

BsNext == (\E a \in SpAdded : AddMessage(a[1], a[2])) \/ Clear \/ Execute \/ (\E u \in DOMAIN spExec : sendUserMessages(u)) \/ ReturnResult

-----------------------------------------------------------------------------
(* Properties.                                                             *)

Occurs(seq, x) == Cardinality({i \in DOMAIN seq : seq[i] = x})

\* The latest wins, and the size does not drift: the last message accepted for a
\* key is in its slot, taken by the drain under way, or delivered after any other
\* of the key, and never twice; and the size is what the slots hold up to the
\* Offers and the Drain that have not counted yet (Offer counts after its unlock,
\* Drain at its end).
LatestIsKept ==
    /\ spSize = Cardinality(DOMAIN spSlots) - Cardinality({m \in SpMessages : spOffer[m] = "added"}) + Cardinality(spDrained)
    /\ \A m \in SpMessages : Occurs(spOut, m) + (IF m \in spDrained THEN 1 ELSE 0) <= 1
    /\ \A k \in DOMAIN spLast :
          \/ k \in DOMAIN spSlots /\ spSlots[k] = spLast[k]
          \/ spLast[k] \in spDrained
          \/ LET of == SelectSeq(spOut, LAMBDA m : SpKeyOf[m] = k) IN of # <<>> /\ Last(of) = spLast[k]

\* A payload that was taken into a window is in the window of its group or in one
\* frame of its group, never in a window that was dropped, and the count of groups
\* is right between two Offers: Offer keeps the lock of the shard from the lookup
\* to the append, so Flush cannot drop the window in between.
WindowKeepsAll ==
    /\ \A p \in SpPayloads : spPut[p] = "in" =>
          Cardinality({i \in DOMAIN spFrames : spFrames[i][1] = SpGroupOf[p] /\ p \in ToSet(spFrames[i][2])})
          + (IF SpGroupOf[p] \in DOMAIN spGroups /\ p \in ToSet(spWindows[spGroups[SpGroupOf[p]]]) THEN 1 ELSE 0) = 1
    /\ spCount = Cardinality(DOMAIN spGroups)

\* However many goroutines call Allow at once, what is allowed until now is what
\* the rate gives plus the burst: the tokens fit between the start and the
\* furthest tat that the burst lets through.
RateIsKept == Cardinality({c \in SpCallers : spCall[c][1] = "allowed"}) * SpInterval <= spNow + SpBurst + SpInterval

\* Execute returns when every message of its copy was tried, each counted once as
\* sent or as failed, with the result of every user, whatever is added or cleared
\* meanwhile.
BatchAddsUp == \A i \in DOMAIN spReturned : LET r == spReturned[i] IN r.total = r.ok + r.failed /\ (r.total = 0 <=> r.users = {})

\* Nothing that is delayed, merged or limited on its way is lost or counted
\* twice: the newest message of a key, the payloads of a window, the tokens of
\* the rate and the results of a batch.
ShapingIsExact == LatestIsKept /\ WindowKeepsAll /\ RateIsKept /\ BatchAddsUp
=============================================================================
