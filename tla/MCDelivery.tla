----------------------------- MODULE MCDelivery -----------------------------
(* A message inside one node: the peek at its frame, its way to the        *)
(* devices, the shaping of frequent messages, the frames a connection      *)
(* counts, and the rows kept of it.  A behaviour is one of a single part;  *)
(* the others keep an initial state.                                       *)
EXTENDS PendingWrites, LocalSend, JsonPeek, Shaping, ConnectionRows, TLC

VARIABLE part

\* No step tells one sender or one connection from another.
deliverySymmetry == Permutations(Senders) \cup Permutations(CrConns)

\* The sender has two devices, the receiver one and an SSE subscription.  A window
\* message meets one other message of any kind.
DeviceUsers == [d \in {"a1", "a2", "b1", "b2"} |-> IF d \in {"a1", "a2"} THEN "sender" ELSE "receiver"]
FrameKinds == [m \in {"m1", "m2"} |-> IF m = "m1" THEN {"window"} ELSE {"ping", "text", "binary", "typing", "stray"}]

\* Strings may hold an escaped quote or an escaped backslash.
PeekKeys == {<<"k">>, <<"v">>, <<"b", "q">>}
PeekTexts == PeekKeys \cup {<<"b", "b">>}

\* Two of the messages have one key, two keys share a shard; the same for payloads.
ShapedKey == [m1 |-> "k1", m2 |-> "k1", m3 |-> "k2", m4 |-> "k3"]
ShapedShard == [k1 |-> 1, k2 |-> 2, k3 |-> 2, g1 |-> 1, g2 |-> 2]
ShapedGroup == [p1 |-> "g1", p2 |-> "g1", p3 |-> "g2", p4 |-> "g1"]
BatchAdded == {<<"u", "x">>, <<"u", "y">>, <<"v", "z">>}

\* Two sessions with a message, one with two messages, one with heartbeats and
\* errors, one that a cleanup and a fault meet.
RowBudget(s, b, m, e, c, f) == [sessions |-> s, beats |-> b, msgs |-> m, errors |-> e, cleanups |-> c, faults |-> f]
RowBudgets == {RowBudget(2, 0, 1, 0, 0, 0), RowBudget(1, 0, 2, 0, 0, 0),
               RowBudget(1, 1, 1, 1, 0, 0), RowBudget(1, 0, 1, 0, 1, 1)}

shapingVars == <<spCoVars, spAgVars, spTbVars, spBsVars>>
deliveryVars == <<part, vars, lsVars, jpVars, shapingVars, crVars>>

FirstKinds == [m \in LsMessages |-> CHOOSE k \in LsKinds[m] : TRUE]

DeliveryInit ==
    /\ part \in {"writes", "local", "peek", "coalescer", "aggregator", "bucket", "batch", "rows"}
    /\ Init /\ LsInit /\ (part # "local" => lsKind = FirstKinds) /\ JpInit
    /\ NewCoalescer /\ NewMessageAggregator /\ NewShaper /\ NewBatchSender
    /\ CrInit /\ (part # "rows" => crLeft = CHOOSE b \in CrBudgets : TRUE)

DeliveryNext ==
    \/ part = "writes" /\ Next /\ UNCHANGED <<part, lsVars, jpVars, shapingVars, crVars>>
    \/ part = "local" /\ LsNext /\ UNCHANGED <<part, vars, jpVars, shapingVars, crVars>>
    \/ part = "peek" /\ JpNext /\ UNCHANGED <<part, vars, lsVars, shapingVars, crVars>>
    \/ part = "coalescer" /\ CoNext /\ UNCHANGED <<part, vars, lsVars, jpVars, spAgVars, spTbVars, spBsVars, crVars>>
    \/ part = "aggregator" /\ AgNext /\ UNCHANGED <<part, vars, lsVars, jpVars, spCoVars, spTbVars, spBsVars, crVars>>
    \/ part = "bucket" /\ TbNext /\ UNCHANGED <<part, vars, lsVars, jpVars, spCoVars, spAgVars, spBsVars, crVars>>
    \/ part = "batch" /\ BsNext /\ UNCHANGED <<part, vars, lsVars, jpVars, spCoVars, spAgVars, spTbVars, crVars>>
    \/ part = "rows" /\ CrNext /\ UNCHANGED <<part, vars, lsVars, jpVars, shapingVars>>

DeliverySpec == DeliveryInit /\ [][DeliveryNext]_deliveryVars
=============================================================================
