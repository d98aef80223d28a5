----------------------- MODULE PendingWrites_proofs -----------------------
(***************************************************************************)
(* Proofs about PendingWrites, for every finite set of connections and of  *)
(* senders, and every capacity and batch size.                             *)
(***************************************************************************)
EXTENDS PendingWrites, FiniteSetTheorems, TLAPS

\* Inside, for given values of snd and tgt.
At(f, g, c, P) == {s \in Senders : g[s] = c /\ f[s] \in P}

(* The senders at given points of TrySend are finitely many. *)
LEMMA AtFinite ==
    ASSUME NEW f, NEW g, NEW c, NEW P
    PROVE  IsFiniteSet(At(f, g, c, P)) /\ Cardinality(At(f, g, c, P)) \in Nat
  <1>1. At(f, g, c, P) \subseteq Senders
    BY DEF At
  <1> QED
    BY <1>1, SendersFinite, FS_Subset, FS_CardinalityType

(* A sender that reaches one of the points P from outside adds one; one    *)
(* that leaves P takes one away, and was one of them; one that stays on    *)
(* its side of P, or works for another connection, changes nothing.        *)
LEMMA AtMoves ==
    ASSUME NEW f, NEW h, NEW g, NEW c, NEW P, NEW s \in Senders,
           \A x \in Senders \ {s} : h[x] = f[x]
    PROVE  /\ g[s] = c /\ f[s] \notin P /\ h[s] \in P
                => Cardinality(At(h, g, c, P)) = Cardinality(At(f, g, c, P)) + 1
           /\ g[s] = c /\ f[s] \in P /\ h[s] \notin P
                => /\ Cardinality(At(h, g, c, P)) = Cardinality(At(f, g, c, P)) - 1
                   /\ Cardinality(At(f, g, c, P)) > 0
           /\ g[s] # c \/ (f[s] \in P <=> h[s] \in P)
                => Cardinality(At(h, g, c, P)) = Cardinality(At(f, g, c, P))
  <1> DEFINE A == At(f, g, c, P)
             B == At(h, g, c, P)
  <1>1. IsFiniteSet(A) /\ Cardinality(A) \in Nat /\ Cardinality(B) \in Nat
    BY AtFinite, Zenon
  <1>2. ASSUME g[s] = c, f[s] \notin P, h[s] \in P PROVE Cardinality(B) = Cardinality(A) + 1
    <2>1. B = A \cup {s} /\ s \notin A
      BY <1>2 DEF At
    <2> HIDE DEF A, B
    <2> QED
      BY <1>1, <2>1, FS_AddElement, Zenon
  <1>3. ASSUME g[s] = c, f[s] \in P, h[s] \notin P
        PROVE  Cardinality(B) = Cardinality(A) - 1 /\ Cardinality(A) > 0
    <2>1. B = A \ {s} /\ s \in A
      BY <1>3 DEF At
    <2> HIDE DEF A, B
    <2>2. Cardinality(B) = Cardinality(A) - 1
      BY <1>1, <2>1, FS_RemoveElement, Zenon
    <2> QED
      BY <1>1, <2>2
  <1>4. ASSUME g[s] # c \/ (f[s] \in P <=> h[s] \in P) PROVE A = B
    BY <1>4, Zenon DEF At
  <1> HIDE DEF A, B
  <1>5. /\ g[s] = c /\ f[s] \notin P /\ h[s] \in P => Cardinality(B) = Cardinality(A) + 1
        /\ g[s] = c /\ f[s] \in P /\ h[s] \notin P
             => Cardinality(B) = Cardinality(A) - 1 /\ Cardinality(A) > 0
        /\ g[s] # c \/ (f[s] \in P <=> h[s] \in P) => Cardinality(B) = Cardinality(A)
    BY <1>2, <1>3, <1>4, Zenon
  <1> QED
    BY <1>5, Zenon DEF A, B

-----------------------------------------------------------------------------
(* Every step of every goroutine keeps the types.                           *)
LEMMA TypeStep == TypeOK /\ [Next]_vars => TypeOK'
  <1> SUFFICES ASSUME TypeOK, [Next]_vars PROVE TypeOK'
    OBVIOUS
  <1> USE BoundsAssumption DEF SendPC, PumpPC, EvictPC, ClosePC
  <1>1. ASSUME NEW s \in Senders, NEW c \in Clients, TrySendEnter(s, c) PROVE TypeOK'
    BY <1>1, Zenon DEF TypeOK, TrySendEnter, pumpVars, scanVars, closeVars
  <1>2. ASSUME NEW s \in Senders, TrySendReserve(s) PROVE TypeOK'
    BY <1>2 DEF TypeOK, TrySendReserve, pumpVars, scanVars, closeVars
  <1>3. ASSUME NEW s \in Senders, TrySendReserveHub(s) PROVE TypeOK'
    BY <1>3 DEF TypeOK, TrySendReserveHub, pumpVars, scanVars, closeVars
  <1>4. ASSUME NEW s \in Senders, TrySendRecheck(s) PROVE TypeOK'
    BY <1>4, Zenon DEF TypeOK, TrySendRecheck, pumpVars, scanVars, closeVars
  <1>5. ASSUME NEW s \in Senders, TrySendEnqueue(s) PROVE TypeOK'
    BY <1>5 DEF TypeOK, TrySendEnqueue, pumpVars, scanVars, closeVars
  <1>6. ASSUME NEW s \in Senders, TrySendRollback(s) PROVE TypeOK'
    BY <1>6 DEF TypeOK, TrySendRollback, Settle, Take, pumpVars, scanVars, closeVars
  <1>7. ASSUME NEW s \in Senders, TrySendRollbackHub(s) PROVE TypeOK'
    BY <1>7 DEF TypeOK, TrySendRollbackHub, pumpVars, scanVars, closeVars
  <1>8. ASSUME NEW c \in Clients, PumpTake(c) PROVE TypeOK'
    BY <1>8 DEF TypeOK, PumpTake, sendVars, scanVars, closeVars
  <1>9. ASSUME NEW c \in Clients, PumpWriteFirst(c) PROVE TypeOK'
    BY <1>9 DEF TypeOK, PumpWriteFirst, sendVars, scanVars, closeVars
  <1>10. ASSUME NEW c \in Clients, PumpDrain(c) PROVE TypeOK'
    BY <1>10 DEF TypeOK, PumpDrain, sendVars, scanVars, closeVars
  <1>11. ASSUME NEW c \in Clients, PumpWriteBatch(c) PROVE TypeOK'
    BY <1>11 DEF TypeOK, PumpWriteBatch, sendVars, scanVars, closeVars
  <1>12. ASSUME NEW c \in Clients, PumpSettle(c) PROVE TypeOK'
    BY <1>12 DEF TypeOK, PumpSettle, Settle, Take, sendVars, scanVars, closeVars
  <1>13. ASSUME NEW c \in Clients, PumpSettleHub(c) PROVE TypeOK'
    BY <1>13 DEF TypeOK, PumpSettleHub, sendVars, scanVars, closeVars
  <1>14. ASSUME NEW c \in Clients, PumpExit(c) PROVE TypeOK'
    BY <1>14, Zenon DEF TypeOK, PumpExit, sendVars, scanVars, closeVars
  <1>15. ASSUME NEW c \in Clients, Scan(c) PROVE TypeOK'
    BY <1>15 DEF TypeOK, Scan, sendVars, pumpVars, closeVars
  <1>16. ASSUME NEW c \in Clients, EvictDrain(c) PROVE TypeOK'
    BY <1>16 DEF TypeOK, EvictDrain, sendVars, pumpVars, closeVars
  <1>17. ASSUME NEW c \in Clients, EvictSettle(c) PROVE TypeOK'
    BY <1>17 DEF TypeOK, EvictSettle, Settle, Take, sendVars, pumpVars, closeVars
  <1>18. ASSUME NEW c \in Clients, EvictSettleHub(c) PROVE TypeOK'
    BY <1>18 DEF TypeOK, EvictSettleHub, sendVars, pumpVars, closeVars
  <1>19. ASSUME NEW c \in Clients, Unregister(c) PROVE TypeOK'
    BY <1>19, Zenon DEF TypeOK, Unregister, sendVars, pumpVars, scanVars, closeVars
  <1>20. ASSUME NEW c \in Clients, MarkClosedStore(c) PROVE TypeOK'
    BY <1>20, Zenon DEF TypeOK, MarkClosedStore, sendVars, pumpVars, scanVars
  <1>21. ASSUME NEW c \in Clients, MarkClosedLoad(c) PROVE TypeOK'
    BY <1>21, Zenon DEF TypeOK, MarkClosedLoad, sendVars, pumpVars, scanVars
  <1>22. ASSUME NEW c \in Clients, MarkClosedSettle(c) PROVE TypeOK'
    BY <1>22 DEF TypeOK, MarkClosedSettle, Settle, Take, sendVars, pumpVars, scanVars
  <1>23. ASSUME NEW c \in Clients, MarkClosedSettleHub(c) PROVE TypeOK'
    BY <1>23 DEF TypeOK, MarkClosedSettleHub, sendVars, pumpVars, scanVars
  <1>24. CASE HubStop
    BY <1>24, Zenon DEF TypeOK, HubStop, sendVars, pumpVars, scanVars, closeVars
  <1>25. CASE UNCHANGED vars
    BY <1>25, Zenon DEF TypeOK, vars, sendVars, pumpVars, scanVars, closeVars
  <1> QED
    BY <1>1, <1>2, <1>3, <1>4, <1>5, <1>6, <1>7, <1>8, <1>9, <1>10, <1>11, <1>12, <1>13, <1>14,
       <1>15, <1>16, <1>17, <1>18, <1>19, <1>20, <1>21, <1>22, <1>23, <1>24, <1>25, Zenon DEF
       Next, TrySendStep, PumpStep, EvictStep, CloseStep

(* A freshly registered set of connections has the right types.            *)
LEMMA InitType == Init => TypeOK
  <1>1. 0 \in 0 .. ChanCap /\ 0 \in 0 .. BatchSize /\ 0 \in 0 .. SlowLimit
    BY BoundsAssumption
  <1> SUFFICES ASSUME Init PROVE TypeOK
    OBVIOUS
  <1>2. /\ hub \in Int /\ pend \in [Clients -> Nat] /\ qlen \in [Clients -> 0 .. ChanCap]
        /\ closed \in [Clients -> BOOLEAN] /\ unreg \in [Clients -> BOOLEAN]
    BY <1>1 DEF Init
  <1>3. hubDone \in BOOLEAN
    BY Zenon DEF Init
  <1>4. snd \in [Senders -> SendPC] /\ tgt \in [Senders -> Clients]
    BY Zenon DEF Init, SendPC
  <1>5. /\ pump \in [Clients -> PumpPC] /\ batch \in [Clients -> 0 .. BatchSize]
        /\ failed \in [Clients -> BOOLEAN] /\ slow \in [Clients -> BOOLEAN]
    BY <1>1, Zenon DEF Init, PumpPC
  <1>6. /\ strikes \in [Clients -> 0 .. SlowLimit] /\ evict \in [Clients -> EvictPC]
        /\ salvaged \in [Clients -> Nat]
    BY <1>1, Zenon DEF Init, EvictPC
  <1>7. closer \in [Clients -> ClosePC] /\ closeN \in [Clients -> Nat]
    BY Zenon DEF Init, ClosePC
  <1> QED
    BY <1>2, <1>3, <1>4, <1>5, <1>6, <1>7, Zenon DEF TypeOK

(* Every variable keeps its type: pendingWrites in particular is never     *)
(* negative, however its reservations and settlements interleave.          *)
THEOREM TypeCorrect == Spec => []TypeOK
  BY InitType, TypeStep, PTL DEF Spec

-----------------------------------------------------------------------------
(* Accounting, one connection at a time, over the two counts of senders.   *)
R(c) == Cardinality(At(snd, tgt, c, Reserved))
U(c) == Cardinality(At(snd, tgt, c, Unpublished))

Balanced(c) ==
    /\ pump[c] \in {"idle", "exited"} => batch[c] = 0
    /\ pump[c] \in {"first", "drain", "settle"} => batch[c] > 0
    /\ evict[c] = "idle" => salvaged[c] = 0
    /\ closed[c] <=> closer[c] # "open"
    /\ closer[c] \in {"open", "load"} =>
          pend[c] = qlen[c] + PumpOwes(c) + EvictOwes(c) + R(c)
    /\ closer[c] \notin {"open", "load"} =>
          pend[c] <= CloseOwes(c) + PumpOwes(c) + EvictOwes(c) + U(c)

(* Accounting is the balance of every connection.                          *)
LEMMA AccountingIsBalance == Accounting <=> TypeOK /\ \A c \in Clients : Balanced(c)
  BY Zenon DEF Accounting, AtRest, PendingIsExact, NoUnitAbandoned, Balanced, R, U, Inside, At

(* Both counts are natural numbers, whatever the connection.               *)
LEMMA CountsAreNat ==
    ASSUME NEW c
    PROVE  R(c) \in Nat /\ U(c) \in Nat
  BY AtFinite DEF R, U

(* The steps of the pump, the scanner and the close for one connection.    *)
Worked(c) == PumpStep(c) \/ Scan(c) \/ EvictStep(c) \/ Unregister(c) \/ CloseStep(c)

(* Steps of the pump, the scanner and the close leave the senders alone,   *)
(* so they only need the arithmetic of their own connection.               *)
LEMMA WorkerStep ==
    ASSUME TypeOK, TypeOK', UNCHANGED sendVars,
           NEW c \in Clients, Balanced(c), Worked(c)
    PROVE  Balanced(c)'
  <1>1. R(c)' = R(c) /\ U(c)' = U(c)
    BY DEF R, U, sendVars
  <1>2. R(c) \in Nat /\ U(c) \in Nat
    BY CountsAreNat
  <1> USE DEF Balanced, TypeOK, PumpOwes, EvictOwes, CloseOwes, pumpVars, scanVars, closeVars
  <1>3. CASE PumpTake(c)
    BY <1>1, <1>2, <1>3, SMTT(30) DEF PumpTake
  <1>4. CASE PumpWriteFirst(c)
    BY <1>1, <1>2, <1>4, SMTT(30) DEF PumpWriteFirst
  <1>5. CASE PumpDrain(c)
    BY <1>1, <1>2, <1>5 DEF PumpDrain
  <1>6. CASE PumpWriteBatch(c)
    BY <1>1, <1>2, <1>6, SMTT(30) DEF PumpWriteBatch
  <1>7. CASE PumpSettle(c)
    BY <1>1, <1>2, <1>7, SMTT(30) DEF PumpSettle, Settle, Take
  <1>8. CASE PumpSettleHub(c)
    BY <1>1, <1>2, <1>8, SMTT(30) DEF PumpSettleHub
  <1>9. CASE PumpExit(c)
    BY <1>1, <1>2, <1>9, Zenon DEF PumpExit
  <1>10. CASE Scan(c)
    BY <1>1, <1>2, <1>10, Zenon DEF Scan
  <1>11. CASE EvictDrain(c)
    BY <1>1, <1>2, <1>11, SMTT(30) DEF EvictDrain
  <1>12. CASE EvictSettle(c)
    BY <1>1, <1>2, <1>12, SMTT(30) DEF EvictSettle, Settle, Take
  <1>13. CASE EvictSettleHub(c)
    BY <1>1, <1>2, <1>13, Zenon DEF EvictSettleHub
  <1>14. CASE Unregister(c)
    BY <1>1, <1>2, <1>14, Zenon DEF Unregister
  <1>15. CASE MarkClosedStore(c)
    BY <1>1, <1>2, <1>15, Zenon DEF MarkClosedStore
  <1>16. CASE MarkClosedLoad(c)
    BY <1>1, <1>2, <1>16, SMTT(30) DEF MarkClosedLoad
  <1>17. CASE MarkClosedSettle(c)
    BY <1>1, <1>2, <1>17, SMTT(30) DEF MarkClosedSettle, Settle, Take
  <1>18. CASE MarkClosedSettleHub(c)
    BY <1>1, <1>2, <1>18, Zenon DEF MarkClosedSettleHub
  <1> QED
    BY Zenon, <1>3, <1>4, <1>5, <1>6, <1>7, <1>8, <1>9, <1>10, <1>11, <1>12, <1>13, <1>14,
       <1>15, <1>16, <1>17, <1>18 DEF Worked, PumpStep, EvictStep, CloseStep

(* What a connection's balance depends on, besides the senders. *)
Books(c) ==
    <<pend[c], qlen[c], pump[c], batch[c], evict[c], salvaged[c], closer[c], closeN[c], closed[c]>>

(* A step that touches neither leaves the connection balanced.             *)
LEMMA UntouchedStaysBalanced ==
    ASSUME NEW c \in Clients, Balanced(c), Books(c)' = Books(c), R(c)' = R(c), U(c)' = U(c)
    PROVE  Balanced(c)'
  BY Zenon DEF Balanced, Books, PumpOwes, EvictOwes, CloseOwes

(* A step of TrySend moves one sender; only its connection is concerned.   *)
LEMMA SenderMoves ==
    ASSUME NEW s \in Senders, NEW c,
           \A x \in Senders \ {s} : snd'[x] = snd[x], UNCHANGED tgt
    PROVE  /\ tgt[s] # c \/ (snd[s] \in Reserved <=> snd'[s] \in Reserved) => R(c)' = R(c)
           /\ tgt[s] # c \/ (snd[s] \in Unpublished <=> snd'[s] \in Unpublished) => U(c)' = U(c)
           /\ tgt[s] = c /\ snd[s] \notin Reserved /\ snd'[s] \in Reserved => R(c)' = R(c) + 1
           /\ tgt[s] = c /\ snd[s] \notin Unpublished /\ snd'[s] \in Unpublished => U(c)' = U(c) + 1
           /\ tgt[s] = c /\ snd[s] \in Reserved /\ snd'[s] \notin Reserved
                => R(c)' = R(c) - 1 /\ R(c) > 0
           /\ tgt[s] = c /\ snd[s] \in Unpublished /\ snd'[s] \notin Unpublished
                => U(c)' = U(c) - 1 /\ U(c) > 0
  <1>1. /\ R(c)' = Cardinality(At(snd', tgt, c, Reserved))
        /\ U(c)' = Cardinality(At(snd', tgt, c, Unpublished))
    BY DEF R, U
  <1>2. tgt[s] # c \/ (snd[s] \in Reserved <=> snd'[s] \in Reserved) => R(c)' = R(c)
    BY <1>1, AtMoves DEF R
  <1>3. tgt[s] # c \/ (snd[s] \in Unpublished <=> snd'[s] \in Unpublished) => U(c)' = U(c)
    BY <1>1, AtMoves DEF U
  <1>4. tgt[s] = c /\ snd[s] \notin Reserved /\ snd'[s] \in Reserved => R(c)' = R(c) + 1
    BY <1>1, AtMoves DEF R
  <1>5. tgt[s] = c /\ snd[s] \notin Unpublished /\ snd'[s] \in Unpublished => U(c)' = U(c) + 1
    BY <1>1, AtMoves DEF U
  <1>6. tgt[s] = c /\ snd[s] \in Reserved /\ snd'[s] \notin Reserved => R(c)' = R(c) - 1 /\ R(c) > 0
    BY <1>1, AtMoves DEF R
  <1>7. tgt[s] = c /\ snd[s] \in Unpublished /\ snd'[s] \notin Unpublished
          => U(c)' = U(c) - 1 /\ U(c) > 0
    BY <1>1, AtMoves DEF U
  <1> QED
    BY <1>2, <1>3, <1>4, <1>5, <1>6, <1>7, Zenon

(* What a step of TrySend must show of its connection: the three other     *)
(* parties stand still, so only the counter, the channel and the two       *)
(* counts of senders move.                                                 *)
LEMMA SenderBooks ==
    ASSUME TypeOK, NEW c \in Clients, Balanced(c), UNCHANGED <<pumpVars, scanVars, closeVars>>,
           R(c) \in Nat, U(c) \in Nat, R(c)' \in Nat, U(c)' \in Nat,
           pend[c] \in Nat, qlen[c] \in Nat, pend'[c] \in Nat, qlen'[c] \in Nat,
           closer[c] \in {"open", "load"} =>
               pend'[c] - qlen'[c] - R(c)' = pend[c] - qlen[c] - R(c),
           closer[c] \notin {"open", "load"} =>
               pend'[c] - U(c)' <= pend[c] - U(c) \/ pend'[c] = 0
    PROVE  Balanced(c)'
  <1>1. PumpOwes(c) \in Nat /\ EvictOwes(c) \in Nat /\ CloseOwes(c) \in Nat
    BY BoundsAssumption DEF TypeOK, PumpOwes, EvictOwes, CloseOwes
  <1>2. /\ PumpOwes(c)' = PumpOwes(c) /\ EvictOwes(c)' = EvictOwes(c)
        /\ CloseOwes(c)' = CloseOwes(c)
    BY Zenon DEF PumpOwes, EvictOwes, CloseOwes, pumpVars, scanVars, closeVars
  <1>3. closer'[c] = closer[c] /\ closed'[c] = closed[c] /\ pump'[c] = pump[c]
        /\ batch'[c] = batch[c] /\ evict'[c] = evict[c] /\ salvaged'[c] = salvaged[c]
    BY Zenon DEF pumpVars, scanVars, closeVars
  <1>4. closer[c] \in {"open", "load"} =>
          pend'[c] = qlen'[c] + PumpOwes(c)' + EvictOwes(c)' + R(c)'
    <2> SUFFICES ASSUME closer[c] \in {"open", "load"}
                 PROVE  pend'[c] = qlen'[c] + PumpOwes(c) + EvictOwes(c) + R(c)'
      BY <1>2, Zenon
    <2>1. pend[c] = qlen[c] + PumpOwes(c) + EvictOwes(c) + R(c)
      BY Zenon DEF Balanced
    <2>2. PICK p \in Nat, q \in Nat, r \in Nat, a \in Nat, b \in Nat, p2 \in Nat, q2 \in Nat, r2 \in Nat :
            /\ p = pend[c] /\ q = qlen[c] /\ r = R(c) /\ a = PumpOwes(c) /\ b = EvictOwes(c)
            /\ p2 = pend'[c] /\ q2 = qlen'[c] /\ r2 = R(c)'
      BY <1>1, Zenon
    <2>3. p = q + a + b + r /\ p2 - q2 - r2 = p - q - r
      BY <2>1, <2>2, Zenon
    <2>4. p2 = q2 + a + b + r2
      BY <2>3
    <2> QED
      BY <2>2, <2>4, Zenon
  <1>5. closer[c] \notin {"open", "load"} =>
          pend'[c] <= CloseOwes(c)' + PumpOwes(c)' + EvictOwes(c)' + U(c)'
    BY <1>1, <1>2 DEF Balanced
  <1> QED
    BY <1>3, <1>4, <1>5, Zenon DEF Balanced

(* It touches no other connection.                                         *)
LEMMA SenderKeepsOthers ==
    ASSUME TypeOK, NEW s \in Senders, TrySendStep(s), NEW c \in Clients, tgt[s] # c
    PROVE  Books(c)' = Books(c)
  <1>1. tgt[s] \in Clients
    BY Zenon DEF TypeOK
  <1> QED
    BY <1>1, Zenon DEF TypeOK, Books, TrySendStep, TrySendReserve, TrySendReserveHub,
       TrySendRecheck, TrySendEnqueue, TrySendRollback, TrySendRollbackHub, Settle, pumpVars,
       scanVars, closeVars

(* A sender that enters TrySend has reserved nothing yet.                  *)
LEMMA EnterKeepsPoints ==
    ASSUME TypeOK, NEW s \in Senders, NEW d \in Clients, TrySendEnter(s, d), NEW c,
           NEW P, "idle" \notin P, "add" \notin P
    PROVE  At(snd', tgt', c, P) = At(snd, tgt, c, P)
  <1>1. \A x \in Senders \ {s} : snd'[x] = snd[x] /\ tgt'[x] = tgt[x]
    BY Zenon DEF TypeOK, TrySendEnter
  <1>2. snd[s] = "idle" /\ snd'[s] = "add"
    BY Zenon DEF TypeOK, TrySendEnter
  <1> QED
    BY <1>1, <1>2 DEF At

(* A step inside TrySend keeps every connection balanced: its own by the    *)
(* arithmetic of the step, the others because it does not touch them.      *)
LEMMA SenderStep ==
    ASSUME TypeOK, TypeOK', NEW s \in Senders, TrySendStep(s),
           NEW c \in Clients, Balanced(c)
    PROVE  Balanced(c)'
  <1>1. R(c) \in Nat /\ U(c) \in Nat
    BY CountsAreNat
  <1>2. tgt[s] \in Clients /\ snd[s] \in SendPC
    BY Zenon DEF TypeOK
  <1>3. (\A x \in Senders \ {s} : snd'[x] = snd[x]) /\ tgt' = tgt
    BY Zenon DEF TypeOK, TrySendStep, TrySendReserve, TrySendReserveHub, TrySendRecheck,
       TrySendEnqueue, TrySendRollback, TrySendRollbackHub
  <1>4. ASSUME tgt[s] # c PROVE Balanced(c)'
    <2>1. Books(c)' = Books(c)
      BY <1>4, SenderKeepsOthers, Zenon
    <2>2. R(c)' = R(c) /\ U(c)' = U(c)
      BY <1>3, <1>4, SenderMoves, Zenon
    <2> QED
      BY <2>1, <2>2, UntouchedStaysBalanced
  <1>5. ASSUME tgt[s] = c
        PROVE  /\ TrySendReserve(s) => R(c)' = R(c) + 1 /\ U(c)' = U(c) + 1
               /\ TrySendReserveHub(s) => R(c)' = R(c) /\ U(c)' = U(c)
               /\ TrySendRecheck(s) => R(c)' = R(c) /\ (closed[c] => U(c)' = U(c))
               /\ TrySendEnqueue(s) /\ qlen[c] < ChanCap => R(c)' = R(c) - 1 /\ U(c)' = U(c)
               /\ TrySendEnqueue(s) /\ ~(qlen[c] < ChanCap) => R(c)' = R(c) /\ U(c)' = U(c) + 1
               /\ TrySendRollback(s)
                    => R(c)' = R(c) - 1 /\ R(c) > 0 /\ U(c)' = U(c) - 1 /\ U(c) > 0
               /\ TrySendRollbackHub(s) => R(c)' = R(c) /\ U(c)' = U(c)
    <2> USE DEF Reserved, Unpublished
    <2>0. snd \in [Senders -> SendPC]
      BY Zenon DEF TypeOK
    <2>1. ASSUME TrySendReserve(s) PROVE R(c)' = R(c) + 1 /\ U(c)' = U(c) + 1
      <3>1. snd[s] = "add" /\ snd'[s] = "hubAdd"
        BY <1>5, <2>0, <2>1 DEF TrySendReserve
      <3> QED  BY <1>3, <1>5, <3>1, SenderMoves, Zenon
    <2>2. ASSUME TrySendReserveHub(s) PROVE R(c)' = R(c) /\ U(c)' = U(c)
      <3>1. snd[s] = "hubAdd" /\ snd'[s] = "check"
        BY <1>5, <2>0, <2>2 DEF TrySendReserveHub
      <3> QED  BY <1>3, <1>5, <3>1, SenderMoves, Zenon
    <2>3. ASSUME TrySendRecheck(s) PROVE R(c)' = R(c) /\ (closed[c] => U(c)' = U(c))
      <3>1. snd[s] = "check" /\ snd'[s] = IF closed[c] THEN "settle" ELSE "enqueue"
        BY <1>5, <2>0, <2>3 DEF TrySendRecheck
      <3> QED  BY <1>3, <1>5, <3>1, SenderMoves, Zenon
    <2>4. ASSUME TrySendEnqueue(s) /\ qlen[c] < ChanCap PROVE R(c)' = R(c) - 1 /\ U(c)' = U(c)
      <3>1. snd[s] = "enqueue" /\ snd'[s] = "idle"
        BY <1>5, <2>0, <2>4, Zenon DEF TrySendEnqueue
      <3> QED  BY <1>3, <1>5, <3>1, SenderMoves, Zenon
    <2>5. ASSUME TrySendEnqueue(s) /\ ~(qlen[c] < ChanCap) PROVE R(c)' = R(c) /\ U(c)' = U(c) + 1
      <3>1. snd[s] = "enqueue" /\ snd'[s] = "settle"
        BY <1>5, <2>0, <2>5 DEF TrySendEnqueue
      <3> QED  BY <1>3, <1>5, <3>1, SenderMoves, Zenon
    <2>6. ASSUME TrySendRollback(s) PROVE R(c)' = R(c) - 1 /\ R(c) > 0 /\ U(c)' = U(c) - 1 /\ U(c) > 0
      <3>1. snd[s] = "settle" /\ snd'[s] \in {"idle", "hubSub"}
        BY <1>5, <2>0, <2>6 DEF TrySendRollback
      <3> QED  BY <1>3, <1>5, <3>1, SenderMoves, Zenon
    <2>7. ASSUME TrySendRollbackHub(s) PROVE R(c)' = R(c) /\ U(c)' = U(c)
      <3>1. snd[s] = "hubSub" /\ snd'[s] = "idle"
        BY <1>5, <2>0, <2>7 DEF TrySendRollbackHub
      <3> QED  BY <1>3, <1>5, <3>1, SenderMoves, Zenon
    <2> QED
      BY <2>1, <2>2, <2>3, <2>4, <2>5, <2>6, <2>7, Zenon
  <1>6. ASSUME tgt[s] = c PROVE Balanced(c)'
    <2>1. UNCHANGED <<pumpVars, scanVars, closeVars>>
      BY Zenon DEF TrySendStep, TrySendReserve, TrySendReserveHub, TrySendRecheck, TrySendEnqueue,
         TrySendRollback, TrySendRollbackHub
    <2>2. pend[c] \in Nat /\ qlen[c] \in Nat /\ pend'[c] \in Nat /\ qlen'[c] \in Nat
      BY BoundsAssumption DEF TypeOK
    <2>3. R(c)' \in Nat /\ U(c)' \in Nat
      BY AtFinite DEF R, U
    <2>4. closed[c] <=> closer[c] \notin {"open"}
      BY Zenon DEF Balanced
    <2> SUFFICES /\ closer[c] \in {"open", "load"} =>
                      pend'[c] - qlen'[c] - R(c)' = pend[c] - qlen[c] - R(c)
                 /\ closer[c] \notin {"open", "load"} =>
                      pend'[c] - U(c)' <= pend[c] - U(c) \/ pend'[c] = 0
      BY <1>1, <2>1, <2>2, <2>3, SenderBooks, Zenon
    <2>5. CASE TrySendReserve(s)
      <3>1. pend'[c] = pend[c] + 1 /\ qlen'[c] = qlen[c]
        BY <1>6, <2>5, Zenon DEF TrySendReserve, TypeOK
      <3>2. R(c)' = R(c) + 1 /\ U(c)' = U(c) + 1
        BY <1>5, <1>6, <2>5, Zenon
      <3> QED  BY <1>1, <2>2, <3>1, <3>2
    <2>6. CASE TrySendReserveHub(s)
      <3>1. pend'[c] = pend[c] /\ qlen'[c] = qlen[c]
        BY <2>6 DEF TrySendReserveHub
      <3>2. R(c)' = R(c) /\ U(c)' = U(c)
        BY <1>5, <1>6, <2>6, Zenon
      <3> QED  BY <1>1, <2>2, <3>1, <3>2
    <2>7. CASE TrySendRecheck(s)
      <3>1. pend'[c] = pend[c] /\ qlen'[c] = qlen[c]
        BY <2>7 DEF TrySendRecheck
      <3>2. R(c)' = R(c) /\ (closed[c] => U(c)' = U(c))
        BY <1>5, <1>6, <2>7, Zenon
      <3> QED  BY <1>1, <2>2, <2>4, <3>1, <3>2
    <2>8. CASE TrySendEnqueue(s) /\ qlen[c] < ChanCap
      <3>1. pend'[c] = pend[c] /\ qlen'[c] = qlen[c] + 1
        BY <1>6, <2>8, Zenon DEF TrySendEnqueue, TypeOK
      <3>2. R(c)' = R(c) - 1 /\ U(c)' = U(c)
        BY <1>5, <1>6, <2>8, Zenon
      <3> QED  BY <1>1, <2>2, <3>1, <3>2
    <2>9. CASE TrySendEnqueue(s) /\ ~(qlen[c] < ChanCap)
      <3>1. pend'[c] = pend[c] /\ qlen'[c] = qlen[c]
        BY <1>6, <2>9, Zenon DEF TrySendEnqueue, TypeOK
      <3>2. R(c)' = R(c) /\ U(c)' = U(c) + 1
        BY <1>5, <1>6, <2>9, Zenon
      <3> QED  BY <1>1, <2>2, <3>1, <3>2
    <2>10. CASE TrySendRollback(s)
      <3>1. pend'[c] = pend[c] - Take(c, 1) /\ qlen'[c] = qlen[c]
        BY <1>6, <2>10, Zenon DEF TrySendRollback, Settle, TypeOK
      <3>2. R(c)' = R(c) - 1 /\ R(c) > 0 /\ U(c)' = U(c) - 1
        BY <1>5, <1>6, <2>10, Zenon
      <3>3. closer[c] \in {"open", "load"} => pend[c] > 0
        <4>1. PumpOwes(c) \in Nat /\ EvictOwes(c) \in Nat
          BY BoundsAssumption DEF TypeOK, PumpOwes, EvictOwes
        <4> QED  BY <1>1, <2>2, <3>2, <4>1 DEF Balanced
      <3> QED  BY <1>1, <2>2, <3>1, <3>2, <3>3 DEF Take
    <2>11. CASE TrySendRollbackHub(s)
      <3>1. pend'[c] = pend[c] /\ qlen'[c] = qlen[c]
        BY <2>11 DEF TrySendRollbackHub
      <3>2. R(c)' = R(c) /\ U(c)' = U(c)
        BY <1>5, <1>6, <2>11, Zenon
      <3> QED  BY <1>1, <2>2, <3>1, <3>2
    <2> QED
      BY <2>5, <2>6, <2>7, <2>8, <2>9, <2>10, <2>11, Zenon DEF TrySendStep
  <1> QED
    BY <1>4, <1>6

(* They touch no sender ...                                                *)
LEMMA WorkerKeepsSenders ==
    ASSUME NEW d \in Clients, Worked(d)
    PROVE  UNCHANGED sendVars
  BY Zenon DEF Worked, PumpStep, EvictStep, CloseStep, PumpTake, PumpWriteFirst, PumpDrain,
     PumpWriteBatch, PumpSettle, PumpSettleHub, PumpExit, Scan, EvictDrain, EvictSettle,
     EvictSettleHub, Unregister, MarkClosedStore, MarkClosedLoad, MarkClosedSettle,
     MarkClosedSettleHub

(* ... and no other connection.                                            *)
LEMMA WorkerKeepsOthers ==
    ASSUME TypeOK, NEW c \in Clients, NEW d \in Clients, c # d, Worked(d)
    PROVE  Books(c)' = Books(c)
  BY ZenonT(60) DEF Worked, TypeOK, Books, Settle, pumpVars, scanVars, closeVars,
     PumpStep, EvictStep, CloseStep, PumpTake, PumpWriteFirst, PumpDrain,
     PumpWriteBatch, PumpSettle, PumpSettleHub, PumpExit, Scan, EvictDrain, EvictSettle,
     EvictSettleHub, Unregister, MarkClosedStore, MarkClosedLoad, MarkClosedSettle,
     MarkClosedSettleHub

(* The books balance after every step if they did before it.               *)
LEMMA AccountingStep == Accounting /\ [Next]_vars => Accounting'
  <1> SUFFICES ASSUME Accounting, [Next]_vars PROVE Accounting'
    OBVIOUS
  <1>1. TypeOK /\ \A c \in Clients : Balanced(c)
    BY AccountingIsBalance
  <1>2. TypeOK'
    BY <1>1, TypeStep
  <1>3. ASSUME NEW c \in Clients PROVE Balanced(c)'
    <2>1. ASSUME NEW s \in Senders, TrySendStep(s) PROVE Balanced(c)'
      BY <1>1, <1>2, <2>1, SenderStep
    <2>2. ASSUME NEW s \in Senders, NEW d \in Clients, TrySendEnter(s, d) PROVE Balanced(c)'
      <3>1. Books(c)' = Books(c)
        BY <2>2, Zenon DEF Books, TrySendEnter, pumpVars, scanVars, closeVars
      <3>2. /\ At(snd', tgt', c, Reserved) = At(snd, tgt, c, Reserved)
            /\ At(snd', tgt', c, Unpublished) = At(snd, tgt, c, Unpublished)
        BY <1>1, <2>2, EnterKeepsPoints DEF Reserved, Unpublished
      <3>3. R(c)' = R(c) /\ U(c)' = U(c)
        BY <3>2 DEF R, U
      <3> QED
        BY <1>1, <3>1, <3>3, UntouchedStaysBalanced
    <2>3. ASSUME NEW d \in Clients, Worked(d)
          PROVE  Balanced(c)'
      <3>1. UNCHANGED sendVars
        BY <2>3, WorkerKeepsSenders, Zenon
      <3>2. CASE c = d
        BY <1>1, <1>2, <2>3, <3>1, <3>2, WorkerStep
      <3>3. CASE c # d
        <4>1. Books(c)' = Books(c)
          BY <1>1, <2>3, <3>3, WorkerKeepsOthers, Zenon
        <4>2. R(c)' = R(c) /\ U(c)' = U(c)
          BY <3>1 DEF R, U, sendVars
        <4> QED
          BY <1>1, <4>1, <4>2, UntouchedStaysBalanced
      <3> QED
        BY <3>2, <3>3
    <2>4. CASE HubStop \/ UNCHANGED vars
      <3>1. Books(c)' = Books(c) /\ UNCHANGED sendVars
        BY <2>4, Zenon DEF Books, HubStop, vars, sendVars, pumpVars, scanVars, closeVars
      <3>2. R(c)' = R(c) /\ U(c)' = U(c)
        BY <3>1 DEF R, U, sendVars
      <3> QED
        BY <1>1, <3>1, <3>2, UntouchedStaysBalanced
    <2> QED
      BY <2>1, <2>2, <2>3, <2>4 DEF Next, Worked
  <1>4. TypeOK' /\ \A c \in Clients : Balanced(c)'
    BY <1>2, <1>3
  <1>5. Accounting' <=> (TypeOK /\ \A c \in Clients : Balanced(c))'
    BY AccountingIsBalance, PTL
  <1> QED
    BY <1>4, <1>5

(* They balance when nothing has been sent.                                *)
LEMMA AccountingInit == Init => Accounting
  <1> SUFFICES ASSUME Init PROVE Accounting
    OBVIOUS
  <1>1. TypeOK
    BY InitType
  <1>2. ASSUME NEW c \in Clients PROVE Balanced(c)
    <2>1. R(c) = 0
      <3>1. At(snd, tgt, c, Reserved) = {}
        BY Zenon DEF Init, At, Reserved
      <3> QED
        BY <3>1, FS_EmptySet DEF R
    <2> QED
      BY <2>1 DEF Init, Balanced, PumpOwes, EvictOwes
  <1> QED
    BY <1>1, <1>2, AccountingIsBalance

(* The books always balance: while a connection is open its pendingWrites  *)
(* is exactly the frames queued, being written, being drained or being     *)
(* published; from the moment MarkClosed reads it, no unit is left that    *)
(* nobody will settle.                                                     *)
THEOREM BooksBalance == Spec => [](PendingIsExact /\ NoUnitAbandoned)
  <1>1. Accounting => PendingIsExact /\ NoUnitAbandoned
    BY DEF Accounting
  <1> QED
    BY <1>1, AccountingInit, AccountingStep, PTL DEF Spec

(* No connection leaks into the backlog: once it is closed and nobody is   *)
(* inside one of its operations, it counts for nothing.                    *)
THEOREM ClosedCountsForNothing == Spec => []NoLeakAfterClose
  <1>1. Accounting => NoLeakAfterClose
    <2> SUFFICES ASSUME Accounting, NEW c \in Clients, Settled(c) PROVE pend[c] = 0
      BY DEF NoLeakAfterClose
    <2>1. Inside(c, Unpublished) = {}
      BY DEF Settled, Inside, Unpublished, Reserved, SendPC
    <2>2. Cardinality(Inside(c, Unpublished)) = 0
      BY <2>1, FS_EmptySet
    <2>3. pend[c] <= 0
      BY <2>2 DEF Accounting, NoUnitAbandoned, Settled, CloseOwes, PumpOwes, EvictOwes
    <2> QED
      BY <2>3 DEF Accounting, TypeOK
  <1> QED
    BY <1>1, AccountingInit, AccountingStep, PTL DEF Spec

-----------------------------------------------------------------------------
(* Sums over a finite set.                                                 *)

Pick(s) == CHOOSE x \in s : TRUE
Rest(s) == s \ {Pick(s)}

\* h computes the sum of f over every subset of S, as SumFunction does.
Adds(f, S, h) == h = [s \in SUBSET S |-> IF s = {} THEN 0 ELSE f[Pick(s)] + h[Rest(s)]]

\* A subset that has an element, and the subset without it.
LEMMA RestIsSmaller ==
    ASSUME NEW S, IsFiniteSet(S), NEW s \in SUBSET S, s # {}
    PROVE  /\ Pick(s) \in s /\ Rest(s) \in SUBSET S
           /\ Cardinality(s) \in Nat /\ Cardinality(Rest(s)) = Cardinality(s) - 1
<1>1. Pick(s) \in s
  BY Zenon DEF Pick
<1>2. IsFiniteSet(s) /\ Cardinality(s) \in Nat
  BY FS_Subset, FS_CardinalityType, Zenon
<1> QED  BY <1>1, <1>2, FS_RemoveElement DEF Rest

\* What has the empty set, and every subset of S whose rest it has, has them all.
LEMMA SubsetInduction ==
    ASSUME NEW S, IsFiniteSet(S), NEW X, {} \in X,
           \A s \in SUBSET S : s # {} /\ Rest(s) \in X => s \in X
    PROVE  SUBSET S \subseteq X
<1> DEFINE Y == (SUBSET S) \ X
<1> SUFFICES ASSUME Y # {}  PROVE FALSE
  OBVIOUS
<1>1. IsWellFoundedOn(StrictSubsetOrdering(S), SUBSET S) /\ Y \subseteq SUBSET S
  BY FS_StrictSubsetOrderingWellFounded, FS_FiniteSubsetsOfFinite, Zenon
<1>2. PICK y \in Y : \A z \in Y : ~ (<<z, y>> \in StrictSubsetOrdering(S))
  <2> HIDE DEF Y
  <2> QED  BY <1>1, WFMin, Zenon
<1>3. y \in SUBSET S /\ y # {} /\ y \notin X
  BY <1>2
<1>4. Pick(y) \in y /\ Rest(y) \in SUBSET S
  BY <1>3, RestIsSmaller, Zenon
<1>5. <<Rest(y), y>> \in StrictSubsetOrdering(S)
  BY <1>3, <1>4 DEF Rest, StrictSubsetOrdering
<1>6. Rest(y) \notin Y
  BY <1>2, <1>5, Zenon
<1> QED  BY <1>3, <1>4, <1>6

\* Such a function exists, so that SumFunction is one.
LEMMA SumIsAdded ==
    ASSUME NEW S, IsFiniteSet(S), NEW f \in [S -> Int]
    PROVE  \E h : Adds(f, S, h) /\ SumFunction(f) = h[S]
<1> DEFINE Small(n) == {s \in SUBSET S : Cardinality(s) <= n}
           Rec(D, h) == \A s \in D : h[s] = IF s = {} THEN 0 ELSE f[Pick(s)] + h[Rest(s)]
           X == {T \in SUBSET S : \E h \in [Small(Cardinality(T)) -> Int] : Rec(Small(Cardinality(T)), h)}
<1>0. ASSUME NEW s \in SUBSET S  PROVE IsFiniteSet(s) /\ Cardinality(s) \in Nat /\ (Cardinality(s) = 0 <=> s = {})
  BY FS_Subset, FS_CardinalityType, FS_EmptySet, Zenon
<1>1. {} \in X
  <2>1. Cardinality({}) = 0
    BY FS_EmptySet
  <2> DEFINE h == [s \in Small(0) |-> 0]
  <2>2. \A s \in Small(0) : s = {}
    BY <1>0
  <2>3. h \in [Small(0) -> Int] /\ Rec(Small(0), h)
    BY <2>2
  <2> HIDE DEF h, Small, Rec
  <2> QED  BY <2>1, <2>3
<1>2. ASSUME NEW T \in SUBSET S, T # {}, Rest(T) \in X  PROVE T \in X
  <2>1. PICK n \in Nat : n = Cardinality(T) /\ n - 1 \in Nat /\ Cardinality(Rest(T)) = n - 1
    <3>1. Cardinality(T) # 0
      BY <1>0, <1>2
    <3> QED  BY <1>2, <3>1, RestIsSmaller
  <2>2. PICK h \in [Small(n - 1) -> Int] : Rec(Small(n - 1), h)
    BY <1>2, <2>1
  <2> DEFINE k == [s \in Small(n) |-> IF s \in Small(n - 1) THEN h[s] ELSE f[Pick(s)] + h[Rest(s)]]
  <2>3. ASSUME NEW s \in Small(n), s # {}
        PROVE  Rest(s) \in Small(n - 1) /\ f[Pick(s)] \in Int
    BY <2>1, <2>3, RestIsSmaller
  <2>4. {} \in Small(n - 1)
    BY <2>1, FS_EmptySet
  <2>5. k \in [Small(n) -> Int]
    <3>1. ASSUME NEW s \in Small(n), s \notin Small(n - 1)  PROVE f[Pick(s)] + h[Rest(s)] \in Int
      <4>1. s # {}
        BY <2>4, <3>1
      <4> HIDE DEF Small
      <4> QED  BY <2>3, <4>1
    <3> HIDE DEF Small
    <3> QED  BY <3>1
  <2>6. ASSUME NEW s \in Small(n)  PROVE  k[s] = IF s = {} THEN 0 ELSE f[Pick(s)] + k[Rest(s)]
    <3>1. s # {} => Rest(s) \in Small(n) /\ k[Rest(s)] = h[Rest(s)]
      <4>1. \A t \in Small(n - 1) : t \in Small(n)
        BY <1>0, <2>1
      <4> HIDE DEF Small
      <4> QED  BY <2>3, <4>1
    <3>2. s \in Small(n - 1) => h[s] = IF s = {} THEN 0 ELSE f[Pick(s)] + h[Rest(s)]
      BY <2>2
    <3> HIDE DEF Small
    <3> QED  BY <2>4, <3>1, <3>2
  <2> HIDE DEF k, Small
  <2>7. Rec(Small(n), k)
    BY <2>6
  <2> HIDE DEF Rec
  <2> QED  BY <2>1, <2>5, <2>7, Zenon
<1>3. S \in X
  <2> HIDE DEF X
  <2> QED  BY <1>1, <1>2, SubsetInduction, Zenon
<1>4. PICK h \in [Small(Cardinality(S)) -> Int] : Rec(Small(Cardinality(S)), h)
  BY <1>3
<1>5. Small(Cardinality(S)) = SUBSET S
  BY FS_Subset
<1>6. Adds(f, S, h)
  BY <1>4, <1>5 DEF Adds
<1> DEFINE a == CHOOSE x : Adds(f, S, x)
<1>7. Adds(f, S, a)
  BY <1>6, Zenon
<1>8. DOMAIN f = S
  OBVIOUS
<1>9. SumFunction(f) = a[S]
  BY <1>8, Zenon DEF SumFunction, SumFunctionOnSet, FoldFunctionOnSet, MapThenFoldSet, Adds, Pick, Rest
<1> QED  BY <1>7, <1>9, Zenon

\* A function that differs from f at one place only has the sum of f and the difference.
LEMMA SumMoves ==
    ASSUME NEW S, IsFiniteSet(S), NEW f \in [S -> Int], NEW g \in [S -> Int], NEW c \in S,
           \A x \in S \ {c} : g[x] = f[x]
    PROVE  SumFunction(f) \in Int /\ SumFunction(g) = SumFunction(f) + g[c] - f[c]
<1>1. PICK h : Adds(f, S, h) /\ SumFunction(f) = h[S]
  BY SumIsAdded, Zenon
<1>2. PICK k : Adds(g, S, k) /\ SumFunction(g) = k[S]
  BY SumIsAdded, Zenon
<1> DEFINE X == {s \in SUBSET S : h[s] \in Int /\ k[s] = h[s] + (IF c \in s THEN g[c] - f[c] ELSE 0)}
<1>3. {} \in X
  BY <1>1, <1>2 DEF Adds
<1>4. ASSUME NEW s \in SUBSET S, s # {}, Rest(s) \in X  PROVE s \in X
  <2>1. Pick(s) \in s /\ Rest(s) \in SUBSET S
    BY <1>4, RestIsSmaller, Zenon
  <2>2. h[s] = f[Pick(s)] + h[Rest(s)]
    BY <1>1, <1>4 DEF Adds
  <2>3. k[s] = g[Pick(s)] + k[Rest(s)]
    BY <1>2, <1>4 DEF Adds
  <2>4. c \in Rest(s) <=> c \in s /\ c # Pick(s)
    BY DEF Rest
  <2>5. f[Pick(s)] \in Int /\ g[Pick(s)] \in Int /\ f[c] \in Int /\ g[c] \in Int
    BY <2>1
  <2>6. Pick(s) # c => g[Pick(s)] = f[Pick(s)]
    BY <2>1
  <2> QED  BY <1>4, <2>1, <2>2, <2>3, <2>4, <2>5, <2>6
<1>5. S \in X
  <2> HIDE DEF X
  <2> QED  BY <1>3, <1>4, SubsetInduction, Zenon
<1>6. h[S] \in Int /\ k[S] = h[S] + (g[c] - f[c]) /\ f[c] \in Int /\ g[c] \in Int
  BY <1>5
<1> QED  BY <1>1, <1>2, <1>6

\* Nothing but zeros adds up to zero.
LEMMA SumOfZeros ==
    ASSUME NEW S, IsFiniteSet(S)
    PROVE  SumFunction([x \in S |-> 0]) = 0
<1> DEFINE f == [x \in S |-> 0]
<1>1. PICK h : Adds(f, S, h) /\ SumFunction(f) = h[S]
  <2>1. f \in [S -> Int]
    OBVIOUS
  <2> HIDE DEF f
  <2> QED  BY <2>1, SumIsAdded, Zenon
<1> DEFINE X == {s \in SUBSET S : h[s] = 0}
<1>2. {} \in X
  BY <1>1 DEF Adds
<1>3. ASSUME NEW s \in SUBSET S, s # {}, Rest(s) \in X  PROVE s \in X
  <2>1. Pick(s) \in S
    BY <1>3, RestIsSmaller, Zenon
  <2>2. h[s] = f[Pick(s)] + h[Rest(s)]
    BY <1>1, <1>3 DEF Adds
  <2> QED  BY <1>3, <2>1, <2>2
<1>4. S \in X
  <2> HIDE DEF X
  <2> QED  BY <1>2, <1>3, SubsetInduction, Zenon
<1> QED  BY <1>1, <1>4

-----------------------------------------------------------------------------
(* The Hub counter.                                                        *)

(* The senders on their way to the Hub counter, and the share of a         *)
(* connection in terms of them.                                            *)
Up(c) == Cardinality(At(snd, tgt, c, {"hubAdd"}))
Down(c) == Cardinality(At(snd, tgt, c, {"hubSub"}))

LEMMA ShareIs ==
    ASSUME NEW c
    PROVE  /\ Share(c) = pend[c] + PumpHolds(c) + EvictHolds(c) + CloseHolds(c) + Down(c) - Up(c)
           /\ Share(c)' = pend'[c] + PumpHolds(c)' + EvictHolds(c)' + CloseHolds(c)' + Down(c)' - Up(c)'
           /\ Up(c) \in Nat /\ Down(c) \in Nat /\ Up(c)' \in Nat /\ Down(c)' \in Nat
  <1>1. Up(c) \in Nat /\ Down(c) \in Nat /\ Up(c)' \in Nat /\ Down(c)' \in Nat
    BY AtFinite, Zenon DEF Up, Down
  <1>2. Inside(c, {"hubSub"}) = At(snd, tgt, c, {"hubSub"}) /\ Inside(c, {"hubAdd"}) = At(snd, tgt, c, {"hubAdd"})
    BY Zenon DEF Inside, At
  <1>3. /\ Inside(c, {"hubSub"})' = At(snd', tgt', c, {"hubSub"})
        /\ Inside(c, {"hubAdd"})' = At(snd', tgt', c, {"hubAdd"})
    BY Zenon DEF Inside, At
  <1> QED
    BY <1>1, <1>2, <1>3, Zenon DEF Share, Up, Down

(* The parts of a share are numbers.                                       *)
LEMMA ShareType ==
    ASSUME TypeOK, TypeOK', NEW c \in Clients
    PROVE  /\ pend[c] \in Nat /\ PumpHolds(c) \in Nat /\ EvictHolds(c) \in Nat /\ CloseHolds(c) \in Nat
           /\ pend'[c] \in Nat /\ PumpHolds(c)' \in Nat /\ EvictHolds(c)' \in Nat /\ CloseHolds(c)' \in Nat
           /\ Share(c) \in Int /\ Share(c)' \in Int
  <1>1. pend[c] \in Nat /\ PumpHolds(c) \in Nat /\ EvictHolds(c) \in Nat /\ CloseHolds(c) \in Nat
    BY BoundsAssumption DEF TypeOK, PumpHolds, EvictHolds, CloseHolds
  <1>2. pend'[c] \in Nat /\ PumpHolds(c)' \in Nat /\ EvictHolds(c)' \in Nat /\ CloseHolds(c)' \in Nat
    BY BoundsAssumption DEF TypeOK, PumpHolds, EvictHolds, CloseHolds
  <1> QED
    BY <1>1, <1>2, ShareIs

(* If a step changes the share of one connection, and the Hub counter by   *)
(* as much, the counter stays the sum.                                     *)
LEMMA HubMoves ==
    ASSUME TypeOK, TypeOK', HubIsExact, NEW c \in Clients,
           \A d \in Clients \ {c} : Share(d)' = Share(d),
           hub' = hub + Share(c)' - Share(c)
    PROVE  HubIsExact'
  <1> DEFINE f == [d \in Clients |-> Share(d)]
             g == [d \in Clients |-> Share(d)']
  <1>1. f \in [Clients -> Int]
    BY ShareType
  <1>2. g \in [Clients -> Int]
    BY ShareType
  <1>3. \A d \in Clients \ {c} : g[d] = f[d]
    OBVIOUS
  <1>4. f[c] = Share(c) /\ g[c] = Share(c)'
    OBVIOUS
  <1>5. hub = SumFunction(f)
    BY DEF HubIsExact
  <1>6. SumFunction(g) = SumFunction(f) + g[c] - f[c]
    <2> HIDE DEF f, g
    <2> QED
      BY <1>1, <1>2, <1>3, ClientsFinite, SumMoves, Zenon
  <1>7. hub' = SumFunction(g)
    <2> HIDE DEF f, g
    <2> QED
      BY <1>4, <1>5, <1>6, Zenon
  <1> QED
    BY <1>7 DEF HubIsExact

(* A connection that no step touches keeps its share.                      *)
LEMMA UntouchedShare ==
    ASSUME NEW c, Books(c)' = Books(c), Up(c)' = Up(c), Down(c)' = Down(c)
    PROVE  Share(c)' = Share(c)
  <1>1. /\ pend'[c] = pend[c] /\ PumpHolds(c)' = PumpHolds(c) /\ EvictHolds(c)' = EvictHolds(c)
        /\ CloseHolds(c)' = CloseHolds(c)
    BY Zenon DEF Books, PumpHolds, EvictHolds, CloseHolds
  <1>2. Share(c)' = pend'[c] + PumpHolds(c)' + EvictHolds(c)' + CloseHolds(c)' + Down(c)' - Up(c)'
    BY ShareIs, Zenon
  <1> QED
    BY <1>1, <1>2, ShareIs, Zenon

(* What the pump, the scanner or the close takes from a connection's       *)
(* counter it holds until it has subtracted it from the Hub counter.       *)
LEMMA WorkerShare ==
    ASSUME TypeOK, TypeOK', NEW c \in Clients, Worked(c)
    PROVE  hub' = hub + Share(c)' - Share(c)
  <1>1. Up(c)' = Up(c) /\ Down(c)' = Down(c)
    BY WorkerKeepsSenders, Zenon DEF Up, Down, sendVars
  <1>2. Up(c) \in Nat /\ Down(c) \in Nat
    BY ShareIs
  <1> DEFINE Held == pend[c] + PumpHolds(c) + EvictHolds(c) + CloseHolds(c)
  <1>3. Held \in Int /\ Held' \in Int
    BY ShareType
  <1>4. hub \in Int /\ hub' = hub + Held' - Held
    <2>0. hub \in Int
      BY DEF TypeOK
    <2> USE DEF TypeOK, PumpHolds, EvictHolds, CloseHolds, pumpVars, scanVars, closeVars
    <2> USE BoundsAssumption
    <2>1. CASE PumpTake(c) \/ PumpWriteFirst(c) \/ PumpDrain(c) \/ PumpWriteBatch(c) \/ PumpExit(c)
      BY <2>0, <2>1 DEF PumpTake, PumpWriteFirst, PumpDrain, PumpWriteBatch, PumpExit
    <2>2. CASE PumpSettle(c)
      BY <2>0, <2>2 DEF PumpSettle, Settle, Take
    <2>3. CASE PumpSettleHub(c)
      BY <2>0, <2>3 DEF PumpSettleHub
    <2>4. CASE Scan(c) \/ EvictDrain(c) \/ Unregister(c)
      BY <2>0, <2>4 DEF Scan, EvictDrain, Unregister
    <2>5. CASE EvictSettle(c)
      BY <2>0, <2>5 DEF EvictSettle, Settle, Take
    <2>6. CASE EvictSettleHub(c)
      BY <2>0, <2>6 DEF EvictSettleHub
    <2>7. CASE MarkClosedStore(c) \/ MarkClosedLoad(c)
      BY <2>0, <2>7 DEF MarkClosedStore, MarkClosedLoad
    <2>8. CASE MarkClosedSettle(c)
      BY <2>0, <2>8 DEF MarkClosedSettle, Settle, Take
    <2>9. CASE MarkClosedSettleHub(c)
      BY <2>0, <2>9 DEF MarkClosedSettleHub
    <2> QED
      BY <2>1, <2>2, <2>3, <2>4, <2>5, <2>6, <2>7, <2>8, <2>9, Zenon
      DEF Worked, PumpStep, EvictStep, CloseStep
  <1>5. Share(c) = Held + Down(c) - Up(c)
    BY ShareIs
  <1>6. Share(c)' = Held' + Down(c)' - Up(c)'
    BY ShareIs
  <1> HIDE DEF Held
  <1> QED
    BY <1>1, <1>2, <1>3, <1>4, <1>5, <1>6

(* A TrySend that has changed one counter is on its way to the other.      *)
LEMMA SenderShare ==
    ASSUME TypeOK, TypeOK', NEW s \in Senders, TrySendStep(s), NEW c \in Clients, tgt[s] = c
    PROVE  hub' = hub + Share(c)' - Share(c)
  <1>1. snd \in [Senders -> SendPC] /\ pend \in [Clients -> Nat] /\ hub \in Int
    BY Zenon DEF TypeOK
  <1>2. (\A x \in Senders \ {s} : snd'[x] = snd[x]) /\ tgt' = tgt /\ UNCHANGED <<pumpVars, scanVars, closeVars>>
    BY <1>1, Zenon DEF TrySendStep, TrySendReserve, TrySendReserveHub, TrySendRecheck,
       TrySendEnqueue, TrySendRollback, TrySendRollbackHub
  <1>3. /\ Up(c)' = Cardinality(At(snd', tgt, c, {"hubAdd"}))
        /\ Down(c)' = Cardinality(At(snd', tgt, c, {"hubSub"}))
    BY <1>2, Zenon DEF Up, Down
  <1>4. tgt[s] = c
    OBVIOUS
  <1>5. /\ snd[s] # "hubAdd" /\ snd'[s] = "hubAdd" => Up(c)' = Up(c) + 1
        /\ snd[s] = "hubAdd" /\ snd'[s] # "hubAdd" => Up(c)' = Up(c) - 1
        /\ (snd[s] = "hubAdd" <=> snd'[s] = "hubAdd") => Up(c)' = Up(c)
    BY <1>2, <1>3, <1>4, AtMoves DEF Up
  <1>6. /\ snd[s] # "hubSub" /\ snd'[s] = "hubSub" => Down(c)' = Down(c) + 1
        /\ snd[s] = "hubSub" /\ snd'[s] # "hubSub" => Down(c)' = Down(c) - 1
        /\ (snd[s] = "hubSub" <=> snd'[s] = "hubSub") => Down(c)' = Down(c)
    BY <1>2, <1>3, <1>4, AtMoves DEF Down
  <1>7. hub' = hub + (pend'[c] + Down(c)' - Up(c)') - (pend[c] + Down(c) - Up(c))
    <2>0. Up(c) \in Nat /\ Down(c) \in Nat /\ pend[c] \in Nat
      BY <1>1, ShareIs
    <2>1. CASE TrySendReserve(s)
      <3>1. snd[s] = "add" /\ snd'[s] = "hubAdd" /\ pend'[c] = pend[c] + 1 /\ hub' = hub
        BY <1>1, <1>4, <2>1, Zenon DEF TrySendReserve
      <3> QED  BY <1>1, <1>5, <1>6, <2>0, <3>1
    <2>2. CASE TrySendReserveHub(s)
      <3>1. snd[s] = "hubAdd" /\ snd'[s] = "check" /\ pend'[c] = pend[c] /\ hub' = hub + 1
        BY <1>1, <2>2, Zenon DEF TrySendReserveHub
      <3> QED  BY <1>1, <1>5, <1>6, <2>0, <3>1
    <2>3. CASE TrySendRecheck(s)
      <3>1. snd[s] = "check" /\ snd'[s] \in {"settle", "enqueue"} /\ pend'[c] = pend[c] /\ hub' = hub
        BY <1>1, <2>3, Zenon DEF TrySendRecheck
      <3> QED  BY <1>1, <1>5, <1>6, <2>0, <3>1
    <2>4. CASE TrySendEnqueue(s)
      <3>1. snd[s] = "enqueue" /\ snd'[s] \in {"settle", "idle"} /\ pend'[c] = pend[c] /\ hub' = hub
        BY <1>1, <2>4, Zenon DEF TrySendEnqueue
      <3> QED  BY <1>1, <1>5, <1>6, <2>0, <3>1
    <2>5. CASE TrySendRollback(s)
      <3>1. /\ snd[s] = "settle" /\ pend'[c] = pend[c] - Take(c, 1) /\ hub' = hub
            /\ snd'[s] = IF Take(c, 1) = 0 THEN "idle" ELSE "hubSub"
        BY <1>1, <1>4, <2>5, Zenon DEF TrySendRollback, Settle
      <3>2. Take(c, 1) \in {0, 1}
        BY <2>0 DEF Take
      <3> QED  BY <1>1, <1>5, <1>6, <2>0, <3>1, <3>2
    <2>6. CASE TrySendRollbackHub(s)
      <3>1. snd[s] = "hubSub" /\ snd'[s] = "idle" /\ pend'[c] = pend[c] /\ hub' = hub - 1
        BY <1>1, <2>6, Zenon DEF TrySendRollbackHub
      <3> QED  BY <1>1, <1>5, <1>6, <2>0, <3>1
    <2> QED
      BY <2>1, <2>2, <2>3, <2>4, <2>5, <2>6, Zenon DEF TrySendStep
  <1>8. PumpHolds(c)' = PumpHolds(c) /\ EvictHolds(c)' = EvictHolds(c) /\ CloseHolds(c)' = CloseHolds(c)
    BY <1>2, <1>4, Zenon DEF PumpHolds, EvictHolds, CloseHolds, pumpVars, scanVars, closeVars
  <1>9. Share(c) = pend[c] + PumpHolds(c) + EvictHolds(c) + CloseHolds(c) + Down(c) - Up(c)
    BY ShareIs, Zenon
  <1>10. Share(c)' = pend'[c] + PumpHolds(c) + EvictHolds(c) + CloseHolds(c) + Down(c)' - Up(c)'
    BY <1>8, ShareIs, Zenon
  <1>11. Up(c)' \in Nat /\ Down(c)' \in Nat /\ pend'[c] \in Nat
    BY ShareIs DEF TypeOK
  <1> QED
    BY <1>1, <1>7, <1>9, <1>10, <1>11, ShareIs, ShareType

(* Every step keeps the Hub counter the sum of the shares.                 *)
LEMMA HubStep == TypeOK /\ TypeOK' /\ HubIsExact /\ [Next]_vars => HubIsExact'
  <1> SUFFICES ASSUME TypeOK, TypeOK', HubIsExact, [Next]_vars PROVE HubIsExact'
    OBVIOUS
  <1>1. ASSUME NEW s \in Senders, TrySendStep(s) PROVE HubIsExact'
    <2>1. PICK c \in Clients : tgt[s] = c
      BY Zenon DEF TypeOK
    <2>2. (\A x \in Senders \ {s} : snd'[x] = snd[x]) /\ tgt' = tgt
      BY <1>1, Zenon DEF TypeOK, TrySendStep, TrySendReserve, TrySendReserveHub, TrySendRecheck,
         TrySendEnqueue, TrySendRollback, TrySendRollbackHub
    <2>3. ASSUME NEW d \in Clients \ {c} PROVE Share(d)' = Share(d)
      <3>1. Books(d)' = Books(d)
        BY <1>1, <2>1, SenderKeepsOthers, Zenon
      <3>2. /\ Up(d)' = Cardinality(At(snd', tgt, d, {"hubAdd"}))
            /\ Down(d)' = Cardinality(At(snd', tgt, d, {"hubSub"}))
        BY <2>2, Zenon DEF Up, Down
      <3>3. tgt[s] # d
        BY <2>1
      <3>4. Up(d)' = Up(d)
        BY <2>2, <3>2, <3>3, AtMoves DEF Up
      <3>5. Down(d)' = Down(d)
        BY <2>2, <3>2, <3>3, AtMoves DEF Down
      <3> QED
        BY <3>1, <3>4, <3>5, UntouchedShare, Zenon
    <2>4. hub' = hub + Share(c)' - Share(c)
      BY <1>1, <2>1, SenderShare, Zenon
    <2> QED
      BY <2>3, <2>4, HubMoves, Zenon
  <1>2. ASSUME NEW c \in Clients, Worked(c) PROVE HubIsExact'
    <2>1. ASSUME NEW d \in Clients \ {c} PROVE Share(d)' = Share(d)
      <3>1. Books(d)' = Books(d)
        BY <1>2, WorkerKeepsOthers, Zenon
      <3>2. Up(d)' = Up(d) /\ Down(d)' = Down(d)
        BY <1>2, WorkerKeepsSenders, Zenon DEF Up, Down, sendVars
      <3> QED
        BY <3>1, <3>2, UntouchedShare, Zenon
    <2>2. hub' = hub + Share(c)' - Share(c)
      BY <1>2, WorkerShare, Zenon
    <2> QED
      BY <2>1, <2>2, HubMoves, Zenon
  <1>3. ASSUME hub' = hub, \A d \in Clients : Share(d)' = Share(d) PROVE HubIsExact'
    <2>1. [d \in Clients |-> Share(d)'] = [d \in Clients |-> Share(d)]
      BY <1>3, Zenon
    <2> QED
      BY <1>3, <2>1, Zenon DEF HubIsExact
  <1>4. ASSUME NEW s \in Senders, NEW c \in Clients, TrySendEnter(s, c) PROVE HubIsExact'
    <2>1. ASSUME NEW d \in Clients PROVE Share(d)' = Share(d)
      <3>1. Books(d)' = Books(d)
        BY <1>4, Zenon DEF Books, TrySendEnter, pumpVars, scanVars, closeVars
      <3>2. /\ At(snd', tgt', d, {"hubAdd"}) = At(snd, tgt, d, {"hubAdd"})
            /\ At(snd', tgt', d, {"hubSub"}) = At(snd, tgt, d, {"hubSub"})
        BY <1>4, EnterKeepsPoints, Zenon
      <3>3. Up(d)' = Up(d) /\ Down(d)' = Down(d)
        BY <3>2, Zenon DEF Up, Down
      <3> QED
        BY <3>1, <3>3, UntouchedShare, Zenon
    <2>2. hub' = hub
      BY <1>4, Zenon DEF TrySendEnter
    <2> QED
      BY <1>3, <2>1, <2>2, Zenon
  <1>5. CASE HubStop \/ UNCHANGED vars
    <2>1. hub' = hub /\ \A d \in Clients : Share(d)' = Share(d)
      BY <1>5, Zenon DEF HubStop, vars, sendVars, pumpVars, scanVars, closeVars, Share, PumpHolds,
         EvictHolds, CloseHolds, Inside
    <2> QED
      BY <1>3, <2>1, Zenon
  <1> QED
    BY <1>1, <1>2, <1>4, <1>5, Zenon DEF Next, Worked

(* Before anything is sent every share is zero.                            *)
LEMMA HubInit == Init => HubIsExact
  <1> SUFFICES ASSUME Init PROVE HubIsExact
    OBVIOUS
  <1>1. ASSUME NEW c \in Clients PROVE Share(c) = 0
    <2>1. At(snd, tgt, c, {"hubAdd"}) = {} /\ At(snd, tgt, c, {"hubSub"}) = {}
      BY Zenon DEF Init, At
    <2>2. Up(c) = 0 /\ Down(c) = 0
      BY <2>1, FS_EmptySet, Zenon DEF Up, Down
    <2>3. pend[c] = 0 /\ PumpHolds(c) = 0 /\ EvictHolds(c) = 0 /\ CloseHolds(c) = 0
      BY DEF Init, PumpHolds, EvictHolds, CloseHolds
    <2> QED
      BY <2>2, <2>3, ShareIs
  <1>2. [c \in Clients |-> Share(c)] = [c \in Clients |-> 0]
    BY <1>1, Zenon
  <1> QED
    BY <1>2, ClientsFinite, SumOfZeros, Zenon DEF Init, HubIsExact

(* The Hub counter, which the admission gate reads as its backlog, never    *)
(* drifts: for any finite number of connections and senders it is the sum  *)
(* of the connections' counters, up to what a goroutine has done to one    *)
(* of the two and is about to do to the other.                             *)
THEOREM HubNeverDrifts == Spec => []HubIsSumOfPending
  <1>1. Init => Accounting /\ HubIsExact
    BY AccountingInit, HubInit
  <1>2. Accounting /\ HubIsExact /\ [Next]_vars => (Accounting /\ HubIsExact)'
    <2> SUFFICES ASSUME Accounting, HubIsExact, [Next]_vars PROVE Accounting' /\ HubIsExact'
      OBVIOUS
    <2>1. Accounting'
      BY AccountingStep, Zenon
    <2>2. TypeOK /\ TypeOK'
      BY <2>1, Zenon DEF Accounting
    <2> QED
      BY <2>1, <2>2, HubStep, Zenon
  <1>3. Accounting /\ HubIsExact => HubIsSumOfPending
    BY Zenon DEF Accounting, HubIsSumOfPending
  <1> QED
    BY <1>1, <1>2, <1>3, PTL DEF Spec
=============================================================================
