---------------------------- MODULE AckPromise ----------------------------
(***************************************************************************)
(* What a pending acknowledgement promises its waiter: it is settled once, *)
(* an acknowledgement that came before is never reported as a timeout, and *)
(* none is reported that did not come.                                     *)
(***************************************************************************)
CONSTANT Promises

VARIABLES
    state,  \* "none", "open", then "confirmed", "timeout" or "failed"
    acked   \* promises acknowledged while open

promise == <<state, acked>>

Init ==
    /\ state = [p \in Promises |-> "none"]
    /\ acked = {}

Open(p) ==
    /\ state[p] = "none"
    /\ state' = [state EXCEPT ![p] = "open"]
    /\ UNCHANGED acked

Acknowledge(p) ==
    /\ state[p] = "open"
    /\ acked' = acked \cup {p}
    /\ UNCHANGED state

\* "failed": the message could not be sent again.
Settle(p) ==
    /\ state[p] = "open"
    /\ state' = [state EXCEPT ![p] = IF p \in acked THEN "confirmed" ELSE "timeout"]
       \/ state' = [state EXCEPT ![p] = "failed"]
    /\ UNCHANGED acked

Next == \E p \in Promises : Open(p) \/ Acknowledge(p) \/ Settle(p)

Spec == Init /\ [][Next]_promise
=============================================================================
