--------------------------- MODULE MCOnlineIndex ---------------------------
(* Instances of OnlineIndex.                                               *)
EXTENDS OnlineIndex, TLC

CONSTANTS n1, n2, u1, u2, c1, c2, nsA, nsB

\* One user with a client in each of two namespaces.
OneUser == (c1 :> u1) @@ (c2 :> u1)
TwoSpaces == (c1 :> nsA) @@ (c2 :> nsB)

\* Two users in one namespace.
TwoUsers == (c1 :> u1) @@ (c2 :> u2)
OneSpace == (c1 :> nsA) @@ (c2 :> nsA)

\* One client that moves from a node to another and back, one that connects
\* twice, or two clients of one node.
Returning == (c1 :> <<{n1}, {n2}, {n1}>>) @@ (c2 :> <<>>)
Moving == (c1 :> <<{n1}, {n1, n2}>>) @@ (c2 :> <<>>)
Sharing == (c1 :> <<{n1}>>) @@ (c2 :> <<{n1}>>)

Setup(t, r, f) == [ttl |-> t, route |-> r, faults |-> f]
MovingOrSharing == {Setup(1, Returning, 0), Setup(2, Moving, 0),
                    Setup(1, Moving, 1), Setup(1, Sharing, 1)}
JustSharing == {Setup(3, Sharing, 0)}
=============================================================================
