-------------------------- MODULE MCMessageRecord --------------------------
(* Instances of MessageRecord: a sender and one other node.                *)
EXTENDS MessageRecord
=============================================================================
