-------------------------- MODULE MCOfflineReplay --------------------------
(* An instance of OfflineReplay: one message and one login.                *)
EXTENDS OfflineReplay
=============================================================================
