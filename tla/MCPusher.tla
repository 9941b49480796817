------------------------------ MODULE MCPusher ------------------------------
(* Pusher on small instances.                                              *)
EXTENDS Pusher, TLC
=============================================================================
