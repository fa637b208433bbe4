---------------------------- MODULE MCXskSocket ----------------------------
(* XskSocket on small instances, for TLC. *)
EXTENDS XskSocket
=============================================================================
