--------------------------- MODULE MCShardConsumer ---------------------------
(***************************************************************************)
(* Small instances of ShardConsumer for TLC.                               *)
(***************************************************************************)
EXTENDS ShardConsumer
=============================================================================
