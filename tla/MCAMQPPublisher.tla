--------------------------- MODULE MCAMQPPublisher ---------------------------
(***************************************************************************)
(* Small instances of AMQPPublisher for TLC: two or three calls.           *)
(***************************************************************************)
EXTENDS AMQPPublisher

UpToThree == 1..3
=============================================================================
