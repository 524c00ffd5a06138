-------------------------- MODULE MCOutboxDispatch ---------------------------
(***************************************************************************)
(* Small instances of OutboxDispatch for TLC.                              *)
(***************************************************************************)
EXTENDS OutboxDispatch

TwoRows == 1..2
TwoKeys == [r \in TwoRows |-> r]
=============================================================================
