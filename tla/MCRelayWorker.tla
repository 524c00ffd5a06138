---------------------------- MODULE MCRelayWorker ----------------------------
(***************************************************************************)
(* A small instance of RelayWorker for TLC.                                *)
(***************************************************************************)
EXTENDS RelayWorker

\* More rows than a batch takes.  The third has the key of the first: it can only
\* be enqueued once the first has been pruned.
ThreeRows == 1..3
ReusedKey == [r \in ThreeRows |-> IF r = 2 THEN 2 ELSE 1]
=============================================================================
