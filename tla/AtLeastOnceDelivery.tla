------------------------ MODULE AtLeastOnceDelivery --------------------------
(***************************************************************************)
(* What a transactional outbox promises, whatever the relay looks like: a  *)
(* message is taken on when its row commits, it is handed to the broker    *)
(* one or more times, and the relay considers it done, and may eventually  *)
(* forget it, only after a handover.  A done message may be reopened and   *)
(* delivered again; a forgotten one may not.                               *)
(***************************************************************************)
CONSTANT Rows

VARIABLES
  committed,   \* the messages taken on
  delivered,   \* those handed to the broker at least once
  done,        \* those the relay will not try again of its own accord
  forgotten    \* those it has no record of any more

vars == <<committed, delivered, done, forgotten>>

Init ==
  /\ committed = {}
  /\ delivered = {}
  /\ done = {}
  /\ forgotten = {}

\* One transaction may take on several messages.
Commit ==
  /\ \E S \in SUBSET Rows : committed' = committed \cup S
  /\ UNCHANGED <<delivered, done, forgotten>>

\* A handover, possibly a repeated one and possibly of several messages.
Deliver ==
  /\ \E S \in SUBSET committed : delivered' = delivered \cup S
  /\ UNCHANGED <<committed, done, forgotten>>

Finish ==
  /\ \E S \in SUBSET (delivered \ forgotten) : done' = done \cup S
  /\ UNCHANGED <<committed, delivered, forgotten>>

\* Another party still considers messages unfinished.
Reopen ==
  /\ \E S \in SUBSET (done \ forgotten) : done' = done \ S
  /\ UNCHANGED <<committed, delivered, forgotten>>

Forget ==
  /\ \E S \in SUBSET done : forgotten' = forgotten \cup S
  /\ UNCHANGED <<committed, delivered, done>>

Next == Commit \/ Deliver \/ Finish \/ Reopen \/ Forget

Spec == Init /\ [][Next]_vars
=============================================================================
