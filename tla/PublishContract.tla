--------------------------- MODULE PublishContract ---------------------------
(***************************************************************************)
(* What one call of AMQPPublisher.PublishBatch may do, as seen by the      *)
(* caller and by the broker: the set of outcomes of publishing a batch b.  *)
(*                                                                         *)
(* A batch is a set of naturals; the order of the messages in the slice is *)
(* their numeric order.  An outcome is a record                            *)
(*    failed    the messages whose entry of the result slice is an error   *)
(*              (the other messages are reported as published),            *)
(*    accepted  the messages the broker took responsibility for.           *)
(*                                                                         *)
(* The outcomes are grouped by F, what goes wrong in the environment:      *)
(*    "channel"  no channel can be opened, or the cached one turns out to  *)
(*               be closed when the first message is written               *)
(*    "nack"     the broker refuses individual messages                    *)
(*    "timeout"  a confirm does not arrive within 5s, or the confirm       *)
(*               stream is closed, after some prefix of the confirms       *)
(*    "fire"     writing one of the messages to the channel fails          *)
(*    "late"     as "timeout", but the overdue confirms arrive while the   *)
(*               channel is being closed and are read for later messages   *)
(*    "cancel"   the context ends during the call: the process is shutting *)
(*               down, and each confirm may be given up while its channel  *)
(*               stays in use                                              *)
(*    "done"     the context ended before the call; confirms given up by   *)
(*               an earlier call may be read for any of its messages       *)
(* After the last two the caller can mark nothing, its context having      *)
(* ended, so for the relay such a call is one that is cut off by a crash.  *)
(***************************************************************************)
EXTENDS Integers

ShutdownFaults == {"cancel", "done"}
PublishFaults  == {"channel", "nack", "timeout", "fire", "late"} \cup ShutdownFaults

Before(b, m) == {q \in b : q < m}
From(b, m)   == {q \in b : q >= m}

Outcome(failed, accepted) == [failed |-> failed, accepted |-> accepted]

\* For the messages S the results are the broker's own verdicts.
Verdicts(o, S, F) ==
  /\ S \cap o.accepted = S \ o.failed
  /\ S \cap o.failed # {} => "nack" \in F

\* Every message was written and every confirm arrived in time.
Answered(o, b, F) == Verdicts(o, b, F)

\* getChannel failed: nothing was written and every result is the error.
NoChannel(o, b) == o = Outcome(b, {})

\* Mutant: only m itself is reported as an error.
TimedOutAlone(o, b, m, F) ==
  /\ m \in o.failed
  /\ Verdicts(o, Before(b, m), F)

\* The confirm of m did not come: the channel is dropped, so m and all later
\* messages are reported as errors, whatever the broker did with them.
TimedOut(o, b, m, F) ==
  /\ From(b, m) \subseteq o.failed
  /\ Verdicts(o, Before(b, m), F)

\* Writing m failed.  The results of m and of the later messages are the error;
\* the entries before m keep their zero value nil although no confirm was
\* awaited, and only some prefix of those messages may have reached the broker.
FireFailed(o, b, m, F) ==
  /\ o.failed = From(b, m)
  /\ \E p \in b \ {q \in b : q > m} :
       /\ o.accepted \subseteq Before(b, p)
       /\ o.accepted # Before(b, p) => "nack" \in F

\* The confirm of m came after its timeout, while the channel was being closed:
\* it was buffered and is read as the confirm of the next message, and so on.
\* From m on a message is reported as published because the broker accepted
\* the message before it.
Predecessor(b, q) == CHOOSE p \in Before(b, q) : \A x \in Before(b, q) : x <= p

LateConfirms(o, b, m, F) ==
  /\ m \in o.failed
  /\ Verdicts(o, Before(b, m), F)
  /\ \A q \in From(b, m) \ o.failed : Predecessor(b, q) \in o.accepted

\* The confirm of m was given up when the context ended.  A message after m is
\* reported as published because the broker accepted one before it.
CutOff(o, b, m, F) ==
  /\ m \in o.failed
  /\ Verdicts(o, Before(b, m), F)
  /\ \A q \in From(b, m) \ o.failed : Before(b, q) \cap o.accepted # {}

PublishOutcomes(b, F) ==
  {o \in [failed : SUBSET b, accepted : SUBSET b] :
     \/ Answered(o, b, F)
     \/ "channel" \in F /\ NoChannel(o, b)
     \/ "timeout" \in F /\ \E m \in b : TimedOut(o, b, m, F)
     \/ "fire" \in F /\ \E m \in b : FireFailed(o, b, m, F)
     \/ "late" \in F /\ \E m \in b : LateConfirms(o, b, m, F)
     \/ "cancel" \in F /\ \E m \in b : CutOff(o, b, m, F)
     \/ "done" \in F}

=============================================================================
