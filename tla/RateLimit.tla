----------------------------- MODULE RateLimit ------------------------------
(***************************************************************************)
(* The limiter of POST /api/v1/orders: a leaky-bucket meter per client     *)
(* address, in the memory of one ingestion-api process, whose janitor      *)
(* evicts idle buckets (internal/adapter/http/ratelimit).                  *)
(*                                                                         *)
(* Levels are in units of which one leaks per tick of the clock: a request *)
(* costs Cost of them, and RATE_LIMIT_RATE times Cost ticks are a second.  *)
(* Instants are kept as their distance from the present.                   *)
(***************************************************************************)
EXTENDS Integers

CONSTANTS
  Clients,         \* the client addresses
  Burst,           \* RATE_LIMIT_BURST, in requests
  Cost,            \* the units of one request
  TicksPerSecond,  \* RATE_LIMIT_RATE times Cost
  Ttl,             \* how long a bucket may be idle, in ticks
  MaxLag           \* how much older than the present a caller's `now` may be

Capacity == Burst * Cost

ASSUME BurstAssumption == Burst \in Nat \ {0} /\ Cost \in Nat \ {0} /\ Capacity \in Nat
ASSUME ClockAssumption == TicksPerSecond \in Nat \ {0} /\ MaxLag \in Nat
\* main.go: ten minutes, while a full default bucket drains in two seconds.
ASSUME TtlAssumption   == Ttl \in Nat /\ Ttl >= Capacity + MaxLag

VARIABLES
  buckets,  \* the clients that have a bucket
  level,    \* its level at the instant lastLeak
  idle,     \* how long ago lastLeak is
  ideal,    \* (history) the level of a bucket that leaks exactly and is never evicted
  told      \* (history) what is left of the Retry-After the client was told, or NotTold

limitVars == <<buckets, level, idle, ideal, told>>

NotTold == -1

\* Ages beyond this one are all the same: the bucket is empty and can be evicted.
MaxIdle == Ttl + Capacity + MaxLag + 1

LimitTypeOK ==
  /\ buckets \subseteq Clients
  /\ level \in [Clients -> 0..Capacity]
  /\ idle \in [Clients -> 0..MaxIdle]
  /\ ideal \in [Clients -> Nat]
  /\ told \in [Clients -> Int]

LimitInit ==
  /\ buckets = {}
  /\ level = [c \in Clients |-> 0]
  /\ idle = [c \in Clients |-> 0]
  /\ ideal = [c \in Clients |-> 0]
  /\ told = [c \in Clients |-> NotTold]

Floor(n) == IF n > 0 THEN n ELSE 0

\* The level after leaking up to an instant lag ago; before lastLeak, nothing
\* leaks.  A new bucket is empty.
LevelAt(c, lag) ==
  IF c \in buckets THEN Floor(level[c] - Floor(idle[c] - lag)) ELSE 0

\* Mutant: one request more than the burst.
FitsLoosely(l) == l <= Capacity
Fits(l) == l + Cost <= Capacity

\* Mutant: the overflow is rounded down to whole seconds.
RetryAfterFloor(l) == ((l + Cost - Capacity) \div TicksPerSecond) * TicksPerSecond

\* The overflow's time to leak, rounded up to whole seconds.
RetryAfter(l) ==
  ((l + Cost - Capacity + TicksPerSecond - 1) \div TicksPerSecond) * TicksPerSecond

\* Allow, under the store's mutex.  The caller read `now` before it waited for
\* the mutex, so it may be older than what another request left in lastLeak.
Leak(c, lag) ==
  /\ buckets' = buckets \cup {c}
  /\ idle' = [idle EXCEPT ![c] = IF c \in buckets /\ @ <= lag THEN @ ELSE lag]

Admit(c, lag) ==
  /\ Fits(LevelAt(c, lag))
  /\ Leak(c, lag)
  /\ level' = [level EXCEPT ![c] = LevelAt(c, lag) + Cost]
  /\ ideal' = [ideal EXCEPT ![c] = @ + Cost]
  /\ told' = [told EXCEPT ![c] = NotTold]

\* 429 with Retry-After, which the client counts from the answer on (and not
\* again from each of its impatient requests).
Reject(c, lag) ==
  /\ ~Fits(LevelAt(c, lag))
  /\ Leak(c, lag)
  /\ level' = [level EXCEPT ![c] = LevelAt(c, lag)]
  /\ told' = [told EXCEPT ![c] = IF @ = NotTold THEN RetryAfter(LevelAt(c, lag)) ELSE @]
  /\ UNCHANGED ideal

\* Mutant: the janitor evicts buckets of any age.
EvictAll(lag) ==
  /\ buckets # {}
  /\ buckets' = {}
  /\ level' = [c \in Clients |-> 0]
  /\ idle' = [c \in Clients |-> 0]
  /\ UNCHANGED <<ideal, told>>

\* The janitor's evict, with the instant its ticker fired.
Evict(lag) ==
  LET old == {c \in buckets : idle[c] - lag > Ttl} IN
  /\ old # {}
  /\ buckets' = buckets \ old
  /\ level' = [c \in Clients |-> IF c \in old THEN 0 ELSE level[c]]
  /\ idle' = [c \in Clients |-> IF c \in old THEN 0 ELSE idle[c]]
  /\ UNCHANGED <<ideal, told>>

\* The clock advances.
Tick ==
  /\ idle' = [c \in Clients |->
                IF c \in buckets /\ idle[c] < MaxIdle THEN idle[c] + 1 ELSE idle[c]]
  /\ ideal' = [c \in Clients |-> Floor(ideal[c] - 1)]
  /\ told' = [c \in Clients |-> IF told[c] > 0 THEN told[c] - 1 ELSE told[c]]
  /\ UNCHANGED <<buckets, level>>

LimitNext ==
  \/ Tick
  \/ \E c \in Clients, lag \in 0..MaxLag : Admit(c, lag) \/ Reject(c, lag)
  \/ \E lag \in 0..MaxLag : Evict(lag)

LimitSpec == LimitInit /\ [][LimitNext]_limitVars

-----------------------------------------------------------------------------
(* Properties. *)

\* A client gets no more requests through than a bucket that leaks exactly and
\* is never evicted would let through, but for the time a request may wait for
\* the mutex: neither the eviction of idle buckets nor instants taken out of
\* order grant it anything.
NoExtraBurst == \A c \in Clients : ideal[c] <= Capacity + MaxLag

\* Retry-After is honest: a client that was turned away and waits as long as it
\* was told is let in, however often it asked in between.
RetryAfterHonest == \A c \in Clients : told[c] = 0 => Fits(LevelAt(c, 0))
=============================================================================
