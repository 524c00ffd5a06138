-------------------------- MODULE RateLimitProofs ---------------------------
(***************************************************************************)
(* The limiter grants nothing extra and its Retry-After is honest, for     *)
(* every rate and burst, any number of clients and any delay at the mutex. *)
(***************************************************************************)
EXTENDS RateLimit, TLAPS

LEMMA CapacityFitsOne == Capacity \in Nat /\ Cost \in Nat /\ Cost > 0 /\ Cost <= Capacity
<1>1. Burst \in Nat /\ Burst >= 1 /\ Cost \in Nat /\ Cost >= 1 /\ Capacity \in Nat
  BY BurstAssumption
<1>2. (Burst - 1) * Cost >= 0
  BY <1>1
<1>3. Burst * Cost = (Burst - 1) * Cost + Cost
  BY <1>1
<1>. QED  BY <1>1, <1>2, <1>3 DEF Capacity

\* Rounding up to whole seconds never shortens the wait.
LEMMA RetryAfterLongEnough ==
  ASSUME NEW l \in Nat, ~Fits(l)
  PROVE  RetryAfter(l) \in Nat /\ RetryAfter(l) >= l + Cost - Capacity
<1>. DEFINE x == l + Cost - Capacity
            t == TicksPerSecond
            d == (x + t - 1) \div t
<1>1. x \in Nat /\ x > 0 /\ t \in Nat /\ t > 0
  BY CapacityFitsOne, ClockAssumption DEF Fits
<1>2. d \in Nat /\ t * d <= x + t - 1 /\ x + t - 1 < t * d + t
  <2>. HIDE DEF x, t
  <2>. QED  BY <1>1
<1>3. RetryAfter(l) = d * t /\ d * t = t * d /\ t * d \in Nat
  BY <1>1, <1>2 DEF RetryAfter
<1>. HIDE DEF x, t, d
<1>4. t * d >= x
  BY <1>1, <1>2, <1>3
<1>. QED  BY <1>3, <1>4 DEF x

\* A bucket is never behind the ideal one by more than MaxLag, and a client
\* without a bucket has nothing left to leak.
Metered(c) ==
  ideal[c] <= IF c \in buckets THEN Floor(level[c] + MaxLag - idle[c]) ELSE 0

\* What overflows now will have leaked when the wait is over.
Waiting(c) == told[c] # NotTold => LevelAt(c, 0) + Cost - Capacity <= told[c]

LimitInv ==
  /\ buckets \subseteq Clients
  /\ level \in [Clients -> 0..Capacity]
  /\ idle \in [Clients -> 0..MaxIdle]
  /\ ideal \in [Clients -> Nat]
  /\ told \in [Clients -> Nat \cup {NotTold}]
  /\ \A c \in Clients : Metered(c) /\ Waiting(c)

LEMMA LimitInvInit == LimitInit => LimitInv
BY CapacityFitsOne, ClockAssumption, TtlAssumption
   DEF LimitInit, LimitInv, Metered, Waiting, MaxIdle, NotTold

LEMMA TickStep ==
  ASSUME LimitInv, Tick
  PROVE  LimitInv'
<1>. USE CapacityFitsOne, ClockAssumption, TtlAssumption
<1>1. MaxIdle \in Nat /\ MaxIdle > Capacity + MaxLag
  BY DEF MaxIdle
<1>2. /\ idle' \in [Clients -> 0..MaxIdle]
      /\ ideal' \in [Clients -> Nat]
      /\ told' \in [Clients -> Nat \cup {NotTold}]
  BY <1>1 DEF LimitInv, Tick, Floor, NotTold
<1>3. ASSUME NEW c \in Clients
      PROVE  Metered(c)' /\ Waiting(c)'
  <2>1. /\ level'[c] = level[c] /\ level[c] \in 0..Capacity
        /\ idle[c] \in 0..MaxIdle /\ ideal[c] \in Nat
        /\ buckets' = buckets
        /\ idle'[c] = IF c \in buckets /\ idle[c] < MaxIdle THEN idle[c] + 1 ELSE idle[c]
        /\ ideal'[c] = IF ideal[c] - 1 > 0 THEN ideal[c] - 1 ELSE 0
        /\ told[c] \in Nat \cup {NotTold}
        /\ told'[c] = IF told[c] > 0 THEN told[c] - 1 ELSE told[c]
    BY DEF LimitInv, Tick, Floor
  <2>2. Metered(c)'
    BY <1>1, <2>1 DEF LimitInv, Metered, Floor
  <2>3. Waiting(c)'
    BY <1>1, <2>1 DEF LimitInv, Waiting, LevelAt, Floor, NotTold
  <2>. QED  BY <2>2, <2>3
<1>. QED  BY <1>2, <1>3 DEF LimitInv, Tick

\* What both outcomes of Allow do to the bucket: it leaks, and charge is added.
LEMMA LeakStep ==
  ASSUME LimitInv, NEW c \in Clients, NEW lag \in 0..MaxLag, Leak(c, lag),
         NEW charge \in Nat, LevelAt(c, lag) + charge <= Capacity,
         level' = [level EXCEPT ![c] = LevelAt(c, lag) + charge],
         ideal' = [ideal EXCEPT ![c] = @ + charge]
  PROVE  /\ buckets' \subseteq Clients
         /\ level' \in [Clients -> 0..Capacity]
         /\ idle' \in [Clients -> 0..MaxIdle]
         /\ ideal' \in [Clients -> Nat]
         /\ \A b \in Clients : Metered(b)'
         /\ LevelAt(c, 0)' <= LevelAt(c, 0) + charge
         /\ LevelAt(c, 0)' <= LevelAt(c, lag) + charge
         /\ \A b \in Clients \ {c} : LevelAt(b, 0)' = LevelAt(b, 0)
<1>. USE CapacityFitsOne, ClockAssumption, TtlAssumption
<1>1. MaxIdle \in Nat /\ MaxLag <= MaxIdle
  BY DEF MaxIdle
<1>2. LevelAt(c, lag) \in Nat
  BY DEF LimitInv, LevelAt, Floor
<1>3. level' \in [Clients -> 0..Capacity] /\ ideal' \in [Clients -> Nat]
  BY <1>2 DEF LimitInv
<1>4. idle' \in [Clients -> 0..MaxIdle] /\ buckets' \subseteq Clients
  BY <1>1 DEF LimitInv, Leak
<1>5. /\ level[c] \in 0..Capacity /\ idle[c] \in 0..MaxIdle /\ ideal[c] \in Nat
      /\ c \in buckets'
      /\ level'[c] = LevelAt(c, lag) + charge
      /\ idle'[c] = IF c \in buckets /\ idle[c] <= lag THEN idle[c] ELSE lag
      /\ ideal'[c] = ideal[c] + charge
  BY DEF LimitInv, Leak
<1>6. Metered(c)'
  BY <1>1, <1>5 DEF LimitInv, Metered, LevelAt, Floor
<1>7. LevelAt(c, 0)' <= LevelAt(c, 0) + charge /\ LevelAt(c, 0)' <= LevelAt(c, lag) + charge
  BY <1>1, <1>5 DEF LevelAt, Floor
<1>8. ASSUME NEW b \in Clients \ {c}
      PROVE  Metered(b)' /\ LevelAt(b, 0)' = LevelAt(b, 0)
  <2>1. /\ b \in buckets' <=> b \in buckets
        /\ level'[b] = level[b] /\ idle'[b] = idle[b] /\ ideal'[b] = ideal[b]
    BY DEF LimitInv, Leak
  <2>. QED  BY <2>1 DEF LimitInv, Metered, LevelAt
<1>. QED  BY <1>3, <1>4, <1>6, <1>7, <1>8

LEMMA AdmitStep ==
  ASSUME LimitInv, NEW c \in Clients, NEW lag \in 0..MaxLag, Admit(c, lag)
  PROVE  LimitInv'
<1>. USE CapacityFitsOne
<1>1. /\ buckets' \subseteq Clients
      /\ level' \in [Clients -> 0..Capacity]
      /\ idle' \in [Clients -> 0..MaxIdle]
      /\ ideal' \in [Clients -> Nat]
      /\ \A b \in Clients : Metered(b)'
      /\ \A b \in Clients \ {c} : LevelAt(b, 0)' = LevelAt(b, 0)
  BY LeakStep DEF Admit, Fits
<1>2. told' \in [Clients -> Nat \cup {NotTold}]
  BY DEF LimitInv, Admit
<1>3. \A b \in Clients : Waiting(b)'
  BY <1>1 DEF LimitInv, Admit, Waiting
<1>. QED  BY <1>1, <1>2, <1>3 DEF LimitInv

LEMMA RejectStep ==
  ASSUME LimitInv, NEW c \in Clients, NEW lag \in 0..MaxLag, Reject(c, lag)
  PROVE  LimitInv'
<1>. USE CapacityFitsOne, ClockAssumption
<1>. DEFINE l == LevelAt(c, lag)
<1>1. l \in 0..Capacity
  BY DEF LimitInv, LevelAt, Floor
<1>2. level' = [level EXCEPT ![c] = l + 0] /\ ideal' = [ideal EXCEPT ![c] = @ + 0]
  <2>1. l + 0 = l /\ ideal[c] + 0 = ideal[c]
    BY <1>1 DEF LimitInv
  <2>2. [ideal EXCEPT ![c] = ideal[c]] = ideal
    BY DEF LimitInv
  <2>3. level' = [level EXCEPT ![c] = l] /\ ideal' = ideal
    BY DEF Reject
  <2>. HIDE DEF l
  <2>. QED  BY <2>1, <2>2, <2>3
<1>3. /\ buckets' \subseteq Clients
      /\ level' \in [Clients -> 0..Capacity]
      /\ idle' \in [Clients -> 0..MaxIdle]
      /\ ideal' \in [Clients -> Nat]
      /\ \A b \in Clients : Metered(b)'
      /\ LevelAt(c, 0)' <= LevelAt(c, 0)
      /\ LevelAt(c, 0)' <= l
      /\ \A b \in Clients \ {c} : LevelAt(b, 0)' = LevelAt(b, 0)
  <2>1. LevelAt(c, 0) \in Nat /\ LevelAt(c, 0) + 0 = LevelAt(c, 0)
    BY DEF LimitInv, LevelAt, Floor, MaxIdle
  <2>2. l + 0 <= Capacity /\ l + 0 = l
    BY <1>1
  <2>3. Leak(c, lag)
    BY DEF Reject
  <2>4. /\ buckets' \subseteq Clients
        /\ level' \in [Clients -> 0..Capacity]
        /\ idle' \in [Clients -> 0..MaxIdle]
        /\ ideal' \in [Clients -> Nat]
        /\ \A b \in Clients : Metered(b)'
        /\ LevelAt(c, 0)' <= LevelAt(c, 0) + 0
        /\ LevelAt(c, 0)' <= l + 0
        /\ \A b \in Clients \ {c} : LevelAt(b, 0)' = LevelAt(b, 0)
    BY <1>2, <2>2, <2>3, LeakStep
  <2>. HIDE DEF l
  <2>. QED  BY <2>1, <2>2, <2>4
<1>4. RetryAfter(l) \in Nat /\ RetryAfter(l) >= l + Cost - Capacity
  BY <1>1, RetryAfterLongEnough DEF Reject
<1>5. told' = [told EXCEPT ![c] = IF @ = NotTold THEN RetryAfter(l) ELSE @]
  BY DEF Reject
<1>. HIDE DEF l
<1>6. told' \in [Clients -> Nat \cup {NotTold}]
  BY <1>4, <1>5 DEF LimitInv
<1>7. ASSUME NEW b \in Clients
      PROVE  Waiting(b)'
  <2>1. CASE b = c
    <3>1. LevelAt(c, 0) \in Nat /\ LevelAt(c, 0)' \in Nat
      BY <1>3 DEF LimitInv, LevelAt, Floor, MaxIdle
    <3>2. told'[c] = IF told[c] = NotTold THEN RetryAfter(l) ELSE told[c]
      BY <1>5 DEF LimitInv
    <3>. QED  BY <1>1, <1>3, <1>4, <2>1, <3>1, <3>2 DEF LimitInv, Waiting, NotTold
  <2>2. CASE b # c
    BY <1>3, <1>5, <2>2 DEF LimitInv, Waiting
  <2>. QED  BY <2>1, <2>2
<1>. QED  BY <1>3, <1>6, <1>7 DEF LimitInv

\* An evicted bucket has been empty, and the ideal one too, for a while.
LEMMA EvictStep ==
  ASSUME LimitInv, NEW lag \in 0..MaxLag, Evict(lag)
  PROVE  LimitInv'
<1>. USE CapacityFitsOne, ClockAssumption, TtlAssumption
<1>. DEFINE old == {c \in buckets : idle[c] - lag > Ttl}
<1>1. /\ buckets' = buckets \ old
      /\ level' = [c \in Clients |-> IF c \in old THEN 0 ELSE level[c]]
      /\ idle' = [c \in Clients |-> IF c \in old THEN 0 ELSE idle[c]]
      /\ ideal' = ideal /\ told' = told
  BY DEF Evict
<1>2. level' \in [Clients -> 0..Capacity] /\ idle' \in [Clients -> 0..MaxIdle]
  BY <1>1 DEF LimitInv, MaxIdle
<1>3. ASSUME NEW c \in Clients
      PROVE  Metered(c)' /\ Waiting(c)'
  <2>1. CASE c \in old
    <3>1. /\ c \in buckets /\ idle[c] \in Nat /\ idle[c] > Ttl
          /\ level[c] \in 0..Capacity /\ ideal[c] \in Nat
          /\ told[c] \in Nat \cup {NotTold}
      BY <2>1 DEF LimitInv, MaxIdle
    <3>2. ideal[c] = 0
      BY <3>1 DEF LimitInv, Metered, Floor
    <3>3. c \notin buckets'
      BY <1>1, <2>1
    <3>. QED  BY <1>1, <3>1, <3>2, <3>3 DEF Metered, Waiting, LevelAt, NotTold
  <2>2. CASE c \notin old
    <3>1. level'[c] = level[c] /\ idle'[c] = idle[c] /\ (c \in buckets' <=> c \in buckets)
      BY <1>1, <2>2
    <3>. QED  BY <1>1, <3>1 DEF LimitInv, Metered, Waiting, LevelAt
  <2>. QED  BY <2>1, <2>2
<1>. QED  BY <1>1, <1>2, <1>3 DEF LimitInv

LEMMA LimitSafe == LimitSpec => []LimitInv
<1>1. LimitInv /\ [LimitNext]_limitVars => LimitInv'
  <2>1. LimitInv /\ UNCHANGED limitVars => LimitInv'
    BY DEF LimitInv, limitVars, Metered, Waiting, LevelAt
  <2>. QED  BY <2>1, TickStep, AdmitStep, RejectStep, EvictStep DEF LimitNext
<1>. QED  BY LimitInvInit, <1>1, PTL DEF LimitSpec

\* Type correctness; in particular a bucket's level stays within its capacity,
\* whichever request reads the clock first.
THEOREM LimitTypes == LimitSpec => []LimitTypeOK
<1>1. LimitInv => LimitTypeOK
  BY DEF LimitInv, LimitTypeOK, NotTold
<1>. QED  BY <1>1, LimitSafe, PTL

\* Eviction and instants out of order grant a client nothing but MaxLag.
THEOREM BurstBounded == LimitSpec => []NoExtraBurst
<1>1. LimitInv => NoExtraBurst
  <2>1. ASSUME LimitInv, NEW c \in Clients
        PROVE  ideal[c] <= Capacity + MaxLag
    BY <2>1, CapacityFitsOne, ClockAssumption DEF LimitInv, Metered, Floor, MaxIdle
  <2>. QED  BY <2>1 DEF NoExtraBurst
<1>. QED  BY <1>1, LimitSafe, PTL

\* A client that waits as long as it was told is let in.
THEOREM WaitSuffices == LimitSpec => []RetryAfterHonest
<1>1. LimitInv => RetryAfterHonest
  <2>1. ASSUME LimitInv, NEW c \in Clients, told[c] = 0
        PROVE  Fits(LevelAt(c, 0))
    <3>1. LevelAt(c, 0) \in Nat
      BY <2>1 DEF LimitInv, LevelAt, Floor, MaxIdle
    <3>. QED  BY <2>1, <3>1, CapacityFitsOne DEF LimitInv, Waiting, Fits, NotTold
  <2>. QED  BY <2>1 DEF RetryAfterHonest
<1>. QED  BY <1>1, LimitSafe, PTL
=============================================================================
