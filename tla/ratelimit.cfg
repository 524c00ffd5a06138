SPECIFICATION LimitSpec
CONSTANTS
  Clients = {alice, bob}
  Burst = 2
  Cost = 2
  TicksPerSecond = 3
  Ttl = 5
  MaxLag = 1
SYMMETRY Symmetry
INVARIANT LimitTypeOK
INVARIANT NoExtraBurst
INVARIANT RetryAfterHonest
