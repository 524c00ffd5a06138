------------------------------ MODULE Backoff -------------------------------
(***************************************************************************)
(* The delay before a retry: domain.Backoff (internal/domain/backoff.go),  *)
(* shared by the outbox relay, the consumers and the ticket notifications. *)
(* time.Duration is an int64; here it is an integer of Width bits.         *)
(***************************************************************************)
EXTENDS Integers

CONSTANT Width   \* 64 in the code

ASSUME WidthAssumption == Width \in Nat /\ Width > 2

\* What ^ means; the provers need to be told.
ASSUME PowersAssumption ==
  \A k \in 0..Width : 2^k = IF k = 0 THEN 1 ELSE 2 * 2^(k - 1)

\* Two's complement: what an integer of Width bits holds of n.
Wrap(n) ==
  LET m == n % 2^Width IN IF m >= 2^(Width - 1) THEN m - 2^Width ELSE m

\* The retry count as a shift: never negative, and 1<<62 is the last power of
\* two an int64 holds.
MaxShift == Width - 2

Shift(retryCount) ==
  IF retryCount < 0 THEN 0
  ELSE IF retryCount > MaxShift THEN MaxShift ELSE retryCount

\* Mutant: the delay keeps doubling.
CeilingUncapped(retryCount, base, cap) ==
  LET d == Wrap(base * 2^Shift(retryCount)) IN IF d <= 0 THEN cap ELSE d

\* The delay before jitter.  A product that overflowed to something negative,
\* or to zero, counts as too long.
Ceiling(retryCount, base, cap) ==
  LET d == Wrap(base * 2^Shift(retryCount)) IN IF d <= 0 \/ d > cap THEN cap ELSE d

\* The delays Backoff can return: full jitter, but never zero.
BackoffDelays(retryCount, base, cap) ==
  LET d == Ceiling(retryCount, base, cap) IN IF d <= 0 THEN {0} ELSE 1..d
=============================================================================
