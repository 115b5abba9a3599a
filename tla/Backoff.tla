------------------------------- MODULE Backoff -------------------------------
(***************************************************************************)
(* retry.ExponentialDelay, on integers that wrap like Go's: the waits that *)
(* JobStore's Delays stand for.                                            *)
(***************************************************************************)
EXTENDS Integers

CONSTANTS
    Second,   \* units of time in a second
    Width     \* bits of a time.Duration

Half == 2^(Width - 1)

\* The longest delay before the second clamp is 512 seconds; a Duration of 64 bits
\* counts nanoseconds.
ASSUME BackoffAssumption ==
    /\ Second \in Nat \ {0} /\ Width \in Nat /\ Width > 8
    /\ Half \in Nat /\ 512 * Second < Half

Minute == 60 * Second

\* Two's complement.
Wrapped(n) == ((n + Half) % (2 * Half)) - Half

\* 1<<n of a Duration: every bit is shifted out in the end.
Shifted(n) == IF n >= Width THEN 0 ELSE Wrapped(2^n)

\* Bug variant: large attempts are not clamped before the shift.
ClampedBelow(n) == IF n < 0 THEN 0 ELSE n

Clamped(n) == IF n < 0 THEN 0 ELSE IF n > 8 THEN 8 ELSE n

Longest(n) ==
    LET cap == Wrapped(2 * Second * Shifted(Clamped(n)))
    IN  IF cap > 5 * Minute THEN 5 * Minute ELSE cap

\* cap/2 + rand.Int64N(cap/2+1); Int64N panics unless its bound is positive.
ExponentialDelay(n) ==
    LET half == Longest(n) \div 2
    IN  { half + r : r \in 0 .. half }

-----------------------------------------------------------------------------
\* "bounded at five minutes without overflow" (backoff.go:8), and at least a
\* second (backoff_test.go:12), for whatever attempt; and there is always a
\* value to draw: neither the shift nor the draw panics.
Bounded(n) ==
    ExponentialDelay(n) # {} /\ ExponentialDelay(n) \subseteq Second .. 5 * Minute

\* Jitter never undoes the backoff: whatever is drawn, no wait is shorter than
\* half the one before it, also where the clamp takes over from the doubling.
KeepsBackingOff(n) ==
    \A d \in ExponentialDelay(n), e \in ExponentialDelay(n + 1) : 2 * e >= d

\* "first retry 1-2 seconds" (backoff.go:8).
Starts(n) == n = 0 => ExponentialDelay(n) \subseteq Second .. 2 * Second

BacksOff(n) == Bounded(n) /\ KeepsBackingOff(n) /\ Starts(n)

=============================================================================
