------------------------------- MODULE Backoff ------------------------------
(***************************************************************************)
(* The exponential backoff of pending references, of the outbox and of the *)
(* visibility of a message: the same loop three times, over durations that *)
(* are machine integers.  Here a duration is in seconds.                   *)
(***************************************************************************)
EXTENDS Integers

CONSTANTS
  MaxDuration,      \* 2^63 - 1 nanoseconds
  Durations,        \* what may be configured: at most half of what can be held
  LastAttempt       \* bound: the attempts looked at

ASSUME DurationAssumption ==
  /\ MaxDuration \in Nat /\ 2 * 300 <= MaxDuration
  /\ Durations \subseteq Int /\ \A d \in Durations : 2 * d <= MaxDuration + 1
  /\ LastAttempt \in Nat

\* A duration doubled, as the machine keeps it.
Twice(d) == ((2 * d + MaxDuration + 1) % (2 * (MaxDuration + 1))) - MaxDuration - 1

\* What is configured, or the default for what cannot be used.
Effective(configured, default) == IF configured <= 0 THEN default ELSE configured

\* Mutant of Delay: the loop does not look at the limit.
DelayUnbounded(base, max, attempt) ==
  LET d[i \in 0 .. attempt] == IF i <= 1 THEN base ELSE Twice(d[i - 1]) IN d[attempt]

\* The loop's d, before attempt i.
Delay(base, max, attempt) ==
  LET d[i \in 0 .. attempt] == IF i <= 1 THEN base
                               ELSE IF d[i - 1] < max THEN Twice(d[i - 1]) ELSE d[i - 1]
  IN d[attempt]

backoff(base, max, attempt) ==
  LET d == Delay(base, max, attempt) IN IF d > max THEN max ELSE d

-----------------------------------------------------------------------------
(* Reference *)

\* The base, doubled for every attempt after the first, in all the integers.
Doubled(base, attempt) ==
  LET d[i \in 0 .. attempt] == IF i <= 1 THEN base ELSE 2 * d[i - 1] IN d[attempt]

Ideal(base, max, attempt) ==
  LET d == Doubled(base, attempt) IN IF d > max THEN max ELSE d

\* What the first attempts wait for together.
Waits(base, max, attempts) ==
  LET t[n \in 0 .. attempts] == IF n = 0 THEN 0 ELSE t[n - 1] + backoff(base, max, n)
  IN t[attempts]

\* The attempts, from 0, at which the loop is right for every configuration:
\* doubled up to the limit, and the next delay is not a shorter one.
RightAttempts ==
  {n \in 0 .. LastAttempt :
     \A b, m \in Durations :
       LET base == Effective(b, 1)
           max  == Effective(m, 60)
       IN /\ backoff(base, max, n) = Ideal(base, max, n)
          /\ backoff(base, max, n) \in 1 .. backoff(base, max, n + 1)}

\* The limits the documentation gives, in seconds.
AsDocumented == backoff(2, 300, 12) = 300 /\ Waits(1, 60, 10) \in 285 .. 315

=============================================================================
