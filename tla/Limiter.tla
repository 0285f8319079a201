------------------------------ MODULE Limiter ------------------------------
(***************************************************************************)
(* The rate limiter: keyLimiters (limiter.go), a token bucket per key that *)
(* starts full with rpm tokens and gains one token per minute/rpm, an      *)
(* integer division of nanoseconds.  requireVirtualKey (auth.go) turns a   *)
(* refusal into 429 with a Retry-After in whole seconds.                   *)
(*                                                                         *)
(* The bucket itself is golang.org/x/time/rate, outside src/: Allow is one *)
(* step (it holds the limiter's own mutex) and takes the time as it is in  *)
(* that step.  Tokens are counted in clock ticks, Interval ticks each, so  *)
(* that fractions of a token are exact.  A bucket that was never made and  *)
(* a full one are the same bucket: it is made, full, when it is first      *)
(* asked, and a full bucket gains nothing by waiting.                      *)
(***************************************************************************)
EXTENDS Naturals

CONSTANTS
  Keys,      \* virtual keys
  Rpm,       \* rpm_limit of each key, 0 for none; it never changes
  Second,    \* clock ticks in a second, 10^9 in the code
  Seconds,   \* seconds in a minute, 60 in the code
  Horizon    \* the clock is followed up to this tick

ASSUME RpmAssumption   == Rpm \in [Keys -> Nat]
ASSUME ClockAssumption == /\ Second \in Nat \ {0} /\ Seconds \in Nat \ {0}
                          /\ Horizon \in Nat

VARIABLES
  clock,     \* time.Now()
  started,   \* ghost: when this process started
  bucket,    \* the rate.Limiter of each key: its tokens, and when it was last used
  since,     \* ghost: since[k][t] is how many requests of k passed at t or later
  refused    \* ghost: when k was first refused since one of its requests passed

limiterVars == <<clock, started, bucket, since, refused>>

Time == 0 .. Horizon
Minute == Seconds * Second
Limited == {k \in Keys : Rpm[k] > 0}

\* rate.Every(time.Minute / time.Duration(rpm)); zero means no limit to rate.
Interval(k) == Minute \div Rpm[k]
Burst(k)    == Rpm[k] * Interval(k)
FullAt(k, t) == [credit |-> Burst(k), last |-> t]

\* Mutant: a bucket that is not used grows beyond its burst.
CreditUncapped(k) == bucket[k].credit + (clock - bucket[k].last)

\* What is in the bucket now.
Credit(k) ==
  LET earned == bucket[k].credit + (clock - bucket[k].last)
  IN  IF earned <= Burst(k) THEN earned ELSE Burst(k)

LimiterTypeOK ==
  /\ clock \in Time /\ started \in 0 .. clock
  /\ bucket \in [Limited -> [credit : Nat, last : Time]]
  /\ since \in [Limited -> [Time -> Nat]]
  /\ refused \in [Limited -> SUBSET Time]

LimiterInit ==
  /\ clock = 0 /\ started = 0
  /\ bucket = [k \in Limited |-> FullAt(k, 0)]
  /\ since = [k \in Limited |-> [t \in Time |-> 0]]
  /\ refused = [k \in Limited |-> {}]

-----------------------------------------------------------------------------
Tick ==
  /\ clock < Horizon
  /\ clock' = clock + 1
  /\ UNCHANGED <<started, bucket, since, refused>>

\* The process is started again: newKeyLimiters, no bucket is remembered.
Restart ==
  /\ started' = clock
  /\ bucket' = [k \in Limited |-> FullAt(k, clock)]
  /\ since' = [k \in Limited |-> [t \in Time |-> 0]]
  /\ refused' = [k \in Limited |-> {}]
  /\ UNCHANGED clock

\* Mutant: the bucket is charged but never consulted.
HasTokenAlways(k) == TRUE

HasToken(k) == Credit(k) >= Interval(k)

\* rpm <= 0: no bucket is looked at.
AllowUnlimited(k) ==
  /\ k \notin Limited
  /\ UNCHANGED limiterVars

\* Mutant: the time of the last use is not moved, so that what was earned before
\* it is earned again.
TakeForgetsTime(k) == [credit |-> Credit(k) - Interval(k), last |-> bucket[k].last]

Take(k) == [credit |-> Credit(k) - Interval(k), last |-> clock]

AllowPasses(k) ==
  /\ k \in Limited /\ HasToken(k)
  /\ bucket' = [bucket EXCEPT ![k] = Take(k)]
  /\ since' = [since EXCEPT ![k] =
                 [t \in Time |-> IF t <= clock THEN @[t] + 1 ELSE @[t]]]
  /\ refused' = [refused EXCEPT ![k] = {}]
  /\ UNCHANGED <<clock, started>>

\* Mutant: a refusal starts the waiting anew.
RefusalResets(k) ==
  /\ k \in Limited /\ ~HasToken(k)
  /\ bucket' = [bucket EXCEPT ![k] = [credit |-> 0, last |-> clock]]
  /\ refused' = [refused EXCEPT ![k] = IF @ = {} THEN {clock} ELSE @]
  /\ UNCHANGED <<clock, started, since>>

\* A refusal takes nothing and leaves the bucket as it is.
AllowRefuses(k) ==
  /\ k \in Limited /\ ~HasToken(k)
  /\ refused' = [refused EXCEPT ![k] = IF @ = {} THEN {clock} ELSE @]
  /\ UNCHANGED <<clock, started, bucket, since>>

LimiterNext ==
  \/ Tick \/ Restart
  \/ \E k \in Keys : AllowUnlimited(k) \/ AllowPasses(k) \/ AllowRefuses(k)

LimiterSpec == LimiterInit /\ [][LimiterNext]_limiterVars

-----------------------------------------------------------------------------
(* Properties *)

\* What rpm_limit bounds, in any window that ends now and begins after the
\* process did: a burst of rpm and one request per interval, so up to twice rpm in
\* one minute, however the requests are spaced (the burst is wanted, limiter.go:35).
\* n requests in d ticks: n * interval <= rpm * interval + d.
WindowBound ==
  \A k \in Limited, t \in started .. clock :
    since[k][t] * Interval(k) <= Burst(k) + (clock - t)

\* The inductive form: what is left in the bucket counts as well.
WindowInv ==
  \A k \in Limited :
    /\ bucket[k].last <= clock /\ bucket[k].credit <= Burst(k)
    /\ \A t \in Time :
         /\ t > clock => since[k][t] = 0
         /\ t \in started .. clock =>
              since[k][t] * Interval(k) + Credit(k) <= Burst(k) + (clock - t)

\* time.Minute/rpm is cut to whole ticks, Retry-After to whole seconds (auth.go:61).
RetryAfter(k) == LET s == Seconds \div Rpm[k] IN IF s >= 1 THEN s ELSE 1

\* A client that was refused and waits one second longer than Retry-After said is
\* let in, unless another request of its key took the token, and however often it
\* asked meanwhile: asking too early never pushes the moment back.
RetryInTime ==
  \A k \in Limited : \A t \in refused[k] :
    clock - t >= (RetryAfter(k) + 1) * Second => HasToken(k)

\* The same with the exact interval; Retry-After may fall short of it.
RefusalInv ==
  \A k \in Limited : \A t \in refused[k] :
    /\ bucket[k].last <= t /\ t <= clock
    /\ clock - t >= Interval(k) => HasToken(k)

LimiterInv == LimiterTypeOK /\ WindowInv /\ RefusalInv
=============================================================================
