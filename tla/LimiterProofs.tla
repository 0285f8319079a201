---------------------------- MODULE LimiterProofs ----------------------------
(***************************************************************************)
(* Theorems about the rate limiter, for every set of keys, every rpm and   *)
(* every clock resolution, with their proofs.  The parameters' arithmetic  *)
(* comes first: everything after it knows Interval and Burst only by what  *)
(* those lemmas say.                                                       *)
(***************************************************************************)
EXTENDS Limiter, TLAPS

-----------------------------------------------------------------------------
(* Arithmetic. *)

LEMMA DivNat == ASSUME NEW n \in Nat, NEW r \in Nat, r > 0
                PROVE  n \div r \in Nat /\ (n \div r) * r <= n /\ n < (n \div r + 1) * r
  BY Z3

LEMMA MulNat == \A a, b \in Nat : a * b \in Nat
  OBVIOUS

LEMMA MulMono == \A a, b, c \in Nat : a <= b => a * c <= b * c /\ c * a <= c * b
  OBVIOUS

LEMMA MulSucc == \A a, b \in Nat : (a + 1) * b = a * b + b
  OBVIOUS

LEMMA RpmNat == ASSUME NEW k \in Limited PROVE Rpm[k] \in Nat /\ Rpm[k] > 0
  BY RpmAssumption DEF Limited

LEMMA MinuteNat == Minute \in Nat
  BY ClockAssumption, MulNat DEF Minute

LEMMA IntervalNat == ASSUME NEW k \in Limited PROVE Interval(k) \in Nat
  BY RpmNat, MinuteNat, DivNat DEF Interval

LEMMA BurstNat == ASSUME NEW k \in Limited
                  PROVE  Burst(k) \in Nat /\ Interval(k) <= Burst(k)
<1>1. Interval(k) \in Nat /\ Rpm[k] \in Nat /\ 1 <= Rpm[k]
  BY IntervalNat, RpmNat
<1>2. 1 * Interval(k) <= Rpm[k] * Interval(k)
  BY <1>1, MulMono
<1> QED BY <1>1, <1>2, MulNat DEF Burst

\* A whole second more than Retry-After covers the interval, whatever is cut off.
LEMMA RetryAfterCovers ==
  ASSUME NEW k \in Limited
  PROVE  /\ (RetryAfter(k) + 1) * Second \in Nat
         /\ Interval(k) <= (RetryAfter(k) + 1) * Second
<1> DEFINE r == Rpm[k]
           q == Seconds \div r
<1>1. r \in Nat /\ r > 0 /\ Seconds \in Nat /\ Second \in Nat /\ Second > 0
  BY RpmNat, ClockAssumption
<1>2. q \in Nat /\ Seconds < (q + 1) * r
  BY <1>1, DivNat
<1>3. Interval(k) \in Nat /\ Interval(k) * r <= Minute
  BY <1>1, MinuteNat, DivNat, IntervalNat DEF Interval
<1> HIDE DEF r, q
<1>4. Minute <= ((q + 1) * r) * Second
  BY <1>1, <1>2, MulMono, MulNat DEF Minute
<1>5. ((q + 1) * r) * Second = ((q + 1) * Second) * r
  BY <1>1, <1>2, Z3
<1>6. (q + 1) * Second \in Nat
  BY <1>1, <1>2, MulNat
<1>7. Interval(k) <= (q + 1) * Second
  <2> DEFINE i == Interval(k)
             w == (q + 1) * Second
  <2>1. i \in Nat /\ w \in Nat /\ i * r <= w * r
    BY <1>1, <1>3, <1>4, <1>5, <1>6, MinuteNat, MulNat
  <2> HIDE DEF i, w
  <2>2. SUFFICES ASSUME w + 1 <= i PROVE FALSE
    BY <2>1 DEF i, w
  <2>3. (w + 1) * r <= i * r /\ (w + 1) * r = w * r + r
    BY <2>1, <2>2, <1>1, MulMono, MulSucc
  <2> QED BY <2>1, <2>3, <1>1, MulNat
<1>8. RetryAfter(k) \in Nat /\ q <= RetryAfter(k)
  BY <1>2 DEF RetryAfter, q, r
<1>9. (q + 1) * Second <= (RetryAfter(k) + 1) * Second
      /\ (RetryAfter(k) + 1) * Second \in Nat
  BY <1>1, <1>2, <1>8, MulMono, MulNat
<1> QED BY <1>3, <1>6, <1>7, <1>9

-----------------------------------------------------------------------------
(* The bucket. *)

LEMMA Fields ==
  ASSUME LimiterTypeOK, NEW k \in Limited
  PROVE  /\ bucket[k].credit \in Nat /\ bucket[k].last \in Nat
         /\ clock \in Nat /\ started \in Nat /\ started <= clock
         /\ \A t \in Time : since[k][t] \in Nat
  BY ClockAssumption DEF LimiterTypeOK, Time

\* Between the last use and now a bucket has gained, up to its burst.
LEMMA CreditIs ==
  ASSUME LimiterTypeOK, NEW k \in Limited,
         bucket[k].last <= clock, bucket[k].credit <= Burst(k)
  PROVE  /\ Credit(k) \in Nat /\ Credit(k) <= Burst(k)
         /\ bucket[k].credit <= Credit(k)
         /\ Credit(k) <= bucket[k].credit + (clock - bucket[k].last)
         /\ Credit(k) = Burst(k)
              \/ Credit(k) = bucket[k].credit + (clock - bucket[k].last)
  BY Fields, BurstNat DEF Credit

LEMMA InitInv == LimiterInit => LimiterInv
<1> SUFFICES ASSUME LimiterInit PROVE LimiterInv
  OBVIOUS
<1>1. 0 \in Time
  BY ClockAssumption DEF Time
<1>2. \A k \in Limited : FullAt(k, 0) \in [credit : Nat, last : Time]
  BY <1>1, BurstNat DEF FullAt
<1>3. LimiterTypeOK
  BY <1>1, <1>2 DEF LimiterInit, LimiterTypeOK
<1>4. WindowInv
  <2> SUFFICES ASSUME NEW k \in Limited
               PROVE  /\ bucket[k].last <= clock /\ bucket[k].credit <= Burst(k)
                      /\ \A t \in Time :
                           /\ t > clock => since[k][t] = 0
                           /\ t \in started .. clock =>
                                since[k][t] * Interval(k) + Credit(k) <= Burst(k) + (clock - t)
    BY DEF WindowInv
  <2>1. bucket[k].last = 0 /\ bucket[k].credit = Burst(k) /\ clock = 0 /\ started = 0
    BY DEF LimiterInit, FullAt
  <2>2. Credit(k) = Burst(k) /\ Burst(k) \in Nat /\ Interval(k) \in Nat
    BY <2>1, BurstNat, IntervalNat DEF Credit
  <2>3. \A t \in Time : since[k][t] = 0
    BY DEF LimiterInit
  <2> QED BY <2>1, <2>2, <2>3
<1>5. RefusalInv
  BY DEF LimiterInit, RefusalInv
<1> QED BY <1>3, <1>4, <1>5 DEF LimiterInv

-----------------------------------------------------------------------------
(* One lemma per action. *)

\* Time passes: every window ending now grows by a tick, and a bucket gains at
\* most a tick; the window that begins now is empty.
LEMMA TickStep == ASSUME LimiterInv, Tick PROVE LimiterInv'
<1>1. clock \in Nat /\ clock' = clock + 1 /\ clock' \in Time
      /\ started' = started /\ bucket' = bucket /\ since' = since /\ refused' = refused
  BY ClockAssumption DEF Tick, LimiterInv, LimiterTypeOK, Time
<1>2. LimiterTypeOK'
  BY <1>1, ClockAssumption DEF LimiterInv, LimiterTypeOK, Time
<1>3. ASSUME NEW k \in Limited
      PROVE  Credit(k) \in Nat /\ Credit(k)' \in Nat
             /\ Credit(k) <= Credit(k)' /\ Credit(k)' <= Credit(k) + 1
             /\ Credit(k) <= Burst(k) /\ Credit(k)' <= Burst(k)
  <2>1. bucket[k].last <= clock /\ bucket[k].credit <= Burst(k)
    BY DEF LimiterInv, WindowInv
  <2>2. bucket[k].credit \in Nat /\ bucket[k].last \in Nat
    BY Fields DEF LimiterInv
  <2> QED BY <1>1, <2>1, <2>2, BurstNat DEF Credit, Burst, Interval
<1>4. WindowInv'
  <2> SUFFICES ASSUME NEW k \in Limited
               PROVE  /\ bucket[k].last <= clock' /\ bucket[k].credit <= Burst(k)
                      /\ \A t \in Time :
                           /\ t > clock' => since[k][t] = 0
                           /\ t \in started .. clock' =>
                                since[k][t] * Interval(k) + Credit(k)' <= Burst(k) + (clock' - t)
    BY <1>1 DEF WindowInv, Burst, Interval
  <2>1. /\ bucket[k].last <= clock /\ bucket[k].credit <= Burst(k)
        /\ \A t \in Time :
             /\ t > clock => since[k][t] = 0
             /\ t \in started .. clock =>
                  since[k][t] * Interval(k) + Credit(k) <= Burst(k) + (clock - t)
    BY DEF LimiterInv, WindowInv
  <2>2. Interval(k) \in Nat /\ Burst(k) \in Nat /\ started \in Nat
        /\ \A t \in Time : since[k][t] * Interval(k) \in Nat
    BY IntervalNat, BurstNat, Fields, MulNat DEF LimiterInv
  <2>3. bucket[k].last <= clock'
    BY <1>1, <2>1, Fields DEF LimiterInv
  <2>4. ASSUME NEW t \in Time
        PROVE  /\ t > clock' => since[k][t] = 0
               /\ t \in started .. clock' =>
                    since[k][t] * Interval(k) + Credit(k)' <= Burst(k) + (clock' - t)
    <3>1. CASE t = clock + 1
      <4>1. since[k][t] = 0 /\ since[k][t] * Interval(k) = 0
        BY <3>1, <2>1, <2>2, <1>1
      <4> QED BY <3>1, <4>1, <1>1, <1>3, <2>2
    <3>2. CASE t # clock + 1
      <4> DEFINE n == since[k][t] * Interval(k)
      <4>1. n \in Nat /\ t \in Nat
        BY <2>2 DEF Time
      <4>2. t > clock' => since[k][t] = 0
        BY <1>1, <2>1, <4>1
      <4>3. t \in started .. clock' => n + Credit(k) <= Burst(k) + (clock - t)
        BY <1>1, <2>1, <2>2, <3>2, <4>1
      <4> HIDE DEF n
      <4>4. t \in started .. clock' => n + Credit(k)' <= Burst(k) + (clock' - t)
        BY <1>1, <1>3, <2>2, <4>1, <4>3
      <4> QED BY <4>2, <4>4 DEF n
    <3> QED BY <3>1, <3>2
  <2> QED BY <2>1, <2>3, <2>4
<1>5. RefusalInv'
  <2> SUFFICES ASSUME NEW k \in Limited, NEW t \in refused[k]
               PROVE  /\ bucket[k].last <= t /\ t <= clock'
                      /\ clock' - t >= Interval(k) => Credit(k)' >= Interval(k)
    BY <1>1 DEF RefusalInv, HasToken, Interval
  <2>1. bucket[k].last <= t /\ t <= clock /\ t \in Nat
    BY DEF LimiterInv, RefusalInv, LimiterTypeOK, Time
  <2>2. bucket[k].credit \in Nat /\ bucket[k].last \in Nat
    BY Fields DEF LimiterInv
  <2>3. Credit(k)' = Burst(k) \/ Credit(k)' = bucket[k].credit + (clock' - bucket[k].last)
    BY <1>1 DEF Credit, Burst, Interval
  <2> QED BY <1>1, <2>1, <2>2, <2>3, BurstNat, IntervalNat
<1> QED BY <1>2, <1>4, <1>5 DEF LimiterInv

\* A new process: full buckets, and nothing has passed since it started.
LEMMA RestartStep == ASSUME LimiterInv, Restart PROVE LimiterInv'
<1>1. clock \in Time /\ clock \in Nat /\ clock' = clock /\ started' = clock
  BY ClockAssumption DEF Restart, LimiterInv, LimiterTypeOK, Time
<1>2. \A k \in Limited : /\ FullAt(k, clock) \in [credit : Nat, last : Time]
                         /\ bucket'[k].credit = Burst(k) /\ bucket'[k].last = clock
                         /\ refused'[k] = {}
                         /\ \A t \in Time : since'[k][t] = 0
  BY <1>1, BurstNat DEF Restart, FullAt
<1>3. LimiterTypeOK'
  BY <1>1, <1>2 DEF Restart, LimiterTypeOK
<1>4. WindowInv'
  <2> SUFFICES ASSUME NEW k \in Limited
               PROVE  /\ bucket'[k].last <= clock /\ bucket'[k].credit <= Burst(k)
                      /\ \A t \in Time :
                           /\ t > clock => since'[k][t] = 0
                           /\ t \in clock .. clock =>
                                since'[k][t] * Interval(k) + Credit(k)' <= Burst(k) + (clock - t)
    BY <1>1 DEF WindowInv, Burst, Interval
  <2>1. Burst(k) \in Nat /\ Interval(k) \in Nat
    BY BurstNat, IntervalNat
  <2>2. Credit(k)' = Burst(k)
    BY <1>1, <1>2, <2>1 DEF Credit, Burst, Interval
  <2> QED BY <1>1, <1>2, <2>1, <2>2
<1>5. RefusalInv'
  BY <1>2 DEF RefusalInv
<1> QED BY <1>3, <1>4, <1>5 DEF LimiterInv

\* A refusal leaves the bucket alone and is remembered if it is the first.
LEMMA RefuseStep ==
  ASSUME LimiterInv, NEW a \in Keys, AllowRefuses(a) PROVE LimiterInv'
<1>1. /\ clock' = clock /\ started' = started /\ bucket' = bucket /\ since' = since
      /\ clock \in Time /\ clock \in Nat /\ a \in Limited /\ ~HasToken(a)
  BY DEF AllowRefuses, LimiterInv, LimiterTypeOK, Time
<1>2. LimiterTypeOK'
  BY <1>1 DEF AllowRefuses, LimiterInv, LimiterTypeOK
<1>3. \A k \in Limited : Credit(k)' = Credit(k)
  BY <1>1 DEF Credit, Burst, Interval
<1>4. WindowInv'
  BY <1>1, <1>3 DEF LimiterInv, WindowInv, Burst, Interval
<1>5. RefusalInv'
  <2> SUFFICES ASSUME NEW k \in Limited, NEW t \in refused'[k]
               PROVE  /\ bucket[k].last <= t /\ t <= clock
                      /\ clock - t >= Interval(k) => HasToken(k)
    BY <1>1, <1>3 DEF RefusalInv, HasToken, Interval
  <2>1. t \in refused[k] \/ (k = a /\ t = clock)
    BY DEF AllowRefuses, LimiterInv, LimiterTypeOK
  <2>2. CASE t \in refused[k]
    BY <2>2 DEF LimiterInv, RefusalInv
  <2>3. CASE k = a /\ t = clock
    <3>1. bucket[k].last <= clock
      BY DEF LimiterInv, WindowInv
    <3>2. ~(clock - t >= Interval(k))
      <4>1. Credit(k) \in Nat /\ Interval(k) \in Nat /\ Credit(k) < Interval(k)
        BY <1>1, <2>3, CreditIs, IntervalNat DEF LimiterInv, WindowInv, HasToken
      <4> QED BY <4>1, <2>3, <1>1
    <3> QED BY <2>3, <3>1, <3>2, <1>1
  <2> QED BY <2>1, <2>2, <2>3
<1> QED BY <1>2, <1>4, <1>5 DEF LimiterInv

\* A request that passes is one more in every window and one interval less in the
\* bucket.
LEMMA PassStep ==
  ASSUME LimiterInv, NEW a \in Keys, AllowPasses(a) PROVE LimiterInv'
<1>1. /\ clock' = clock /\ started' = started /\ a \in Limited
      /\ clock \in Time /\ clock \in Nat /\ HasToken(a)
  BY DEF AllowPasses, LimiterInv, LimiterTypeOK, Time
<1>2. /\ Credit(a) \in Nat /\ Credit(a) <= Burst(a) /\ Interval(a) <= Credit(a)
      /\ Interval(a) \in Nat /\ Burst(a) \in Nat
  BY <1>1, CreditIs, IntervalNat, BurstNat DEF LimiterInv, WindowInv, HasToken
<1>3. Take(a) \in [credit : Nat, last : Time]
  BY <1>1, <1>2 DEF Take
<1>4. /\ bucket' \in [Limited -> [credit : Nat, last : Time]]
      /\ bucket'[a].credit = Credit(a) - Interval(a) /\ bucket'[a].last = clock
      /\ \A k \in Limited : k # a => bucket'[k] = bucket[k]
  BY <1>1, <1>3 DEF AllowPasses, LimiterInv, LimiterTypeOK, Take
<1>5. /\ since' \in [Limited -> [Time -> Nat]]
      /\ \A t \in Time : since'[a][t] = IF t <= clock THEN since[a][t] + 1 ELSE since[a][t]
      /\ \A k \in Limited : k # a => since'[k] = since[k]
  <2> DEFINE row == [t \in Time |-> IF t <= clock THEN since[a][t] + 1 ELSE since[a][t]]
  <2>1. since' = [since EXCEPT ![a] = row]
    BY DEF AllowPasses
  <2>2. row \in [Time -> Nat]
    BY <1>1, Fields DEF LimiterInv
  <2>3. \A t \in Time : row[t] = IF t <= clock THEN since[a][t] + 1 ELSE since[a][t]
    OBVIOUS
  <2> HIDE DEF row
  <2>4. since \in [Limited -> [Time -> Nat]]
    BY DEF LimiterInv, LimiterTypeOK
  <2> QED BY <1>1, <2>1, <2>2, <2>3, <2>4
<1>6. /\ refused' \in [Limited -> SUBSET Time] /\ refused'[a] = {}
      /\ \A k \in Limited : k # a => refused'[k] = refused[k]
  BY <1>1 DEF AllowPasses, LimiterInv, LimiterTypeOK
<1>7. LimiterTypeOK'
  BY <1>1, <1>4, <1>5, <1>6 DEF LimiterInv, LimiterTypeOK
<1>8. \A k \in Limited : k # a => Credit(k)' = Credit(k)
  BY <1>1, <1>4 DEF Credit, Burst, Interval
<1>9. Credit(a)' = Credit(a) - Interval(a)
  BY <1>1, <1>2, <1>4 DEF Credit, Burst, Interval
<1>10. WindowInv'
  <2> SUFFICES ASSUME NEW k \in Limited
               PROVE  /\ bucket'[k].last <= clock /\ bucket'[k].credit <= Burst(k)
                      /\ \A t \in Time :
                           /\ t > clock => since'[k][t] = 0
                           /\ t \in started .. clock =>
                                since'[k][t] * Interval(k) + Credit(k)' <= Burst(k) + (clock - t)
    BY <1>1 DEF WindowInv, Burst, Interval
  <2>1. /\ bucket[k].last <= clock /\ bucket[k].credit <= Burst(k)
        /\ \A t \in Time :
             /\ t > clock => since[k][t] = 0
             /\ t \in started .. clock =>
                  since[k][t] * Interval(k) + Credit(k) <= Burst(k) + (clock - t)
    BY DEF LimiterInv, WindowInv
  <2>2. CASE k # a
    BY <2>1, <2>2, <1>4, <1>5, <1>8
  <2>3. CASE k = a
    <3>1. bucket'[k].last <= clock /\ bucket'[k].credit <= Burst(k)
      BY <2>3, <1>1, <1>2, <1>4
    <3>2. ASSUME NEW t \in Time
          PROVE  /\ t > clock => since'[k][t] = 0
                 /\ t \in started .. clock =>
                      since'[k][t] * Interval(k) + Credit(k)' <= Burst(k) + (clock - t)
      <4> DEFINE n == since[k][t]
                 i == Interval(k)
      <4>1. n \in Nat /\ i \in Nat /\ t \in Nat
        BY <2>3, <1>2, Fields DEF LimiterInv, Time
      <4>2. n * i \in Nat /\ (n + 1) * i = n * i + i
        BY <4>1, MulNat, MulSucc
      <4>3. t > clock => since'[k][t] = 0
        BY <2>1, <2>3, <1>1, <1>5, <4>1
      <4>4. t <= clock => since'[k][t] = n + 1
        BY <2>3, <1>5
      <4>5. Credit(k)' = Credit(k) - i
        BY <2>3, <1>9
      <4>6. t \in started .. clock => n * i + Credit(k) <= Burst(k) + (clock - t)
        BY <2>1
      <4> HIDE DEF n, i
      <4>7. ASSUME t \in started .. clock
            PROVE  (n + 1) * i + Credit(k)' <= Burst(k) + (clock - t)
        BY <4>1, <4>2, <4>5, <4>6, <4>7, <2>3, <1>1, <1>2
      <4>8. t \in started .. clock => since'[k][t] * i = (n + 1) * i
        BY <4>1, <4>4, <1>1
      <4> QED BY <4>3, <4>7, <4>8 DEF i
    <3> QED BY <3>1, <3>2
  <2> QED BY <2>2, <2>3
<1>11. RefusalInv'
  <2> SUFFICES ASSUME NEW k \in Limited, NEW t \in refused'[k]
               PROVE  /\ bucket'[k].last <= t /\ t <= clock
                      /\ clock - t >= Interval(k) => Credit(k)' >= Interval(k)
    BY <1>1 DEF RefusalInv, HasToken, Interval
  <2>1. k # a /\ t \in refused[k]
    BY <1>6
  <2> QED BY <2>1, <1>4, <1>8 DEF LimiterInv, RefusalInv, HasToken
<1> QED BY <1>7, <1>10, <1>11 DEF LimiterInv

LEMMA NextInv == LimiterInv /\ [LimiterNext]_limiterVars => LimiterInv'
<1> SUFFICES ASSUME LimiterInv, [LimiterNext]_limiterVars PROVE LimiterInv'
  OBVIOUS
<1>1. ASSUME UNCHANGED limiterVars PROVE LimiterInv'
  BY <1>1 DEF limiterVars, LimiterInv, LimiterTypeOK, WindowInv, RefusalInv,
              HasToken, Credit, Burst, Interval
<1>2. CASE Tick
  BY <1>2, TickStep
<1>3. CASE Restart
  BY <1>3, RestartStep
<1>4. ASSUME NEW k \in Keys, AllowUnlimited(k) PROVE LimiterInv'
  BY <1>1, <1>4 DEF AllowUnlimited
<1>5. ASSUME NEW k \in Keys, AllowPasses(k) PROVE LimiterInv'
  BY <1>5, PassStep
<1>6. ASSUME NEW k \in Keys, AllowRefuses(k) PROVE LimiterInv'
  BY <1>6, RefuseStep
<1> QED BY <1>1, <1>2, <1>3, <1>4, <1>5, <1>6 DEF LimiterNext

-----------------------------------------------------------------------------
(* The theorems. *)

\* The inductive invariant of the limiter: buckets and clocks keep their types,
\* what passed and what is left stay within the burst and the time that went by.
THEOREM LimiterInvariance == LimiterSpec => []LimiterInv
  BY InitInv, NextInv, PTL DEF LimiterSpec

\* In every window of every length, for every rpm: no more requests pass than the
\* burst and the elapsed intervals pay for.
THEOREM WindowBounded == LimiterSpec => []WindowBound
<1>1. LimiterInv => WindowBound
  <2> SUFFICES ASSUME LimiterInv, NEW k \in Limited, NEW t \in started .. clock
               PROVE  since[k][t] * Interval(k) <= Burst(k) + (clock - t)
    BY DEF WindowBound
  <2>1. clock \in Nat /\ started \in Nat /\ t \in Time /\ t \in Nat
    BY ClockAssumption DEF LimiterInv, LimiterTypeOK, Time
  <2>2. since[k][t] * Interval(k) + Credit(k) <= Burst(k) + (clock - t)
    BY <2>1 DEF LimiterInv, WindowInv
  <2>3. since[k][t] * Interval(k) \in Nat /\ Credit(k) \in Nat /\ Burst(k) \in Nat
    <3>1. since[k][t] \in Nat
      BY <2>1, Fields DEF LimiterInv
    <3>2. Credit(k) \in Nat
      BY CreditIs DEF LimiterInv, WindowInv
    <3> QED BY <3>1, <3>2, IntervalNat, BurstNat, MulNat
  <2> QED BY <2>1, <2>2, <2>3
<1> QED BY LimiterInvariance, <1>1, PTL

\* For every rpm, and whatever Retry-After was cut to: one second more is enough.
THEOREM RetriesInTime == LimiterSpec => []RetryInTime
<1>1. LimiterInv => RetryInTime
  <2> SUFFICES ASSUME LimiterInv, NEW k \in Limited, NEW t \in refused[k],
                      clock - t >= (RetryAfter(k) + 1) * Second
               PROVE  HasToken(k)
    BY DEF RetryInTime
  <2>1. clock \in Nat /\ t \in Nat
    BY ClockAssumption DEF LimiterInv, LimiterTypeOK, Time
  <2>2. clock - t >= Interval(k)
    BY <2>1, RetryAfterCovers, IntervalNat
  <2> QED BY <2>2 DEF LimiterInv, RefusalInv
<1> QED BY LimiterInvariance, <1>1, PTL
=============================================================================
