-------------------------- MODULE TimingLoopProofs -------------------------
(***************************************************************************)
(* How far past its limit the loop of Timing::run may go, and that it never*)
(* ends early, for every rule, period, length of the warmup and course of  *)
(* the interval.                                                           *)
(***************************************************************************)
EXTENDS TimingLoop, Integers, TLAPS

-----------------------------------------------------------------------------
(* Remainders of a divisor that is not a number.                            *)

\* A number is its quotient times the divisor, and a remainder below it.
LEMMA Divided ==
  ASSUME NEW n \in Nat, NEW K \in Nat \ {0}
  PROVE  n = K * (n \div K) + (n % K) /\ n % K \in 0..(K-1) /\ n \div K \in Nat
OBVIOUS

\* Multiples of K are K apart.
LEMMA Mono ==
  ASSUME NEW K \in Nat \ {0}, NEW a \in Int, NEW b \in Int, a < b
  PROVE K * a + K <= K * b
<1>1. K * b = K * a + K * (b - a)
  OBVIOUS
<1>2. K * (b - a) >= K
  OBVIOUS
<1> QED BY <1>1, <1>2

\* One number has one remainder.
LEMMA Unique ==
  ASSUME NEW K \in Nat \ {0}, NEW a \in Int, NEW b \in Int, NEW r \in 0..(K-1), NEW s \in 0..(K-1), K*a + r = K*b + s
  PROVE r = s
<1>1. CASE a < b
  BY <1>1, Mono
<1>2. CASE b < a
  BY <1>2, Mono
<1> QED BY <1>1, <1>2

\* A number that is one more has the remainder that is one more, or none.
LEMMA Follows ==
  ASSUME NEW K \in Nat \ {0}, NEW a \in Int, NEW b \in Int, NEW r \in 0..(K-1), NEW s \in 0..(K-1),
         K*b + s = K*a + r + 1
  PROVE  s = IF r = K - 1 THEN 0 ELSE r + 1
<1>1. CASE r = K - 1
  <2>1. K * (a + 1) + 0 = K * b + s
    BY <1>1
  <2> QED BY <2>1, <1>1, Unique
<1>2. CASE r # K - 1
  <2>1. K*b + s = K*a + (r + 1) /\ r + 1 \in 0..(K-1)
    BY <1>2
  <2> QED BY <2>1, <1>2, Unique
<1> QED BY <1>1, <1>2

\* The remainder of the next number.
LEMMA NextRemainder ==
  ASSUME NEW n \in Nat, NEW K \in Nat \ {0}
  PROVE (n+1) % K = IF n % K = K - 1 THEN 0 ELSE (n % K) + 1
<1>0. n + 1 \in Nat
  OBVIOUS
<1>1. n + 1 = K * ((n+1) \div K) + ((n+1) % K) /\ (n+1) % K \in 0..(K-1) /\ (n+1) \div K \in Nat
  BY <1>0, Divided
<1>2. n = K * (n \div K) + (n % K) /\ n % K \in 0..(K-1) /\ n \div K \in Nat
  BY Divided
<1>3. K * ((n+1) \div K) + ((n+1) % K) = K * (n \div K) + (n % K) + 1
  BY <1>1, <1>2

<1> QED BY <1>1, <1>2, <1>3, Follows

-----------------------------------------------------------------------------
(* The rule and its limits.                                                 *)

\* check_every.max(1)
LEMMA EveryIsPositive == Every \in Nat \ {0}
BY TimingAssumption DEF Every

\* A rule has limits.
LEMMA LimitsAreNumbers ==
  ASSUME stop \in Rules
  PROVE  Most \in Nat /\ Least \in Nat
BY TimingAssumption DEF Most, Least

\* At the most of its rule a series is stopped, whatever its interval, and one
\* that is stopped has the least.
LEMMA RuleStopsBetween ==
  ASSUME stop \in Rules, NEW n \in Nat, NEW isNarrow \in BOOLEAN
  PROVE  /\ n >= Most => ShouldStop(n, isNarrow)
         /\ ShouldStop(n, isNarrow) => n >= Least
BY TimingAssumption DEF Most, Least, ShouldStop

-----------------------------------------------------------------------------

\* The last multiple of the period at which the rule was asked, or zero.
Asked == samples - (samples % Every)

\* A series that goes on was below its limit when the rule was last asked:
\* what bounds the samples that were taken since.
Behind == ~returned => Asked = 0 \/ Asked < Most

TimingInv == TimingTypeOK /\ Behind /\ OvershootIsBounded /\ NeverTooFew

LEMMA TimingStarts == TimingInit => TimingInv
<1> SUFFICES ASSUME TimingInit
             PROVE  TimingInv
  OBVIOUS
<1>1. TimingTypeOK
  <2>1. stop \in Rules /\ warmed \in 0..Warmup /\ samples \in Nat
    BY TimingAssumption DEF TimingInit
  <2>2. narrow \in BOOLEAN /\ returned \in BOOLEAN
    BY Zenon DEF TimingInit
  <2> QED
    BY <2>1, <2>2 DEF TimingTypeOK
<1>2. Most \in Nat /\ Every \in Nat \ {0}
  BY EveryIsPositive, LimitsAreNumbers DEF TimingInit
<1>3. samples % Every = 0
  BY <1>2, Divided, Unique DEF TimingInit
<1>4. Behind /\ OvershootIsBounded /\ NeverTooFew
  BY <1>2, <1>3 DEF TimingInit, Behind, Asked, OvershootIsBounded, NeverTooFew
<1> QED
  BY <1>1, <1>4 DEF TimingInv

\* The rule has stopped a series before its length goes round.
LEMMA LengthIsTold ==
  ASSUME TimingInv, Sample
  PROVE  samples' = samples + 1
<1>1. /\ stop \in Rules /\ samples \in Nat /\ Every \in Nat \ {0} /\ ~returned
  BY EveryIsPositive DEF TimingInv, TimingTypeOK, Sample
<1>2. Most \in Nat /\ Most + Every <= Longest /\ Longest \in Nat
  BY <1>1, LimitsAreNumbers, LongestAssumption, TimingAssumption DEF Most
<1>3. samples % Every \in 0..(Every - 1)
  BY <1>1, Divided
<1>4. samples + 1 < Longest + Every
  BY <1>1, <1>2, <1>3 DEF TimingInv, Behind, Asked
<1> QED
  BY <1>1, <1>2, <1>4 DEF Sample, Longer

\* A sample that is not at a multiple leaves the last multiple where it was,
\* and one that is was a period behind: below the limit, or it is the first.
LEMMA SampleKeeps ==
  ASSUME TimingInv, Sample
  PROVE  TimingInv'
<1>1. /\ stop \in Rules /\ stop' = stop /\ warmed' = warmed /\ warmed \in 0..Warmup
      /\ samples \in Nat /\ samples' = samples + 1
      /\ ~returned /\ narrow' \in BOOLEAN
  BY LengthIsTold DEF TimingInv, TimingTypeOK, Sample
<1>2. Every \in Nat \ {0} /\ Every' = Every
  BY EveryIsPositive DEF Every
<1>3. Most \in Nat /\ Most' = Most /\ Least' = Least
  BY <1>1, LimitsAreNumbers DEF Most, Least
<1>4. samples % Every \in 0..(Every - 1)
  BY <1>1, <1>2, Divided
<1>5. samples' % Every = IF samples % Every = Every - 1 THEN 0 ELSE (samples % Every) + 1
  BY <1>1, <1>2, NextRemainder
<1>6. Asked \in Int /\ (Asked = 0 \/ Asked < Most)
  BY <1>1, <1>4 DEF TimingInv, Behind, Asked
<1>7. returned' <=> samples' % Every = 0 /\ ShouldStop(samples', narrow')
  BY DEF Sample
<1>8. TimingTypeOK'
  <2>1. returned' \in BOOLEAN
    BY Zenon DEF Sample
  <2> QED
    BY <1>1, <2>1 DEF TimingTypeOK
<1>9. /\ samples' >= Most => ShouldStop(samples', narrow')
      /\ ShouldStop(samples', narrow') => samples' >= Least
  BY <1>1, RuleStopsBetween
<1>10. NeverTooFew'
  BY <1>2, <1>3, <1>7, <1>9 DEF NeverTooFew
<1>11. CASE samples % Every = Every - 1
  <2>1. samples' % Every = 0 /\ samples' = Asked + Every
    BY <1>1, <1>2, <1>4, <1>5, <1>11 DEF Asked
  <2>2. OvershootIsBounded'
    BY <1>1, <1>2, <1>3, <1>6, <2>1 DEF OvershootIsBounded
  <2>3. Behind'
    <3>1. ~returned' => samples' < Most
      BY <1>1, <1>3, <1>7, <1>9, <2>1
    <3> QED
      BY <1>1, <1>2, <1>3, <2>1, <3>1 DEF Behind, Asked
  <2> QED
    BY <1>8, <1>10, <2>2, <2>3 DEF TimingInv
<1>12. CASE samples % Every # Every - 1
  <2>1. Asked' = Asked /\ samples' = Asked + (samples' % Every) /\ samples' % Every \in 0..(Every - 1)
    BY <1>1, <1>2, <1>4, <1>5, <1>12 DEF Asked
  <2>2. OvershootIsBounded' /\ Behind'
    BY <1>1, <1>2, <1>3, <1>6, <2>1 DEF OvershootIsBounded, Behind
  <2> QED
    BY <1>8, <1>10, <2>2 DEF TimingInv
<1> QED
  BY <1>11, <1>12

LEMMA TimingKept == TimingInv /\ [TimingNext]_timingVars => TimingInv'
<1> SUFFICES ASSUME TimingInv, [TimingNext]_timingVars
             PROVE  TimingInv'
  OBVIOUS
<1>1. CASE Sample
  BY <1>1, SampleKeeps
<1>2. CASE WarmUp
  <2>1. TimingTypeOK'
    BY <1>2, TimingAssumption DEF TimingInv, TimingTypeOK, WarmUp
  <2>2. Behind' /\ OvershootIsBounded' /\ NeverTooFew'
    BY <1>2 DEF TimingInv, Behind, Asked, OvershootIsBounded, NeverTooFew, WarmUp, Most, Least, Every
  <2> QED
    BY <2>1, <2>2 DEF TimingInv
<1>3. CASE UNCHANGED timingVars
  BY <1>3 DEF TimingInv, TimingTypeOK, Behind, Asked, OvershootIsBounded, NeverTooFew,
              timingVars, Most, Least, Every
<1> QED
  BY <1>1, <1>2, <1>3 DEF TimingNext

\* The variables of the loop keep their types, and it never warms up longer
\* than Timing::warmup.
THEOREM TimingTypeCorrect == TimingSpec => []TimingTypeOK
<1>1. TimingInv => TimingTypeOK
  BY DEF TimingInv
<1> QED
  BY <1>1, TimingStarts, TimingKept, PTL DEF TimingSpec

\* Timing::check_every, "A run therefore ends at a multiple of this": whatever
\* the rule, the series is shorter than its limit and one period.
THEOREM OvershootIsBoundedHolds == TimingSpec => []OvershootIsBounded
<1>1. TimingInv => OvershootIsBounded
  BY DEF TimingInv
<1> QED
  BY <1>1, TimingStarts, TimingKept, PTL DEF TimingSpec

\* Stop::IntervalWidth::min, "Never stop before this many samples, however
\* narrow the interval looks", and Stop::After.
THEOREM NeverTooFewHolds == TimingSpec => []NeverTooFew
<1>1. TimingInv => NeverTooFew
  BY DEF TimingInv
<1> QED
  BY <1>1, TimingStarts, TimingKept, PTL DEF TimingSpec

=============================================================================
