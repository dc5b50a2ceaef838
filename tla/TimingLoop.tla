----------------------------- MODULE TimingLoop ----------------------------
(***************************************************************************)
(* Timing::run and Stop::should_stop of crates/bench-core/src/measure.rs:  *)
(* the warmup, the samples and how often the stopping rule is asked.  What *)
(* a sample measured is abstracted to whether the interval on the series   *)
(* is as narrow as the rule's target, which each sample may change.        *)
(***************************************************************************)
EXTENDS Naturals

CONSTANTS
  Warmup,      \* Timing::warmup
  CheckEvery,  \* Timing::check_every
  Longest,     \* bound: of longer series only the remainder by the period is told
  Rules        \* the stopping rules: [kind : {"after"}, samples : Nat] or
               \* [kind : {"width"}, min : Nat, max : Nat]

ASSUME TimingAssumption ==
  /\ Warmup \in Nat /\ CheckEvery \in Nat
  /\ \A rule \in Rules :
       \/ rule.kind = "after" /\ rule.samples \in Nat
       \/ rule.kind = "width" /\ rule.min \in Nat /\ rule.max \in Nat

\* check_every.max(1)
Every == IF CheckEvery = 0 THEN 1 ELSE CheckEvery

\* A rule that has not stopped a series by then asks no more how long it is,
\* and the series has been too long for a while.
ASSUME LongestAssumption ==
  /\ Longest \in Nat
  /\ \A rule \in Rules :
       \/ rule.kind = "after" /\ rule.samples + Every <= Longest
       \/ rule.kind = "width" /\ rule.min + Every <= Longest /\ rule.max + Every <= Longest

VARIABLES
  stop,      \* Timing::stop
  warmed,    \* runs of the warmup so far
  samples,   \* samples in the series
  narrow,    \* the interval on the series is within the rule's target
  returned   \* run has returned the series

timingVars == <<stop, warmed, samples, narrow, returned>>

\* The warmup never runs longer than it was asked to.
TimingTypeOK ==
  /\ stop \in Rules
  /\ warmed \in 0..Warmup
  /\ samples \in Nat
  /\ narrow \in BOOLEAN
  /\ returned \in BOOLEAN

TimingInit ==
  /\ stop \in Rules
  /\ warmed = 0 /\ samples = 0
  /\ narrow = FALSE /\ returned = FALSE

\* A run whose time is thrown away.
WarmUp ==
  /\ warmed < Warmup
  /\ warmed' = warmed + 1
  /\ UNCHANGED <<stop, samples, narrow, returned>>

\* A slip in ShouldStop: the limit itself is not enough to stop at.
ShouldStop_Strict(n, isNarrow) ==
  IF stop.kind = "after" THEN n >= stop.samples
  ELSE n >= stop.min /\ (n > stop.max \/ isNarrow)

\* A slip in ShouldStop: a narrow interval is enough however few samples it is from.
ShouldStop_NoLeast(n, isNarrow) ==
  IF stop.kind = "after" THEN n >= stop.samples
  ELSE n >= stop.max \/ isNarrow

\* A slip in ShouldStop: only a narrow interval is enough, however many samples there are.
ShouldStop_NoMost(n, isNarrow) ==
  IF stop.kind = "after" THEN n >= stop.samples
  ELSE n >= stop.min /\ isNarrow

\* Stop::should_stop, of a series of n samples.
ShouldStop(n, isNarrow) ==
  IF stop.kind = "after" THEN n >= stop.samples
  ELSE n >= stop.min /\ (n >= stop.max \/ isNarrow)

\* The length of a series with one more sample, which goes round past Longest.
Longer(n) == IF n + 1 = Longest + Every THEN Longest ELSE n + 1

\* A sample is pushed, and at every so many of them the rule is asked.
Sample ==
  /\ warmed = Warmup /\ ~returned
  /\ samples' = Longer(samples)
  /\ narrow' \in BOOLEAN
  /\ returned' = (samples' % Every = 0 /\ ShouldStop(samples', narrow'))
  /\ UNCHANGED <<stop, warmed>>

TimingNext == WarmUp \/ Sample
TimingSpec == TimingInit /\ [][TimingNext]_timingVars /\ WF_timingVars(TimingNext)

-----------------------------------------------------------------------------

Most == IF stop.kind = "after" THEN stop.samples
        ELSE IF stop.max > stop.min THEN stop.max ELSE stop.min
Least == IF stop.kind = "after" THEN stop.samples ELSE stop.min

\* "A run therefore ends at a multiple of this": a series never runs past the
\* first multiple of check_every at which its rule must stop it.
OvershootIsBounded == samples < Most + Every \/ (Most = 0 /\ samples = Every)

\* "Never stop before this many samples, however narrow the interval looks."
NeverTooFew == returned => samples >= Least /\ samples % Every = 0

\* "so a workload whose variance never settles ends the run instead of ending
\* the day": the loop returns whatever the samples are.
LoopReturns == <>returned

=============================================================================
