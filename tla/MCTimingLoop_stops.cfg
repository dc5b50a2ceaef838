SPECIFICATION TimingSpec
CONSTANTS
  Warmup = 2
  CheckEvery = 3
  Longest = 10
  Rules <- SomeRules
INVARIANT OvershootIsBounded
INVARIANT NeverTooFew
PROPERTY LoopReturns
CHECK_DEADLOCK FALSE
