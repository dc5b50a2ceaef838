SPECIFICATION ReproduceFairSpec
CONSTANTS
  Size = 3
  Span = 2
  Chunk = 2
  Pairs = 2
  Warmup = 0
  GateBar = 1
  Machine <- Hosted
  Doings <- TwoDoings
  Truths <- TwoTruths
  Favours <- TwoFavours
  Biases <- TwoPoints
  Findings <- Narrow
  MaxChanges = 1
  One = 100
  Target = 100
  Tolerance = 1
  Registered <- Committed
  Days <- TwoDays
INVARIANT VerdictIsTrue
INVARIANT VerdictBetweenPasses
INVARIANT FirstTurnsAreShared
INVARIANT PassedIsWithin
PROPERTY CommandEnds

CHECK_DEADLOCK FALSE
