SPECIFICATION CheckSpec
CONSTANTS
  Query <- TwoQueries
  Published <- TwoPublished
  BandUp = 22
  BandDown = 29
  Slower <- TwiceAsSlow
  Takings <- SomeTakings
  Path = {f1, f2}
  Torn = torn
  MaxNamed = 3
  MaxWrites = 1
INVARIANT PassedMeansOneAnswer
INVARIANT FailedMeansTwoAnswers
INVARIANT GradedIsOneFitMachine
INVARIANT GradedWasSteady
INVARIANT ApartMeansOutside
INVARIANT SlowMachineIsTheSame
CHECK_DEADLOCK FALSE
