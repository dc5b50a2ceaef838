SPECIFICATION DriversSpec
CONSTANTS
  Runner <- FiveRunners
  Table = {"hits"}
  Query = {"plain", "all"}
  Reads <- MCReads
  Directory = {"scratch"}
  DirectoryOf <- OneDirectory
  Keeps <- MCKeeps
  DoesNothing <- IsNull
  Nanos = {1}
  MaxCalls = 2
  DriverOf <- MCDriverOf
  Together <- Pairs
  MaxRuns = 1
  Loads <- SomeLoads
  Question <- MCQuestion
  Select <- Dated
  Widest = 1000
  Furthest <- MCFurthest
  LastDay = 1000
INVARIANT DriversTypeOK
INVARIANT DriversKeepStep
INVARIANT PhasesInStep
INVARIANT ChargedWithinSpent
INVARIANT SameAnswerSameDigest
INVARIANT SameDigestSameAnswer
PROPERTY AnswersTheLastLoad
CHECK_DEADLOCK FALSE
