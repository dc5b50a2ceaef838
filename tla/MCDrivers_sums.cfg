SPECIFICATION DriversSpec
CONSTANTS
  Runner <- FiveRunners
  Table = {"hits"}
  Query = {"sum"}
  Reads <- MCReads
  Directory = {"scratch"}
  DirectoryOf <- OneDirectory
  Keeps <- MCKeeps
  DoesNothing <- IsNull
  Nanos = {1}
  MaxCalls = 1
  DriverOf <- MCDriverOf
  Together <- Pairs
  MaxRuns = 1
  Loads <- SmallSums
  Question <- SumQuestion
  Select <- Dated
  Widest = 1000
  Furthest <- MCFurthest
  LastDay = 1000
INVARIANT SameDigestSameAnswer
CHECK_DEADLOCK FALSE
