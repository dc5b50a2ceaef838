CONSTANTS
  r1 = r1
  r2 = r2
  t1 = t1
  q1 = q1
  q2 = q2
  dir = dir
  f1 = f1
  a = a
  b = b
  Runner = {r1, r2}
  Table = {t1}
  Query = {q1, q2}
  Reads <- MCReads
  Directory = {dir}
  DirectoryOf <- OneDirectory
  Keeps <- Both
  DoesNothing <- Neither
  Nanos = {1}
  MaxCalls = 0
  Workload <- MCWorkload
  Shuffle <- Reversed
  InOrder <- Second
  Cold <- First
  Anyway <- Second
  OutOf <- SamePath
  Path = {f1}
  Absent = Absent
  Partial = Partial
  Answers <- OneAnswer
  Pools <- PoolOfTheFirst
  OneAtATime = TRUE
  MaxTrouble = 2
SPECIFICATION RunFairSpec
INVARIANT RecordsAreComplete
 
INVARIANT AnsweredFromThisLoad
PROPERTY EveryQueryGetsARow
CHECK_DEADLOCK FALSE
