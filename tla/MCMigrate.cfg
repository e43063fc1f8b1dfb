CONSTANTS
  d = "d"
  f = "f"
  t = "t"
  temp = "temp"
  r1 = "r1"
  r2 = "r2"
  r3 = "r3"
  x = x
  y = y
  Names = {"d", "f", "t", "temp", "r1", "r2", "r3"}
  MaxDepth = 5
  LikeClass <- ExactLike
  Bytes = {x, y}
  MaxFileSize = 2
  Root <- TargetRoot
  SlashHint = FALSE
  SourceName = "f"
  TempName = "temp"
  RunIds <- Runs
  Options <- SomeOptions
  Sources <- AllSources
  Targets <- SomeTargets
  ForeignPaths <- SomeForeignPaths
  ForeignData <- SomeForeignData
  MaxFaults = 1
  MaxForeign = 1
  MaxEvents = 2
SPECIFICATION MigrateSpec
INVARIANTS ExitOkMeansMigrated TargetNeverPartial RetriesSucceed
PROPERTIES ForeignEntriesKept
CHECK_DEADLOCK FALSE
