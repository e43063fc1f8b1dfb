CONSTANTS
  d = "d"
  f = "f"
  t = "t"
  temp = "temp"
  r1 = "r1"
  r2 = "r2"
  r3 = "r3"
  x = x
  y = y
  Names = {"d", "f", "t", "temp", "r1", "r2", "r3"}
  MaxDepth = 5
  LikeClass <- ExactLike
  Bytes = {x, y}
  MaxFileSize = 2
  Root <- TargetRoot
  SlashHint = FALSE
  SourceName = "f"
  TempName = "temp"
  RunIds <- ThreeRuns
  Options <- RetryOptions
  Sources <- OneTree
  Targets <- SomeTargets
  ForeignPaths <- SomeForeignPaths
  ForeignData <- SomeForeignData
  MaxFaults = 2
  MaxForeign = 0
  MaxEvents = 2
SPECIFICATION FairMigrateSpec
PROPERTIES Converges
CHECK_DEADLOCK FALSE
