SPECIFICATION FilesSpec
CONSTANTS
  WriteCalls = {k1, k2}
  Paths = {1, 2}
  Original = original
  NoFile = nofile
  NoHolder = nobody
  NameOf <- OneName
  Declared = {1}
  MaxRewinds = 1
  Knobs = {"think_passes", "temperature"}
  Values = {"low", "high"}
  Scores <- SomeScores
  Guards <- TokensAndEdits
  MinImprovement = 0
  MaxExperiments = 3
  MaxRatchetRuns = 2
CHECK_DEADLOCK FALSE
INVARIANTS NoEditLost BackupIsFirst
INVARIANTS SurfaceIsChampion NoDrift Undoable
PROPERTY ToolCallsEnd
