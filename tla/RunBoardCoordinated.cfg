SPECIFICATION FairSpec
CONSTANTS
  t1 = t1
  t2 = t2
  t3 = t3
  src = src
  lib = lib
  Tasks = {t1, t2}
  Deps <- FreeDeps
  Files <- PairFiles
  Prio <- PairPrio
  Planned <- GrowPlanned
  MaxParallel = 2
  MaxAttempts = 1
  MaxGateRetries = 0
  MaxRetries = 0
  MaxStall = 2
  MaxIdle = 2
  MaxHumanIdle = 1
  GuardFloor = 1
  GuardCeiling = 200
  Coordinator = TRUE
  MaxEdits = 0
CHECK_DEADLOCK FALSE
PROPERTY Terminates
