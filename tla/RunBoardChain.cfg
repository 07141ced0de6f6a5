SPECIFICATION Spec
CONSTANTS
  t1 = t1
  t2 = t2
  t3 = t3
  src = src
  lib = lib
  Tasks = {t1, t2, t3}
  Deps <- ChainDeps
  Files <- ChainFiles
  Prio <- ChainPrio
  Planned <- ChainPlanned
  MaxParallel = 2
  MaxAttempts = 3
  MaxGateRetries = 1
  MaxRetries = 0
  MaxStall = 3
  MaxIdle = 30
  MaxHumanIdle = 3
  GuardFloor = 2
  GuardCeiling = 200
  Coordinator = FALSE
  MaxEdits = 0
CHECK_DEADLOCK FALSE
INVARIANTS WavesAreDisjoint GuardNeverFires DeliveredWorkIsReviewed
PROPERTY DoneNeedsAVerdict
