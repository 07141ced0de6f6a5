SPECIFICATION Spec
CONSTANTS
  t1 = t1
  t2 = t2
  t3 = t3
  src = src
  lib = lib
  Tasks = {t1, t2}
  Deps <- PairDeps
  Files <- PairFiles
  Prio <- PairPrio
  Planned <- DanglingPlanned
  MaxParallel = 2
  MaxAttempts = 1
  MaxGateRetries = 1
  MaxRetries = 0
  MaxStall = 2
  MaxIdle = 2
  MaxHumanIdle = 1
  GuardFloor = 8
  GuardCeiling = 200
  Coordinator = FALSE
  MaxEdits = 2
CHECK_DEADLOCK FALSE
INVARIANTS FoundationsAreDone CeilingHolds NothingLeftInFlight IdleOnlyWhenDangling SharedBoardsAgree
