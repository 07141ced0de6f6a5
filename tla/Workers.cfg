SPECIFICATION WorkersSpec
CONSTANTS
  Callers = {c1, c2, c3}
  MaxParallel = 3
  Weights = {0, 1, 2, 5}
  Reqs = {r1, r2, r3}
  Note = note
  Broken = broken
  LinesCap = 1
  PipeCap = 1
  MaxNotes = 1
  Tasks = {t1, t2}
  MaxCalls = 2
  Timeout = 1
  NoTask = none
CHECK_DEADLOCK FALSE
INVARIANTS MixedOnlyAfterGivingUp
INVARIANTS AnswerIsOwn AnsweredInTime
PROPERTIES ImplementsSemaphore WaiterServed WaitEnds EscalationEnds
