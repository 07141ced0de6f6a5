SPECIFICATION TurnSpec
CONSTANTS
  Work = {w1, w2}
  MaxWaves = 2
  MaxRounds = 2
  MaxResumes = 1
CHECK_DEADLOCK FALSE
INVARIANTS RedIsNoSuccess BareSuccessIsClean InterruptIsReal
PROPERTY RunEnds
