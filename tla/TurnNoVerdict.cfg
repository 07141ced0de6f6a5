SPECIFICATION FinishSpec
CONSTANTS
  Work = {w1, w2}
  MaxWaves = 2
  MaxRounds = 2
  MaxResumes = 1
CHECK_DEADLOCK FALSE
INVARIANT NoVerdictIsNotGreen
