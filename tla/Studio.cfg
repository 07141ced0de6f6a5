SPECIFICATION StudioSpec
CONSTANTS
  MaxEmits = 2
  MaxConns = 2
  NoConn = 0
  RingSize = 1
  ChanSize = 1
  Tokens = {1}
  MaxSeq = 3
  MaxBoots = 0
  Base = "base"
  Puts = {"put"}
  Overs = {"over"}
  NoOver = "none"
  MaxRuns = 2
CHECK_DEADLOCK FALSE
INVARIANTS RingIsRendered RolledPastIsTold
INVARIANTS OneRunAtATime OptionsComeBack LatestIsItsOwn
PROPERTIES EventsArrive StopIsHonoured
