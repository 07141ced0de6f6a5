SPECIFICATION StreamRestartSpec
CONSTANTS
  MaxEmits = 1
  MaxConns = 2
  NoConn = 0
  RingSize = 2
  ChanSize = 1
  Tokens = {}
  MaxSeq = 2
  MaxBoots = 1
CHECK_DEADLOCK FALSE
INVARIANT RingIsRendered
