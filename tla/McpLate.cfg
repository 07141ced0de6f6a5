SPECIFICATION McpSpec
CONSTANTS
  Reqs = {r1, r2, r3}
  Note = note
  Broken = broken
  LinesCap = 1
  PipeCap = 1
  MaxNotes = 1
CHECK_DEADLOCK FALSE
INVARIANT RepliesMatch
