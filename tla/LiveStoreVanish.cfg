SPECIFICATION StoreSpec
CONSTANTS
  a = a
  b = b
  z = z
  Capacity <- Doubling
  Ids = {a, b, z, added}
  Plan <- SparePlan
  Cols = {"ready_to_dev", "blocked"}
  Adds = {added}
  Moves = {a}
  Works = {b}
  MaxEdits = 1
  MaxTasks = 4
INVARIANT PlannedTasksStay
