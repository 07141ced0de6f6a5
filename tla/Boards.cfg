SPECIFICATION Spec
CONSTANTS
  Tasks = {t1, t2, t3}
  a = a
  b = b
  z = z
  Capacity <- Doubling
  Ids = {a, b, z}
  Plan <- FullPlan
  Cols = {"ready_to_dev", "blocked"}
  Adds = {z}
  Moves = {a}
  Works = {b}
  MaxEdits = 2
  MaxTasks = 3
SYMMETRY Symmetry
CONSTRAINT GoesOn
INVARIANTS NothingSilentlyStranded BlockedForCause RunnableKeepsItsPlace
INVARIANTS OnlyClippingLoses OnlyClippingDoubles
