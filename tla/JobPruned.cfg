SPECIFICATION Spec
CONSTANTS
  Nil = Nil
  j1 = j1
  j2 = j2
  Jobs = {j1, j2}
  Threads = 1
  Retention = 1
  Demands <- PrunedDemands
CHECK_DEADLOCK FALSE
PROPERTIES
  RunningIsShown
