SPECIFICATION Spec
CONSTANTS
  Windows = {w1, w2}
  Task = task
  Nobody = nobody
  Saved = {a, b}
  Foreign = {f}
  Absent = absent
  Original = a
  PortOf <- OwnPort
  Budget <- Undisturbed
PROPERTIES
  KeptIsNextTarget
CHECK_DEADLOCK FALSE
