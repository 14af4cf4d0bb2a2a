SPECIFICATION Spec
CONSTANTS
  Windows = {w1}
  Task = task
  Nobody = nobody
  Saved = {a, b}
  Foreign = {f}
  Absent = absent
  Original = absent
  PortOf <- OwnPort
  Budget <- OneSave
PROPERTIES
  FirstSaveKept
CHECK_DEADLOCK FALSE
