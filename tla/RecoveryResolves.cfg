SPECIFICATION FairSpec
CONSTANTS
  Windows = {w1}
  Task = task
  Nobody = nobody
  Saved = {a, b}
  Foreign = {f}
  Absent = absent
  Original = a
  PortOf <- OwnPort
  Budget <- OneChange
PROPERTIES
  Resolved
  RestoreReopens
CHECK_DEADLOCK FALSE
