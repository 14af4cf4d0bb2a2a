SPECIFICATION Spec
CONSTANTS
  Windows = {w1, w2}
  Task = task
  Nobody = nobody
  Saved = {a, b}
  Foreign = {f}
  Absent = absent
  Original = a
  PortOf <- SamePort
  Budget <- TwoWindows
INVARIANTS
  TaskArmed
  OneOutcome
  PhaseIsTrue
  ChainTarget
PROPERTIES
  RestoredMeansRunning
  OutcomeIsFinal
CHECK_DEADLOCK FALSE
SYMMETRY WindowSymmetry
