SPECIFICATION Spec
CONSTANTS
  Tasks = {1}
  Wrap = 3
  CyclesPerUs = 1
  MaxCycles = 5
  Offsets = {0, 3}
  StepThreshold = 1
  SlewUnit = 2
  MaxSlew = 1
  Holdover = 2
  MaxDelay = 1
  MaxRtt = 1
  MaxSyncs = 2
  MaxSteps = 1
  Forced <- MCForced
CHECK_DEADLOCK FALSE
PROPERTIES
  NeverTurnsBack
