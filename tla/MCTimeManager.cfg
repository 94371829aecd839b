SPECIFICATION Spec
CONSTANTS
  Tasks = {1, 2}
  Wrap = 3
  CyclesPerUs = 1
  MaxCycles = 5
  Offsets = {1}
  StepThreshold = 1
  SlewUnit = 2
  MaxSlew = 1
  Holdover = 2
  MaxDelay = 1
  MaxRtt = 1
  MaxSyncs = 2
  MaxSteps = 2
  Forced <- MCForced
CHECK_DEADLOCK FALSE
INVARIANTS
  TypeOK
  OnlyStepsTurnBack
PROPERTIES
  TimeRunsTrue
  BeaconBoundsError
  HoldoverComes
