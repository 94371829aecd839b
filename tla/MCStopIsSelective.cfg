SPECIFICATION Spec
CONSTANTS
  N = 2
  Longest = 2
INVARIANT
  StopIsSelective
