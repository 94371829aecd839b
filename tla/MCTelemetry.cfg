SPECIFICATION Spec
CONSTANTS
  N = 2
  Longest = 2
INVARIANTS
  AgreeUnlessRaced
  OnePacketLate
  StreamsHold
  CommandsHold
PROPERTY
  StreamsFlow
