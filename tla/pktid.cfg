SPECIFICATION Spec
CONSTANTS
  PacketIdMax = 3
  Windows = {0,2}
  TimeBacktrack = 1
  ReapInterval = 1
  MaxNow = 5
INVARIANTS WindowInv FreshIsHeard
PROPERTIES ImplementsAtMostOnce
