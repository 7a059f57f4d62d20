CONSTANTS
  Callers = {c1, c2}
  Stems = 2
  NoCaller = NoCaller
  MaxCalls = 4
SPECIFICATION Spec
CHECK_DEADLOCK FALSE
INVARIANTS ProfileInv ConnectUsesProfile ConsumerReadsForward
