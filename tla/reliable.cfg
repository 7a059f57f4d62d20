CONSTANTS
  IdWidth = 4
  SendSize = 3
  RecSize = 2
  AckSize = 3
  SendAckMax = 1
  MaxMsgs = 3
SPECIFICATION FairSpec
CHECK_DEADLOCK FALSE
INVARIANTS BufferInv ForgottenIsReceived RepeatsAreHeard
PROPERTIES ImplementsChannel AllDelivered AllAcknowledged
