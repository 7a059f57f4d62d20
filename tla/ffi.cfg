CONSTANTS
  Callers = {c1, c2}
  NoThread = NoThread
  MaxCalls = 2
  MaxLogins = 1
  Forms = {"full", "short", "missing"}
  DnsResults = {"some", "empty", "panic"}
SPECIFICATION FfiFairSpec
CHECK_DEADLOCK FALSE
INVARIANTS FfiTypeOK ManagerExclusion DisconnectedIsClean ConnectingHasTask OnlyObtainedPwds LoneSessionReachable AbortedOnce
PROPERTIES ExitNoticed CallsReturn
