CONSTANTS
  Callers = {main}
  Main = main
  NoThread = NoThread
  MaxCalls = 1
  MaxLogins = 1
  Forms = {"full", "short", "missing"}
  DnsResults = {"some", "empty", "panic"}
  Commands = {"connect", "config", "disconnect", "other"}
  MaxAttempts = 2
SPECIFICATION CliFairSpec
CHECK_DEADLOCK FALSE
PROPERTIES FailureEndsWait
