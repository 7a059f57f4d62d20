CONSTANTS
  Callers = {main}
  Main = main
  NoThread = NoThread
  MaxCalls = 1
  MaxLogins = 2
  Forms = {"full", "short", "missing"}
  DnsResults = {"some", "empty", "panic"}
  Commands = {"connect", "config", "disconnect", "other"}
  MaxAttempts = 2
SPECIFICATION CliFairSpec
CHECK_DEADLOCK FALSE
INVARIANTS CliTypeOK LoginsDeliveredOnce
PROPERTIES WaitEnds CommandsEnd LoginConsumed
