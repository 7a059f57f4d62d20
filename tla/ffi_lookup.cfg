CONSTANTS
  Callers = {c1}
  NoThread = NoThread
  MaxCalls = 2
  MaxLogins = 1
  Forms = {"full"}
  DnsResults = {"some", "empty"}
SPECIFICATION FfiFairSpec
CHECK_DEADLOCK FALSE
PROPERTIES FailedLookupReported
