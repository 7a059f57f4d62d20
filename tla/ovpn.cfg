SPECIFICATION FairSpec
CONSTANTS
  Signals = {"TERM", "INT", "HUP", "USR1", "USR2"}
  MaxSignals = 3
  Faults = {"tls-error", "no-push-reply", "ping-restart", "restart", "renegotiate", "auth-failed", "halt", "inactive", "push-failed", "remote-exit", "server-poll", "unreachable"}
  MaxFaults = 3
  ExitNotify = 2
  Tokens = {TRUE, FALSE}
INVARIANTS SecretInv
PROPERTIES SecretNotResent NoRestartWhileExiting NotifyingEnds Settles TermIsObeyed
CHECK_DEADLOCK FALSE
