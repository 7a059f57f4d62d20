----------------------------- MODULE CliClient -----------------------------
(***************************************************************************)
(* The client as a program: one run of main with one command line.  The    *)
(* only caller is the main thread.  connect and -c lock the manager and    *)
(* keep it locked while they wait.                                         *)
(***************************************************************************)
EXTENDS Session

CONSTANTS
  Main,         \* the main thread
  Commands,     \* the command lines to consider
  MaxAttempts   \* bound: polls of the connect command (120 in main.rs)

ASSUME CliAssumption ==
  /\ Callers = {Main}
  /\ Commands \subseteq {"connect", "config", "disconnect", "other"}
  /\ MaxAttempts \in Nat

VARIABLES
  cmd,          \* the command line; "other" is status, or no command
  attempts,     \* polls so far
  closing       \* main is past its command, in the final force_disconnect

cliVars == <<vars, cmd, attempts, closing>>

CliInit ==
  /\ SessionInit
  /\ cmd \in Commands
  /\ attempts = 0
  /\ closing = FALSE

-----------------------------------------------------------------------------
\* A config file that does not exist is reported and main goes on to close.
Start ==
  /\ up /\ appRoot
  /\ \/ /\ cmd \in {"connect", "config"}
        /\ Goto(Main, "idle", "resolve")
        /\ UNCHANGED closing
     \/ /\ cmd = "disconnect"
        /\ Goto(Main, "idle", "lockDisconnect")
        /\ UNCHANGED closing
     \/ /\ cmd # "disconnect"
        /\ Goto(Main, "idle", "lockForce")
        /\ closing' = TRUE
  /\ UNCHANGED <<processVars, state, mgr, appLock, slotVars, authVars, postVars,
                 consumerVars, connVars, cmd, attempts>>

\* Mutant: the guard of the disconnect command lives to the end of main.
CallOverGuarded ==
  /\ up /\ ~closing
  /\ Goto(Main, "returned", CASE cmd = "connect" -> "wait"
                              [] cmd = "config"  -> "hold"
                              [] OTHER           -> "lockForce")
  /\ closing' = (cmd = "disconnect")
  /\ UNCHANGED <<processVars, state, mgr, appLock, slotVars, authVars, postVars,
                 consumerVars, connVars, cmd, attempts>>

\* The call is over and the guard of connection_manager still alive: connect
\* polls, -c sleeps for ever, disconnect drops the guard.
CallOver ==
  /\ up /\ ~closing
  /\ Goto(Main, "returned", CASE cmd = "connect" -> "wait"
                              [] cmd = "config"  -> "hold"
                              [] OTHER           -> "lockForce")
  /\ mgr' = IF cmd = "disconnect" THEN NoThread ELSE mgr
  /\ closing' = (cmd = "disconnect")
  /\ UNCHANGED <<processVars, state, appLock, slotVars, authVars, postVars,
                 consumerVars, connVars, cmd, attempts>>

\* Mutant: attempts is not counted while the state is Connecting.
PollUncounted ==
  /\ up
  /\ pc[Main] = "wait"
  /\ IF state = "Connected"
     THEN Goto(Main, "wait", "hold") /\ UNCHANGED <<mgr, attempts, closing>>
     ELSE attempts' = (IF state = "Connecting" THEN attempts ELSE attempts + 1)
          /\ UNCHANGED <<pc, mgr, closing>>
  /\ UNCHANGED <<processVars, state, appLock, slotVars, authVars, postVars,
                 consumerVars, connVars, cmd>>

\* Mutant: the timeout is tested before the increment, one poll too late.
PollLate ==
  /\ up
  /\ pc[Main] = "wait"
  /\ \/ /\ state = "Connected"
        /\ Goto(Main, "wait", "hold")
        /\ UNCHANGED <<mgr, attempts, closing>>
     \/ /\ state # "Connected"
        /\ attempts' = attempts + 1
        /\ IF attempts > MaxAttempts
           THEN Goto(Main, "wait", "lockForce") /\ mgr' = NoThread /\ closing' = TRUE
           ELSE UNCHANGED <<pc, mgr, closing>>
  /\ UNCHANGED <<processVars, state, appLock, slotVars, authVars, postVars,
                 consumerVars, connVars, cmd>>

\* One turn of the loop: the Connected branch with its endless loop ("hold"),
\* the failure branch from the second turn on, or the count and the timeout.
Poll ==
  /\ up
  /\ pc[Main] = "wait"
  /\ \/ /\ state = "Connected"
        /\ Goto(Main, "wait", "hold")
        /\ UNCHANGED <<mgr, attempts, closing>>
     \/ /\ state = "Disconnected" /\ attempts > 0
        /\ Goto(Main, "wait", "lockForce")
        /\ mgr' = NoThread /\ closing' = TRUE
        /\ UNCHANGED attempts
     \/ /\ state = "Connecting" \/ (state = "Disconnected" /\ attempts = 0)
        /\ attempts' = attempts + 1
        /\ IF attempts' > MaxAttempts
           THEN Goto(Main, "wait", "lockForce") /\ mgr' = NoThread /\ closing' = TRUE
           ELSE UNCHANGED <<pc, mgr, closing>>
  /\ UNCHANGED <<processVars, state, appLock, slotVars, authVars, postVars,
                 consumerVars, connVars, cmd>>

\* End of main: the guard and then the Rc<VpnApp> are dropped ...
DropApp ==
  /\ up /\ closing
  /\ \/ /\ Goto(Main, "returned", "leaving")
        /\ mgr' = NoThread
        /\ UNCHANGED appRoot
     \/ /\ Goto(Main, "leaving", "idle")
        /\ appRoot' = FALSE
        /\ UNCHANGED mgr
  /\ UNCHANGED <<up, addresses, poisoned, state, appLock, slotVars, authVars, postVars,
                 consumerVars, connVars, cmd, attempts, closing>>

\* ... which waits for the tasks if it drops the runtime as well.
Exit ==
  /\ up /\ ~appRoot
  /\ RuntimeLive \/ \A j \in Logins : pc[j] \in {"none", "done", "cancelled", "panicked"}
  /\ up' = FALSE
  /\ UNCHANGED <<appRoot, addresses, poisoned, state, mgr, appLock, slotVars, pc,
                 authVars, postVars, consumerVars, connVars, cmd, attempts, closing>>

\* SIGTERM or SIGINT: no handler is installed.
Signal ==
  /\ up
  /\ up' = FALSE
  /\ UNCHANGED <<appRoot, addresses, poisoned, state, mgr, appLock, slotVars, pc,
                 authVars, postVars, consumerVars, connVars, cmd, attempts, closing>>

MainStep ==
  \/ (Resolve(Main) \/ LockManager(Main)) /\ UNCHANGED <<cmd, attempts, closing>>
  \/ Start \/ CallOver \/ Poll \/ DropApp \/ Exit

CliNext ==
  \/ MainStep
  \/ Signal
  \/ SessionNext /\ UNCHANGED <<cmd, attempts, closing>>

CliSpec == CliInit /\ [][CliNext]_cliVars

CliFairSpec == CliSpec /\ SessionFairness /\ WF_cliVars(MainStep)

-----------------------------------------------------------------------------
(* Properties.                                                             *)

\* The session's types, the poll counter, which passes the timeout by one and
\* only when main gives up, and a main thread that polls or sleeps only before
\* it closes.
CliTypeOK ==
  /\ TypeOK
  /\ cmd \in Commands
  /\ attempts \in 0 .. MaxAttempts + 1
  /\ closing \in BOOLEAN
  /\ attempts > MaxAttempts => closing
  /\ pc[Main] \in {"wait", "hold"} => ~closing /\ cmd \in {"connect", "config"}

\* The polling loop ends: in the Connected branch or by the timeout.
WaitEnds == pc[Main] = "wait" ~> pc[Main] # "wait" \/ ~up

\* Every command but connect and -c comes to the end of main.
CommandsEnd == cmd \in {"disconnect", "other"} => <>~up

\* main.rs: the connect command waits for the connection "to complete or fail".
\* A run_ovpn that failed before the first poll ends the wait before the timeout
\* does, unless a signal ends main.
FailureEndsWait ==
  pc[Main] = "wait" /\ attempts = 0 /\ (\E i \in Challenges : auth[i] = "panicked")
    ~> \/ pc[Main] # "wait" /\ attempts <= MaxAttempts
       \/ pc[Main] = "wait" /\ ~up

\* README: CTRL+C and SIGTERM always kill the OpenVPN process.  (main does not
\* panic while it polls or sleeps, so only a signal ends the process there.)
SignalKillsOpenVpn ==
  \A j \in Logins : ~up /\ pc[Main] \in {"wait", "hold"} /\ proc[j] = "running"
                       ~> proc[j] = "dead"

=============================================================================
