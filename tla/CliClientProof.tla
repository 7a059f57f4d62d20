--------------------------- MODULE CliClientProof ---------------------------
(* The program keeps the invariant of the session, and main never sees a  *)
(* failed connect while it polls, for every number of polls and logins.   *)
EXTENDS CliClient, SessionProof

\* What the command line and closing say about where main is, and that a
\* connect command that still holds the manager after its call has a state
\* other than Disconnected (for "wait" alone this is not inductive).
MainInv ==
  /\ pc[Main] # "try"
  /\ pc[Main] = "idle" /\ appRoot => ~closing
  /\ pc[Main] \in ConnectPCs \cup {"resolve", "lockConnect"} =>
       ~closing /\ cmd \in {"connect", "config"}
  /\ pc[Main] \in DisconnectPCs \cup {"lockForce", "lockDisconnect", "leaving"} =>
       closing \/ cmd = "disconnect"
  /\ pc[Main] = "returned" => closing \/ cmd \in {"connect", "config", "disconnect"}
  /\ pc[Main] = "wait" => ~closing /\ cmd = "connect"
  /\ pc[Main] \in {"returned", "wait"} /\ ~closing /\ cmd = "connect" =>
       state # "Disconnected"

CliInv == SessionInv /\ CliTypeOK /\ MainInv

\* Main is the caller.
LEMMA MainCaller == Main \in Callers /\ Main \in Threads /\ Main \notin Logins
BY CliAssumption, SessionAssumption DEF Threads

\* CliInv holds initially.
LEMMA CliInitInv == ASSUME CliInit PROVE CliInv
<1>1. SessionInv  BY SessionInitInv DEF CliInit
<1>2. pc[Main] = "idle"  BY MainCaller DEF CliInit, SessionInit
<1>3. attempts \in 0 .. MaxAttempts + 1 /\ ~(attempts > MaxAttempts)  BY CliAssumption DEF CliInit
<1>4. CliTypeOK  BY <1>1, <1>2, <1>3 DEF CliInit, CliTypeOK, SessionInv
<1>5. MainInv  BY <1>2 DEF CliInit, MainInv, ConnectPCs, DisconnectPCs
<1> QED BY <1>1, <1>4, <1>5 DEF CliInv

\* A step of the session either is a step of main inside the ConnectionManager,
\* or leaves main where it is; and with main inside, nobody else can set the
\* state to Disconnected.
LEMMA OthersKeepMain ==
  ASSUME SessionInv, SessionNext, ~ManagerStep(Main)
  PROVE  /\ pc'[Main] = pc[Main] /\ appRoot' = appRoot
         /\ pc[Main] \in ManagerPCs /\ state # "Disconnected" => state' # "Disconnected"
<1> USE MainCaller DEF SessionInv, Goto, processVars
<1>0. ASSUME NEW u \in Threads, u # Main, NEW p, pc' = [pc EXCEPT ![u] = p]
      PROVE  pc'[Main] = pc[Main]
  BY <1>0 DEF TypeOK
<1>1. CASE \E t \in Threads : ManagerStep(t)
  <2> PICK t \in Threads : ManagerStep(t)  BY <1>1
  <2> t # Main  OBVIOUS
  <2>0. t \notin Callers  BY CliAssumption
  <2>1. pc'[Main] = pc[Main] /\ appRoot' = appRoot
    BY <1>0, <2>0
       DEF ManagerStep, SetConnecting, ConnectRead, ConnectSpawn, TryDisconnect, SetDisconnected,
           DropAuth, DropConn, ReadPid, PsSilent, KillUnspawned, Kill, ClearPid, Panics
  <2>2. ASSUME pc[Main] \in ManagerPCs PROVE FALSE
    <3>1. mgr = Main  BY <2>2 DEF ManagerExclusion
    <3>2. pc[t] \in {"connect", "connectRead", "connectSpawn", "connectFail", "try", "disconnect",
                     "dropAuth", "dropConn", "readPid", "kill"} \cup {"clear"}
      BY DEF ManagerStep, SetConnecting, ConnectRead, ConnectSpawn, TryDisconnect,
             SetDisconnected, DropAuth, DropConn, ReadPid, PsSilent, KillUnspawned, Kill, ClearPid
    <3>3. pc[t] \in ManagerPCs  BY <3>2 DEF ManagerPCs, ConnectPCs, DisconnectPCs
    <3> QED BY <3>1, <3>3 DEF ManagerExclusion
  <2> QED BY <2>1, <2>2
<1>2. CASE \E j \in Logins : ConnStep(j)
  <2> PICK j \in Logins : ConnStep(j)  BY <1>2
  <2> j \in Threads /\ j # Main  BY DEF Threads
  <2> QED BY <1>0 DEF ConnStep, ConnStart, ConnRecord, ConnCancel, ConnEof, ConnLockManager,
                      ConnReturn
<1>3. CASE ConsumerStep
  <2>1. CASE ConsumerLaunch
    <3>1. addresses = "some" => cur \in Logins
      BY <2>1 DEF ConsumerLaunch, TypeOK
    <3> QED BY <1>0, <2>1, <3>1 DEF ConsumerLaunch, Threads
  <2> QED BY <1>3, <2>1 DEF ConsumerStep, ConsumerRecv, ConsumerStore, ConsumerAnnounce
<1>4. CASE \E i \in Challenges : AuthStep(i) \/ AuthAnswer(i)
  BY <1>4 DEF AuthStep, AuthAnswer, AuthLock, AuthCancel, AuthDone, AuthPanic
<1>5. CASE \E j \in Logins : PostArrives(j) \/ PostGone(j) \/ PostStep(j) \/ ProcStep(j)
  BY <1>5 DEF PostArrives, PostGone, PostStep, PostLock, PostSend,
              ProcStep, ProcAuthorised, ProcExits
<1> QED BY <1>1, <1>2, <1>3, <1>4, <1>5 DEF SessionNext

\* A step of main inside the ConnectionManager moves along connect or along
\* disconnect; connect comes to its end only with a task spawned, because its
\* error exits wait for the guard of self.app that main holds.
LEMMA MainInside ==
  ASSUME SessionInv, MainInv, ManagerStep(Main)
  PROVE  /\ appRoot' = appRoot
         /\ \/ pc'[Main] = pc[Main]
            \/ /\ pc[Main] \in ConnectPCs
               /\ pc'[Main] \in ConnectPCs \cup {"returned"}
               /\ pc'[Main] = "returned" => state' # "Disconnected"
            \/ pc[Main] \in DisconnectPCs /\ pc'[Main] \in DisconnectPCs \cup {"returned"}
         /\ pc[Main] \in ConnectPCs \cup DisconnectPCs
<1> USE MainCaller DEF SessionInv, Goto, processVars, slotVars
<1>0. ASSUME NEW p, pc' = [pc EXCEPT ![Main] = p] PROVE pc'[Main] = p
  BY <1>0 DEF TypeOK
<1>1. CASE SetConnecting(Main)
  BY <1>0, <1>1 DEF SetConnecting, ConnectPCs
<1>2. CASE ConnectRead(Main)
  BY <1>0, <1>2 DEF ConnectRead, Panics, ConnectPCs
<1>3. CASE ConnectSpawn(Main)
  <2>1. "connectSpawn" \in ManagerPCs  BY DEF ManagerPCs, ConnectPCs
  <2>2. mgr = Main  BY <1>3, <2>1 DEF ConnectSpawn, ManagerExclusion
  <2>3. state # "Disconnected"
    BY <1>3, <2>2, SessionAssumption DEF ConnectSpawn, CleanInv, Inside
  <2> QED BY <1>0, <1>3, <2>3 DEF ConnectSpawn, ConnectPCs
<1>4. CASE TryDisconnect(Main)
  BY <1>4 DEF TryDisconnect, MainInv
<1>5. CASE SetDisconnected(Main)
  <2>1. pc[Main] # "connectFail"
    BY <1>5, SessionAssumption DEF SetDisconnected, ManagerExclusion, AppLockPCs
  <2> QED BY <1>0, <1>5, <2>1 DEF SetDisconnected, Panics, DisconnectPCs
<1>6. CASE DropAuth(Main)
  BY <1>0, <1>6 DEF DropAuth, Panics, DisconnectPCs
<1>7. CASE DropConn(Main) \/ ReadPid(Main)
  BY <1>0, <1>7 DEF DropConn, ReadPid, DisconnectPCs
<1>8. CASE PsSilent(Main) \/ Kill(Main) \/ ClearPid(Main)
  BY <1>0, <1>8 DEF PsSilent, Kill, ClearPid, DisconnectPCs
<1>9. CASE KillUnspawned(Main)
  BY <1>9 DEF KillUnspawned, Panics, DisconnectPCs
<1> QED BY <1>1, <1>2, <1>3, <1>4, <1>5, <1>6, <1>7, <1>8, <1>9 DEF ManagerStep

\* The points of a call are different from the others.
LEMMA CallPCs ==
  /\ \A p \in {"idle", "resolve", "lockConnect", "lockDisconnect", "lockForce", "leaving"} :
       p \notin ManagerPCs /\ p \notin ConnectPCs /\ p \notin DisconnectPCs
  /\ \A p \in {"returned", "wait", "hold", "try"} :
       p \in ManagerPCs /\ p \notin ConnectPCs /\ p \notin DisconnectPCs
  /\ ConnectPCs \cap DisconnectPCs = {}
  /\ "connect" \in ConnectPCs /\ "disconnect" \in DisconnectPCs /\ "dropAuth" \in DisconnectPCs
BY DEF ManagerPCs, ConnectPCs, DisconnectPCs

\* Every step keeps CliInv.
LEMMA CliNextInv == ASSUME CliInv, [CliNext]_cliVars PROVE CliInv'
<1> USE MainCaller, CallPCs DEF CliInv, Goto
<1>0. ASSUME NEW p, pc' = [pc EXCEPT ![Main] = p] PROVE pc'[Main] = p
  BY <1>0 DEF SessionInv, TypeOK
<1>1. CASE SessionNext /\ UNCHANGED <<cmd, attempts, closing>>
  <2>1. SessionInv'  BY <1>1, SessionNextInv
  <2>2. CASE ManagerStep(Main)
    <3>1. MainInv'  BY <1>1, <2>2, MainInside DEF MainInv
    <3>2. CliTypeOK'  BY <1>1, <2>1, <2>2, MainInside DEF CliTypeOK, SessionInv
    <3> QED BY <2>1, <3>1, <3>2
  <2>3. CASE ~ManagerStep(Main)
    <3>1. MainInv'  BY <1>1, <2>3, OthersKeepMain DEF MainInv
    <3>2. CliTypeOK'  BY <1>1, <2>1, <2>3, OthersKeepMain DEF CliTypeOK, SessionInv
    <3> QED BY <2>1, <3>1, <3>2
  <2> QED BY <2>2, <2>3
<1>2. CASE (Resolve(Main) \/ LockManager(Main)) /\ UNCHANGED <<cmd, attempts, closing>>
  <2>1. SessionInv'  BY <1>2, CallerInv
  <2>2. /\ appRoot' = appRoot /\ state' = state
        /\ \/ pc' = pc
           \/ pc[Main] = "resolve" /\ pc'[Main] = "lockConnect"
           \/ pc[Main] = "lockConnect" /\ pc'[Main] = "connect"
           \/ pc[Main] = "lockDisconnect" /\ pc'[Main] = "disconnect"
           \/ pc[Main] = "lockForce" /\ pc'[Main] = "dropAuth"
    BY <1>0, <1>2 DEF Resolve, LockManager, LockedPC
  <2>3. MainInv'  BY <1>2, <2>2 DEF MainInv
  <2>4. CliTypeOK'  BY <1>2, <2>1, <2>2 DEF CliTypeOK, SessionInv
  <2> QED BY <2>1, <2>3, <2>4
<1>3. CASE Start
  <2> PICK p \in {"resolve", "lockDisconnect", "lockForce"} :
          pc[Main] = "idle" /\ pc' = [pc EXCEPT ![Main] = p]
    BY <1>3 DEF Start
  <2>1. /\ appRoot' = appRoot /\ up' = up /\ addresses' = addresses /\ poisoned' = poisoned
        /\ UNCHANGED <<state, mgr, appLock, slotVars, authVars, postVars, consumerVars, connVars>>
        /\ appRoot /\ cmd' = cmd /\ attempts' = attempts
    BY <1>3 DEF Start, processVars
  <2>2. appRoot' \in BOOLEAN  BY <2>1 DEF SessionInv, TypeOK
  <2>3. SessionInv'  BY <2>1, <2>2, PCsMembers, CallerOutside
  <2>4. /\ pc'[Main] = p
        /\ \/ p = "resolve" /\ cmd \in {"connect", "config"} /\ closing' = closing
           \/ p = "lockDisconnect" /\ cmd = "disconnect" /\ closing' = closing
           \/ p = "lockForce" /\ closing' = TRUE
    BY <1>0, <1>3 DEF Start
  <2>5. MainInv'  BY <2>1, <2>4 DEF MainInv
  <2>6. CliTypeOK'  BY <2>1, <2>3, <2>4 DEF CliTypeOK, SessionInv
  <2> QED BY <2>3, <2>5, <2>6
<1>4. CASE CallOver
  <2>1. /\ pc[Main] = "returned" /\ ~closing /\ cmd \in {"connect", "config", "disconnect"}
        /\ appRoot' = appRoot /\ up' = up /\ addresses' = addresses /\ poisoned' = poisoned
        /\ UNCHANGED <<state, appLock, slotVars, authVars, postVars, consumerVars, connVars>>
        /\ cmd' = cmd /\ attempts' = attempts /\ closing' = (cmd = "disconnect")
    BY <1>4 DEF CallOver, processVars, MainInv
  <2>2. appRoot' \in BOOLEAN  BY <2>1 DEF SessionInv, TypeOK
  <2>3. CASE cmd = "disconnect"
    <3>1. pc' = [pc EXCEPT ![Main] = "lockForce"] /\ mgr' = NoThread
      BY <1>4, <2>3 DEF CallOver
    <3>2. SessionInv'  BY <2>1, <2>2, <3>1, PCsMembers, CallerUnlocks
    <3>3. pc'[Main] = "lockForce" /\ closing' = TRUE  BY <1>0, <2>1, <2>3, <3>1
    <3> QED BY <2>1, <3>2, <3>3 DEF MainInv, CliTypeOK, SessionInv
  <2>4. CASE cmd \in {"connect", "config"}
    <3> PICK p \in {"wait", "hold"} :
            pc' = [pc EXCEPT ![Main] = p] /\ mgr' = mgr /\ (p = "wait" => cmd = "connect")
      BY <1>4, <2>4 DEF CallOver
    <3>1. SessionInv'  BY <2>1, CallerStays
    <3>2. pc'[Main] = p /\ closing' = FALSE  BY <1>0, <2>1, <2>4
    <3>3. MainInv'  BY <2>1, <2>4, <3>2 DEF MainInv
    <3>4. CliTypeOK'  BY <2>1, <2>4, <3>1, <3>2 DEF CliTypeOK, SessionInv
    <3> QED BY <3>1, <3>3, <3>4
  <2> QED BY <2>1, <2>3, <2>4
<1>5. CASE Poll
  <2>1. /\ pc[Main] = "wait" /\ ~closing /\ cmd = "connect"
        /\ appRoot' = appRoot /\ up' = up /\ addresses' = addresses /\ poisoned' = poisoned
        /\ UNCHANGED <<state, appLock, slotVars, authVars, postVars, consumerVars, connVars>>
        /\ cmd' = cmd
    BY <1>5 DEF Poll, processVars, MainInv
  <2>2. appRoot' \in BOOLEAN  BY <2>1 DEF SessionInv, TypeOK
  <2>3. CASE state = "Connected"
    <3>1. /\ pc' = [pc EXCEPT ![Main] = "hold"]
          /\ mgr' = mgr /\ attempts' = attempts /\ closing' = closing
      BY <1>5, <2>3 DEF Poll
    <3>2. SessionInv'  BY <2>1, <3>1, CallerStays
    <3>3. pc'[Main] = "hold"  BY <1>0, <3>1
    <3> QED BY <2>1, <3>1, <3>2, <3>3 DEF MainInv, CliTypeOK, SessionInv
  <2>4. CASE state = "Connecting"
    <3>1. attempts' = attempts + 1  BY <1>5, <2>4 DEF Poll
    <3>2. attempts \in 0 .. MaxAttempts
      BY <2>1, CliAssumption DEF CliTypeOK
    <3>3. attempts' \in 0 .. MaxAttempts + 1
      BY <3>1, <3>2, CliAssumption
    <3>4. CASE attempts' > MaxAttempts
      <4>1. /\ pc' = [pc EXCEPT ![Main] = "lockForce"]
            /\ mgr' = NoThread /\ closing' = TRUE
        BY <1>5, <2>4, <3>4 DEF Poll
      <4>2. SessionInv'  BY <2>1, <2>2, <4>1, PCsMembers, CallerUnlocks
      <4>3. pc'[Main] = "lockForce"  BY <1>0, <4>1
      <4> QED BY <2>1, <3>3, <4>1, <4>2, <4>3 DEF MainInv, CliTypeOK, SessionInv
    <3>5. CASE ~(attempts' > MaxAttempts)
      <4>1. pc' = pc /\ mgr' = mgr /\ closing' = closing
        BY <1>5, <2>4, <3>5 DEF Poll
      <4>2. up' \in BOOLEAN  BY <2>1 DEF SessionInv, TypeOK
      <4>3. SessionInv'  BY <2>1, <4>1, <4>2, ProcessEnds
      <4>4. MainInv'  BY <2>1, <4>1 DEF MainInv
      <4>5. CliTypeOK'  BY <2>1, <3>3, <3>5, <4>1, <4>3 DEF CliTypeOK, SessionInv
      <4> QED BY <4>3, <4>4, <4>5
    <3> QED BY <3>4, <3>5
  <2>5. state \in {"Connected", "Connecting"}
    BY <2>1 DEF MainInv, SessionInv, TypeOK, States
  <2> QED BY <2>3, <2>4, <2>5
<1>6. CASE DropApp
  <2>1. /\ closing /\ closing' = closing /\ cmd' = cmd /\ attempts' = attempts
        /\ up' = up /\ addresses' = addresses /\ poisoned' = poisoned
        /\ UNCHANGED <<state, appLock, slotVars, authVars, postVars, consumerVars, connVars>>
    BY <1>6 DEF DropApp
  <2>2. CASE Goto(Main, "returned", "leaving") /\ mgr' = NoThread /\ UNCHANGED appRoot
    <3>1. appRoot' \in BOOLEAN  BY <2>2 DEF SessionInv, TypeOK
    <3>2. SessionInv'  BY <2>1, <2>2, <3>1, PCsMembers, CallerUnlocks
    <3>3. pc'[Main] = "leaving"  BY <1>0, <2>2
    <3> QED BY <2>1, <3>2, <3>3 DEF MainInv, CliTypeOK, SessionInv
  <2>3. CASE Goto(Main, "leaving", "idle") /\ appRoot' = FALSE /\ UNCHANGED mgr
    <3>1. SessionInv'  BY <2>1, <2>3, PCsMembers, CallerOutside
    <3>2. pc'[Main] = "idle"  BY <1>0, <2>3
    <3> QED BY <2>1, <2>3, <3>1, <3>2 DEF MainInv, CliTypeOK, SessionInv
  <2> QED BY <1>6, <2>2, <2>3 DEF DropApp
<1>7. CASE Exit \/ Signal
  <2>1. /\ up' = FALSE /\ appRoot' = appRoot /\ addresses' = addresses
        /\ poisoned' = poisoned /\ pc' = pc
        /\ UNCHANGED <<state, mgr, appLock, slotVars, authVars, postVars, consumerVars, connVars>>
        /\ UNCHANGED <<cmd, attempts, closing>>
    BY <1>7 DEF Exit, Signal
  <2>2. SessionInv'  BY <2>1, ProcessEnds
  <2> QED BY <2>1, <2>2 DEF MainInv, CliTypeOK, SessionInv
<1>8. CASE UNCHANGED cliVars
  <2>1. /\ up' = up /\ appRoot' = appRoot /\ addresses' = addresses
        /\ poisoned' = poisoned /\ pc' = pc
        /\ UNCHANGED <<state, mgr, appLock, slotVars, authVars, postVars, consumerVars, connVars>>
        /\ UNCHANGED <<cmd, attempts, closing>>
    BY <1>8 DEF cliVars, vars, processVars
  <2>2. up' \in BOOLEAN  BY <2>1 DEF SessionInv, TypeOK
  <2>3. SessionInv'  BY <2>1, <2>2, ProcessEnds
  <2> QED BY <2>1, <2>3 DEF MainInv, CliTypeOK, SessionInv
<1> QED BY <1>1, <1>2, <1>3, <1>4, <1>5, <1>6, <1>7, <1>8 DEF CliNext, MainStep

\* CliInv is an invariant of the program.
LEMMA CliInvariant == CliSpec => []CliInv
BY CliInitInv, CliNextInv, PTL DEF CliSpec

-----------------------------------------------------------------------------

\* Every reachable state of the program is well typed: for every timeout, the
\* polls pass it by at most one, and then main gives up; main polls or sleeps
\* only before it closes.
THEOREM CliTypeCorrect == CliSpec => []CliTypeOK
<1>1. CliInv => CliTypeOK  BY DEF CliInv
<1> QED BY <1>1, CliInvariant, PTL

\* Why a failed connect is not noticed (the run cli_failure): while main polls it
\* holds the manager, so that no one can set the state to Disconnected, and the
\* "Failed to connect" branch never runs.
THEOREM CliFailureUnseen == CliSpec => [](pc[Main] = "wait" => state # "Disconnected")
<1>1. CliInv => (pc[Main] = "wait" => state # "Disconnected")  BY DEF CliInv, MainInv
<1> QED BY <1>1, CliInvariant, PTL

\* The program shares the ConnectionManager with its tasks as the library does.
THEOREM CliExclusion == CliSpec => []ManagerExclusion
<1>1. CliInv => ManagerExclusion  BY DEF CliInv, SessionInv
<1> QED BY <1>1, CliInvariant, PTL

\* For the program too, an unlocked manager and Disconnected mean empty slots.
THEOREM CliDisconnectedIsClean == CliSpec => []DisconnectedIsClean
<1>1. CliInv => DisconnectedIsClean  BY CleanInvImplies DEF CliInv, SessionInv
<1> QED BY <1>1, CliInvariant, PTL

=============================================================================
