---------------------------- MODULE SessionProof ----------------------------
(* What every step of the session machinery preserves, whatever front end *)
(* drives it, and, in the second half, that the library front end keeps   *)
(* the invariant of the session for every number of callers, calls and    *)
(* logins.  CliClientProof takes the first half for the program.          *)
EXTENDS FfiClient, TLAPS

\* SessionInit establishes the types.
LEMMA SessionInitType == ASSUME SessionInit PROVE TypeOK
BY SessionAssumption
   DEF SessionInit, TypeOK, Threads, PCs, ManagerPCs, ConnectPCs, DisconnectPCs,
       CallerPCs, TaskPCs, States

\* Every program point is one of PCs.
LEMMA PCsMembers ==
  /\ ManagerPCs \subseteq PCs /\ CallerPCs \subseteq PCs /\ TaskPCs \subseteq PCs
  /\ {"connect", "connectRead", "connectSpawn", "connectFail", "disconnect", "dropAuth",
      "dropConn", "readPid", "kill", "clear", "try", "returned", "wait", "hold"} \subseteq PCs
  /\ {"idle", "resolve", "lockConnect", "lockDisconnect", "lockForce", "leaving"} \subseteq PCs
  /\ {"none", "spawned", "started", "reading", "lockTry", "done", "cancelled",
      "panicked"} \subseteq PCs
BY DEF PCs, ManagerPCs, ConnectPCs, DisconnectPCs, CallerPCs, TaskPCs

\* A panic keeps the types of what it changes.
LEMMA PanicsType ==
  ASSUME TypeOK, NEW t \in Threads, Panics(t, {"manager"}) \/ Panics(t, {"manager", "slot"})
  PROVE  /\ up' \in BOOLEAN
         /\ pc' \in [Threads -> PCs]
         /\ mgr' \in Threads \cup {NoThread} /\ appLock' \in Threads \cup {NoThread}
         /\ poisoned' \subseteq {"manager", "slot", "addresses"}
<1> "panicked" \in PCs  BY DEF PCs, TaskPCs
<1>1. CASE t \in Callers
  <2>1. up' = FALSE /\ pc' = pc /\ mgr' = mgr /\ appLock' = appLock /\ poisoned' = poisoned
    BY <1>1 DEF Panics
  <2> QED BY <2>1 DEF TypeOK
<1>2. CASE t \notin Callers
  <2>1. /\ up' = up
        /\ pc' = [pc EXCEPT ![t] = "panicked"]
        /\ mgr' = NoThread /\ appLock' = NoThread
        /\ poisoned' = poisoned \cup {"manager"} \/ poisoned' = poisoned \cup {"manager", "slot"}
    BY <1>2 DEF Panics
  <2> QED BY <2>1 DEF TypeOK
<1> QED BY <1>1, <1>2

\* A step of a thread inside the ConnectionManager keeps the types.
LEMMA ManagerType ==
  ASSUME TypeOK, NEW t \in Threads, ManagerStep(t)
  PROVE  TypeOK'
<1> USE SessionAssumption, PCsMembers
    DEF TypeOK, States, processVars, slotVars, authVars, postVars,
        consumerVars, connVars, Goto
<1>1. CASE SetConnecting(t)
  BY <1>1 DEF SetConnecting
<1>2. CASE ConnectRead(t)
  <2>1. CASE "addresses" \in poisoned
    BY <1>2, <2>1, PanicsType DEF ConnectRead
  <2>2. CASE "addresses" \notin poisoned
    <3>1. poisoned' = poisoned  BY <1>2, <2>2 DEF ConnectRead
    <3> QED BY <1>2, <2>2, <3>1 DEF ConnectRead
  <2> QED BY <2>1, <2>2
<1>3. CASE ConnectSpawn(t)
  BY <1>3 DEF ConnectSpawn
<1>4. CASE TryDisconnect(t)
  <2>1. CASE AppLive
    <3>1. poisoned' = poisoned  BY <1>4, <2>1 DEF TryDisconnect
    <3> QED BY <1>4, <2>1, <3>1 DEF TryDisconnect
  <2>2. CASE ~AppLive
    BY <1>4, <2>2, PanicsType DEF TryDisconnect
  <2> QED BY <2>1, <2>2
<1>5. CASE SetDisconnected(t)
  <2>1. CASE AppLive
    <3>1. poisoned' = poisoned  BY <1>5, <2>1 DEF SetDisconnected
    <3> QED BY <1>5, <2>1, <3>1 DEF SetDisconnected
  <2>2. CASE ~AppLive
    BY <1>5, <2>2, PanicsType DEF SetDisconnected
  <2> QED BY <2>1, <2>2
<1>6. CASE DropAuth(t)
  <2>1. CASE AppLive
    <3>1. poisoned' = poisoned  BY <1>6, <2>1 DEF DropAuth
    <3> QED BY <1>6, <2>1, <3>1 DEF DropAuth
  <2>2. CASE ~AppLive
    BY <1>6, <2>2, PanicsType DEF DropAuth
  <2> QED BY <2>1, <2>2
<1>7. CASE DropConn(t)
  BY <1>7 DEF DropConn
<1>8. CASE ReadPid(t)
  BY <1>8 DEF ReadPid
<1>9. CASE PsSilent(t)
  BY <1>9 DEF PsSilent
<1>10. CASE KillUnspawned(t)
  BY <1>10, PanicsType DEF KillUnspawned
<1>11. CASE Kill(t)
  <2>1. proc' \in [Logins -> {"none", "prompt", "running", "dead"}]
    BY <1>11 DEF Kill
  <2> QED BY <1>11, <2>1 DEF Kill
<1>12. CASE ClearPid(t)
  BY <1>12 DEF ClearPid
<1> QED BY <1>1, <1>2, <1>3, <1>4, <1>5, <1>6, <1>7, <1>8, <1>9, <1>10, <1>11, <1>12
        DEF ManagerStep

\* A step of a run_ovpn task keeps the types.
LEMMA AuthType ==
  ASSUME TypeOK, NEW i \in Challenges, AuthStep(i) \/ AuthAnswer(i)
  PROVE  TypeOK'
BY SessionAssumption
   DEF TypeOK, processVars, slotVars, authVars, postVars, consumerVars, connVars,
       AuthStep, AuthAnswer, AuthLock, AuthCancel, AuthDone, AuthPanic, Pwds

\* A step of a handler keeps the types.
LEMMA PostType ==
  ASSUME TypeOK, NEW j \in Logins, PostArrives(j) \/ PostGone(j) \/ PostStep(j)
  PROVE  TypeOK'
<1> USE SessionAssumption
    DEF TypeOK, processVars, slotVars, authVars, postVars, consumerVars, connVars
<1>1. CASE PostArrives(j)  BY <1>1 DEF PostArrives
<1>2. CASE PostGone(j)     BY <1>2 DEF PostGone
<1>3. CASE PostLock(j)
  <2> PICK f \in Forms :
         IF f = "missing" \/ pwd = 0
         THEN /\ post' = [post EXCEPT ![j] = "panicked"]
              /\ UNCHANGED <<short, samlPwd>>
         ELSE /\ post' = [post EXCEPT ![j] = "sending"]
              /\ samlPwd' = [samlPwd EXCEPT ![j] = pwd]
              /\ short' = IF f = "short" THEN short \cup {j} ELSE short
    BY <1>3 DEF PostLock
  <2>1. short' \subseteq Logins  OBVIOUS
  <2> QED BY <1>3, <2>1 DEF PostLock
<1>4. CASE PostSend(j)     BY <1>4 DEF PostSend
<1> QED BY <1>1, <1>2, <1>3, <1>4 DEF PostStep

\* A step of the consumer keeps the types.
LEMMA ConsumerType == ASSUME TypeOK, ConsumerStep PROVE TypeOK'
<1> USE SessionAssumption, PCsMembers
    DEF TypeOK, States, processVars, slotVars, authVars, postVars, consumerVars, connVars,
        Goto
<1>1. CASE ConsumerRecv      BY <1>1 DEF ConsumerRecv
<1>2. CASE ConsumerLaunch
  <2>1. cur \in Threads  BY <1>2 DEF ConsumerLaunch, Threads
  <2>2. poisoned' \subseteq {"manager", "slot", "addresses"}  BY <1>2 DEF ConsumerLaunch
  <2> QED BY <1>2, <2>1, <2>2 DEF ConsumerLaunch
<1>3. CASE ConsumerStore     BY <1>3 DEF ConsumerStore
<1>4. CASE ConsumerAnnounce  BY <1>4 DEF ConsumerAnnounce
<1> QED BY <1>1, <1>2, <1>3, <1>4 DEF ConsumerStep

\* A step of a connection task or of its OpenVPN process keeps the types.
LEMMA ConnType ==
  ASSUME TypeOK, NEW j \in Logins, ConnStep(j) \/ ProcStep(j)
  PROVE  TypeOK'
<1> j \in Threads  BY DEF Threads
<1> USE SessionAssumption, PCsMembers
    DEF TypeOK, processVars, slotVars, authVars, postVars, consumerVars, connVars, Goto
<1>1. CASE ConnStart(j)        BY <1>1 DEF ConnStart
<1>2. CASE ConnRecord(j)       BY <1>2 DEF ConnRecord
<1>3. CASE ConnCancel(j)       BY <1>3 DEF ConnCancel
<1>4. CASE ConnEof(j)          BY <1>4 DEF ConnEof
<1>5. CASE ConnLockManager(j)  BY <1>5 DEF ConnLockManager
<1>6. CASE ConnReturn(j)       BY <1>6 DEF ConnReturn
<1>7. CASE ProcAuthorised(j)   BY <1>7 DEF ProcAuthorised
<1>8. CASE ProcExits(j)        BY <1>8 DEF ProcExits
<1> QED BY <1>1, <1>2, <1>3, <1>4, <1>5, <1>6, <1>7, <1>8 DEF ConnStep, ProcStep

\* Every step of the session keeps the types.
LEMMA SessionNextType == ASSUME TypeOK, SessionNext PROVE TypeOK'
BY ManagerType, AuthType, PostType, ConsumerType, ConnType DEF SessionNext

\* What the front ends do before a call keeps the types.
LEMMA CallerType ==
  ASSUME TypeOK, NEW c \in Callers, Resolve(c) \/ LockManager(c)
  PROVE  TypeOK'
<1> c \in Threads  BY DEF Threads
<1> USE SessionAssumption, PCsMembers
    DEF TypeOK, processVars, slotVars, authVars, postVars, consumerVars, connVars, Goto
<1>1. CASE Resolve(c)
  <2> PICK r \in DnsResults :
         IF r = "panic" \/ "addresses" \in poisoned
         THEN up' = FALSE /\ UNCHANGED <<addresses, pc>>
         ELSE /\ addresses' = r
              /\ Goto(c, "resolve", "lockConnect")
              /\ UNCHANGED up
    BY <1>1 DEF Resolve
  <2>1. up' \in BOOLEAN  OBVIOUS
  <2>2. addresses' \in {"none", "empty", "some"} /\ pc' \in [Threads -> PCs]  OBVIOUS
  <2> QED BY <1>1, <2>1, <2>2 DEF Resolve
<1>2. CASE LockManager(c)
  <2>1. LockedPC(pc[c]) \in PCs  BY DEF LockedPC
  <2>2. up' \in BOOLEAN /\ pc' \in [Threads -> PCs] /\ mgr' \in Threads \cup {NoThread}
    <3>1. CASE "manager" \in poisoned
      <4>1. up' = FALSE /\ pc' = pc /\ mgr' = mgr  BY <1>2, <3>1 DEF LockManager
      <4> QED BY <4>1
    <3>2. CASE "manager" \notin poisoned
      <4>1. up' = up /\ pc' = [pc EXCEPT ![c] = LockedPC(pc[c])] /\ mgr' = c
        BY <1>2, <3>2 DEF LockManager
      <4> QED BY <2>1, <4>1
    <3> QED BY <3>1, <3>2
  <2> QED BY <1>2, <2>2 DEF LockManager
<1> QED BY <1>1, <1>2

-----------------------------------------------------------------------------
(* Mutual exclusion in the ConnectionManager.                             *)

\* SessionInit establishes the exclusion: nobody is inside, nothing is locked.
LEMMA SessionInitExclusion == ASSUME SessionInit PROVE ManagerExclusion
BY SessionAssumption
   DEF SessionInit, ManagerExclusion, Threads, ManagerPCs, ConnectPCs, DisconnectPCs,
       AppLockPCs

\* A thread that moves from one point inside the ConnectionManager to another
\* keeps the exclusion if it holds the app guard exactly where it should.
LEMMA MoveInside ==
  ASSUME TypeOK, ManagerExclusion, NEW t \in Threads,
         pc[t] \in ManagerPCs, NEW p \in ManagerPCs,
         pc' = [pc EXCEPT ![t] = p], mgr' = mgr,
         appLock' = IF p \in AppLockPCs THEN t ELSE NoThread
  PROVE  ManagerExclusion'
<1>1. \A u \in Threads : u # t => pc[u] \notin ManagerPCs
  BY DEF ManagerExclusion
<1>2. AppLockPCs \subseteq ManagerPCs
  BY DEF AppLockPCs, ManagerPCs, ConnectPCs, DisconnectPCs
<1> QED BY SessionAssumption, <1>1, <1>2 DEF TypeOK, ManagerExclusion

\* A thread that leaves the ConnectionManager and unlocks it.
LEMMA MoveOut ==
  ASSUME TypeOK, ManagerExclusion, NEW t \in Threads,
         pc[t] \in ManagerPCs, NEW p, p \notin ManagerPCs,
         pc' = [pc EXCEPT ![t] = p], mgr' = NoThread, appLock' = NoThread
  PROVE  ManagerExclusion'
<1>1. \A u \in Threads : u # t => pc[u] \notin ManagerPCs
  BY DEF ManagerExclusion
<1>2. AppLockPCs \subseteq ManagerPCs
  BY DEF AppLockPCs, ManagerPCs, ConnectPCs, DisconnectPCs
<1> QED BY SessionAssumption, <1>1, <1>2 DEF TypeOK, ManagerExclusion

\* A thread that locks the free ConnectionManager and enters it.
LEMMA MoveIn ==
  ASSUME TypeOK, ManagerExclusion, NEW t \in Threads, mgr = NoThread,
         NEW p \in ManagerPCs \ AppLockPCs,
         pc' = [pc EXCEPT ![t] = p], mgr' = t, appLock' = appLock
  PROVE  ManagerExclusion'
<1>1. \A u \in Threads : pc[u] \notin ManagerPCs
  BY SessionAssumption DEF ManagerExclusion
<1>2. AppLockPCs \subseteq ManagerPCs
  BY DEF AppLockPCs, ManagerPCs, ConnectPCs, DisconnectPCs
<1> QED BY SessionAssumption, <1>1, <1>2 DEF TypeOK, ManagerExclusion

\* A thread that moves outside of the ConnectionManager.
LEMMA MoveOutside ==
  ASSUME TypeOK, ManagerExclusion, NEW t \in Threads,
         pc[t] \notin ManagerPCs, NEW p, p \notin ManagerPCs,
         pc' = [pc EXCEPT ![t] = p], mgr' = mgr, appLock' = appLock
  PROVE  ManagerExclusion'
<1>1. AppLockPCs \subseteq ManagerPCs
  BY DEF AppLockPCs, ManagerPCs, ConnectPCs, DisconnectPCs
<1> QED BY <1>1 DEF TypeOK, ManagerExclusion

\* Only a thread inside can hold the app guard.
LEMMA AppLockInside ==
  ASSUME TypeOK, ManagerExclusion, NEW t \in Threads, pc[t] \in ManagerPCs
  PROVE  appLock = IF pc[t] \in AppLockPCs THEN t ELSE NoThread
<1>1. \A u \in Threads : u # t => pc[u] \notin ManagerPCs
  BY DEF ManagerExclusion
<1>2. AppLockPCs \subseteq ManagerPCs
  BY DEF AppLockPCs, ManagerPCs, ConnectPCs, DisconnectPCs
<1> QED BY <1>1, <1>2 DEF TypeOK, ManagerExclusion

\* A panic inside the ConnectionManager keeps the exclusion.
LEMMA PanicsExclusion ==
  ASSUME TypeOK, ManagerExclusion, NEW t \in Threads, pc[t] \in ManagerPCs,
         NEW locks, Panics(t, locks)
  PROVE  ManagerExclusion'
<1>1. CASE t \in Callers
  BY <1>1 DEF Panics, ManagerExclusion
<1>2. CASE t \notin Callers
  <2>1. "panicked" \notin ManagerPCs
    BY DEF ManagerPCs, ConnectPCs, DisconnectPCs
  <2>2. pc' = [pc EXCEPT ![t] = "panicked"] /\ mgr' = NoThread /\ appLock' = NoThread
    BY <1>2 DEF Panics
  <2> QED BY <2>1, <2>2, MoveOut
<1> QED BY <1>1, <1>2

\* A step inside the ConnectionManager keeps the exclusion.
LEMMA ManagerStepExclusion ==
  ASSUME TypeOK, ManagerExclusion, NEW t \in Threads, ManagerStep(t)
  PROVE  ManagerExclusion'
<1> USE DEF Goto
<1>0. /\ {"connect", "connectRead", "connectSpawn", "connectFail", "disconnect", "dropAuth",
          "dropConn", "readPid", "kill", "clear", "try", "returned"} \subseteq ManagerPCs
      /\ {"connectFail", "dropConn", "readPid", "kill", "clear"} \subseteq AppLockPCs
      /\ \A p \in AppLockPCs : p \notin {"connect", "connectRead", "connectSpawn",
                                         "disconnect", "dropAuth", "try", "returned"}
  BY DEF ManagerPCs, ConnectPCs, DisconnectPCs, AppLockPCs
<1>1. CASE SetConnecting(t)
  BY <1>0, <1>1, AppLockInside, MoveInside DEF SetConnecting
<1>2. CASE ConnectRead(t)
  <2>1. CASE "addresses" \in poisoned
    BY <1>0, <1>2, <2>1, PanicsExclusion DEF ConnectRead
  <2>2. CASE "addresses" \notin poisoned
    BY <1>0, <1>2, <2>2, AppLockInside, MoveInside DEF ConnectRead
  <2> QED BY <2>1, <2>2
<1>3. CASE ConnectSpawn(t)
  BY <1>0, <1>3, AppLockInside, MoveInside DEF ConnectSpawn
<1>4. CASE TryDisconnect(t)
  <2>1. CASE AppLive
    BY <1>0, <1>4, <2>1, AppLockInside, MoveInside DEF TryDisconnect
  <2>2. CASE ~AppLive
    BY <1>0, <1>4, <2>2, PanicsExclusion DEF TryDisconnect
  <2> QED BY <2>1, <2>2
<1>5. CASE SetDisconnected(t)
  <2>1. CASE AppLive
    BY <1>0, <1>5, <2>1, AppLockInside, MoveInside DEF SetDisconnected
  <2>2. CASE ~AppLive
    BY <1>0, <1>5, <2>2, PanicsExclusion DEF SetDisconnected
  <2> QED BY <2>1, <2>2
<1>6. CASE DropAuth(t)
  <2>1. CASE AppLive
    BY <1>0, <1>6, <2>1, MoveInside DEF DropAuth
  <2>2. CASE ~AppLive
    BY <1>0, <1>6, <2>2, PanicsExclusion DEF DropAuth
  <2> QED BY <2>1, <2>2
<1>7. CASE DropConn(t)
  BY <1>0, <1>7, AppLockInside, MoveInside DEF DropConn
<1>8. CASE ReadPid(t)
  BY <1>0, <1>8, AppLockInside, MoveInside DEF ReadPid
<1>9. CASE PsSilent(t)
  BY <1>0, <1>9, MoveInside DEF PsSilent
<1>10. CASE KillUnspawned(t)
  BY <1>0, <1>10, PanicsExclusion DEF KillUnspawned
<1>11. CASE Kill(t)
  BY <1>0, <1>11, AppLockInside, MoveInside DEF Kill
<1>12. CASE ClearPid(t)
  BY <1>0, <1>12, MoveInside DEF ClearPid
<1> QED BY <1>1, <1>2, <1>3, <1>4, <1>5, <1>6, <1>7, <1>8, <1>9, <1>10, <1>11, <1>12
        DEF ManagerStep

\* Every step of the session keeps the exclusion.
LEMMA SessionNextExclusion ==
  ASSUME TypeOK, ManagerExclusion, SessionNext
  PROVE  ManagerExclusion'
<1> USE DEF Goto
<1>0. /\ {"try", "returned"} \subseteq ManagerPCs \ AppLockPCs
      /\ \A p \in ManagerPCs : p \notin {"none", "spawned", "started", "reading", "lockTry",
                                         "done", "cancelled", "panicked"}
  BY DEF ManagerPCs, ConnectPCs, DisconnectPCs, AppLockPCs
<1>1. ASSUME UNCHANGED <<pc, mgr, appLock>> PROVE ManagerExclusion'
  BY <1>1 DEF ManagerExclusion
<1>2. CASE \E t \in Threads : ManagerStep(t)
  BY <1>2, ManagerStepExclusion
<1>3. CASE \E i \in Challenges : AuthStep(i) \/ AuthAnswer(i)
  BY <1>1, <1>3 DEF AuthStep, AuthAnswer, AuthLock, AuthCancel, AuthDone, AuthPanic
<1>4. CASE \E j \in Logins : PostArrives(j) \/ PostGone(j) \/ PostStep(j) \/ ProcStep(j)
  BY <1>1, <1>4 DEF PostArrives, PostGone, PostStep, PostLock, PostSend,
                    ProcStep, ProcAuthorised, ProcExits
<1>5. CASE \E j \in Logins : ConnStep(j)
  <2> PICK j \in Logins : ConnStep(j)  BY <1>5
  <2> j \in Threads  BY DEF Threads
  <2>1. CASE ConnStart(j)
    BY <1>0, <2>1, MoveOutside DEF ConnStart
  <2>2. CASE ConnRecord(j)
    BY <1>0, <2>2, MoveOutside DEF ConnRecord
  <2>3. CASE ConnCancel(j)
    BY <1>0, <2>3, MoveOutside DEF ConnCancel
  <2>4. CASE ConnEof(j)
    BY <1>0, <2>4, MoveOutside DEF ConnEof
  <2>5. CASE ConnLockManager(j)
    <3>1. CASE "manager" \in poisoned
      BY <1>0, <2>5, <3>1, MoveOutside DEF ConnLockManager
    <3>2. CASE "manager" \notin poisoned
      BY <1>0, <2>5, <3>2, MoveIn DEF ConnLockManager
    <3> QED BY <3>1, <3>2
  <2>6. CASE ConnReturn(j)
    BY <1>0, <2>6, AppLockInside, MoveOut DEF ConnReturn
  <2> QED BY <2>1, <2>2, <2>3, <2>4, <2>5, <2>6 DEF ConnStep
<1>6. CASE ConsumerStep
  <2>1. CASE ConsumerLaunch
    <3>1. cur \in Threads  BY <2>1 DEF ConsumerLaunch, TypeOK, Threads
    <3> QED BY <1>0, <1>1, <2>1, <3>1, MoveOutside DEF ConsumerLaunch
  <2>2. CASE ConsumerRecv \/ ConsumerStore \/ ConsumerAnnounce
    BY <1>1, <2>2 DEF ConsumerRecv, ConsumerStore, ConsumerAnnounce, slotVars
  <2> QED BY <1>6, <2>1, <2>2 DEF ConsumerStep
<1> QED BY <1>2, <1>3, <1>4, <1>5, <1>6 DEF SessionNext

\* What the front ends do before a call keeps the exclusion.
LEMMA CallerExclusion ==
  ASSUME TypeOK, ManagerExclusion, NEW c \in Callers, Resolve(c) \/ LockManager(c)
  PROVE  ManagerExclusion'
<1> USE DEF Goto
<1> c \in Threads  BY DEF Threads
<1>0. /\ {"connect", "disconnect", "dropAuth"} \subseteq ManagerPCs \ AppLockPCs
      /\ "resolve" \notin ManagerPCs /\ "lockConnect" \notin ManagerPCs
  BY DEF ManagerPCs, ConnectPCs, DisconnectPCs, AppLockPCs
<1>1. ASSUME UNCHANGED <<pc, mgr, appLock>> PROVE ManagerExclusion'
  BY <1>1 DEF ManagerExclusion
<1>2. CASE Resolve(c)
  BY <1>0, <1>1, <1>2, MoveOutside DEF Resolve
<1>3. CASE LockManager(c)
  <2>1. CASE "manager" \in poisoned
    BY <1>1, <1>3, <2>1 DEF LockManager
  <2>2. CASE "manager" \notin poisoned
    <3>1. LockedPC(pc[c]) \in {"connect", "disconnect", "dropAuth"}
      BY DEF LockedPC
    <3> QED BY <1>0, <1>3, <2>2, <3>1, MoveIn DEF LockManager
  <2> QED BY <2>1, <2>2
<1> QED BY <1>2, <1>3

-----------------------------------------------------------------------------
(* Disconnected is clean.                                                 *)

\* The thread inside the ConnectionManager is at one of the points ps.
Inside(ps) == mgr # NoThread /\ pc[mgr] \in ps

\* DisconnectedIsClean is not inductive: disconnect sets the state first and
\* empties the slots later, and connect fills a slot without looking at the
\* state.  So: connect has changed the state since it entered, and a slot that
\* is full under Disconnected is about to be emptied by the thread inside, or
\* announced by the consumer.
CleanInv ==
  /\ Inside({"connectRead", "connectSpawn", "connectFail"}) => state # "Disconnected"
  /\ state = "Disconnected" /\ "manager" \notin poisoned =>
       /\ authSlot # 0 => Inside({"dropAuth"})
       /\ connSlot # 0 => cpc = "announce" \/ Inside({"dropAuth", "dropConn"})

\* The invariant implies the property.
LEMMA CleanInvImplies == ASSUME CleanInv PROVE DisconnectedIsClean
BY DEF CleanInv, Inside, DisconnectedIsClean

\* SessionInit establishes the invariant.
LEMMA SessionInitClean == ASSUME SessionInit PROVE CleanInv
BY DEF SessionInit, CleanInv, Inside

\* A thread that moves outside of the ConnectionManager keeps the invariant.
LEMMA CleanOutside ==
  ASSUME TypeOK, ManagerExclusion, CleanInv, NEW u \in Threads, pc[u] \notin ManagerPCs, NEW p,
         pc' = [pc EXCEPT ![u] = p],
         UNCHANGED <<mgr, state, authSlot, connSlot>>, poisoned' = poisoned,
         cpc' = cpc \/ cpc # "announce"
  PROVE  CleanInv'
<1>1. mgr # u  BY DEF ManagerExclusion
<1>2. mgr # NoThread => pc'[mgr] = pc[mgr]  BY <1>1 DEF TypeOK
<1> QED BY <1>2 DEF CleanInv, Inside

\* So does a step that changes nothing the invariant speaks of.
LEMMA CleanFrame ==
  ASSUME CleanInv, UNCHANGED <<pc, mgr, state, authSlot, connSlot>>, poisoned' = poisoned,
         cpc' = cpc \/ cpc # "announce"
  PROVE  CleanInv'
BY DEF CleanInv, Inside

\* A panic inside the ConnectionManager ends the process or poisons the manager.
LEMMA CleanPanics ==
  ASSUME TypeOK, ManagerExclusion, CleanInv, NEW t \in Threads, pc[t] \in ManagerPCs,
         Panics(t, {"manager"}) \/ Panics(t, {"manager", "slot"}),
         UNCHANGED <<state, authSlot, connSlot, cpc>>
  PROVE  CleanInv'
<1>1. CASE t \in Callers
  BY <1>1, CleanFrame DEF Panics
<1>2. CASE t \notin Callers
  BY <1>2 DEF Panics, CleanInv, Inside
<1> QED BY <1>1, <1>2

\* A step inside the ConnectionManager keeps the invariant.
LEMMA ManagerStepClean ==
  ASSUME TypeOK, ManagerExclusion, CleanInv, NEW t \in Threads, ManagerStep(t)
  PROVE  CleanInv'
<1> USE DEF Goto, slotVars, consumerVars, processVars
<1>0. {"connect", "connectRead", "connectSpawn", "connectFail", "disconnect", "dropAuth",
       "dropConn", "readPid", "kill", "clear", "try", "returned"} \subseteq ManagerPCs
  BY DEF ManagerPCs, ConnectPCs, DisconnectPCs
<1>m. pc[t] \in ManagerPCs => mgr = t /\ mgr # NoThread
  BY SessionAssumption DEF ManagerExclusion
<1>1. CASE SetConnecting(t)
  BY <1>1 DEF SetConnecting, CleanInv
<1>2. CASE ConnectRead(t)
  <2>1. CASE "addresses" \in poisoned
    BY <1>0, <1>2, <2>1, CleanPanics DEF ConnectRead
  <2>2. CASE "addresses" \notin poisoned
    BY <1>0, <1>m, <1>2, <2>2 DEF ConnectRead, CleanInv, Inside
  <2> QED BY <2>1, <2>2
<1>3. CASE ConnectSpawn(t)
  BY <1>0, <1>m, <1>3 DEF ConnectSpawn, CleanInv, Inside
<1>4. CASE TryDisconnect(t)
  <2>1. CASE AppLive
    BY <1>0, <1>m, <1>4, <2>1 DEF TryDisconnect, CleanInv, Inside, TypeOK
  <2>2. CASE ~AppLive
    BY <1>0, <1>4, <2>2, CleanPanics DEF TryDisconnect
  <2> QED BY <2>1, <2>2
<1>5. CASE SetDisconnected(t)
  <2>1. CASE AppLive
    <3>1. pc[t] = "disconnect"
      BY <1>5, SessionAssumption DEF SetDisconnected, ManagerExclusion, AppLockPCs
    <3> QED BY <1>0, <1>m, <1>5, <2>1, <3>1 DEF SetDisconnected, CleanInv, Inside, TypeOK
  <2>2. CASE ~AppLive
    BY <1>0, <1>5, <2>2, CleanPanics DEF SetDisconnected
  <2> QED BY <2>1, <2>2
<1>6. CASE DropAuth(t)
  <2>1. CASE AppLive
    BY <1>0, <1>m, <1>6, <2>1 DEF DropAuth, CleanInv, Inside, TypeOK
  <2>2. CASE ~AppLive
    BY <1>0, <1>6, <2>2, CleanPanics DEF DropAuth
  <2> QED BY <2>1, <2>2
<1>7. CASE DropConn(t)
  BY <1>0, <1>m, <1>7 DEF DropConn, CleanInv, Inside, TypeOK
<1>8. CASE ReadPid(t)
  BY <1>0, <1>m, <1>8 DEF ReadPid, CleanInv, Inside, TypeOK
<1>9. CASE PsSilent(t)
  BY <1>0, <1>m, <1>9 DEF PsSilent, CleanInv, Inside, TypeOK
<1>10. CASE KillUnspawned(t)
  BY <1>0, <1>10, CleanPanics DEF KillUnspawned
<1>11. CASE Kill(t)
  BY <1>0, <1>m, <1>11 DEF Kill, CleanInv, Inside, TypeOK
<1>12. CASE ClearPid(t)
  BY <1>0, <1>m, <1>12 DEF ClearPid, CleanInv, Inside, TypeOK
<1> QED BY <1>1, <1>2, <1>3, <1>4, <1>5, <1>6, <1>7, <1>8, <1>9, <1>10, <1>11, <1>12
        DEF ManagerStep

\* Every step of the session keeps the invariant.
LEMMA SessionNextClean ==
  ASSUME TypeOK, ManagerExclusion, CleanInv, SessionNext
  PROVE  CleanInv'
<1> USE DEF Goto, slotVars, consumerVars, processVars
<1>0. \A p \in ManagerPCs : p \notin {"none", "spawned", "started", "reading", "lockTry"}
  BY DEF ManagerPCs, ConnectPCs, DisconnectPCs
<1>2. CASE \E t \in Threads : ManagerStep(t)
  BY <1>2, ManagerStepClean
<1>3. CASE \E i \in Challenges : AuthStep(i) \/ AuthAnswer(i)
  BY <1>3, CleanFrame DEF AuthStep, AuthAnswer, AuthLock, AuthCancel, AuthDone, AuthPanic
<1>4. CASE \E j \in Logins : PostArrives(j) \/ PostGone(j) \/ PostStep(j) \/ ProcStep(j)
  BY <1>4, CleanFrame DEF PostArrives, PostGone, PostStep, PostLock, PostSend,
                          ProcStep, ProcAuthorised, ProcExits
<1>5. CASE \E j \in Logins : ConnStep(j)
  <2> PICK j \in Logins : ConnStep(j)  BY <1>5
  <2> j \in Threads  BY DEF Threads
  <2>1. CASE ConnStart(j)
    BY <1>0, <2>1, CleanOutside DEF ConnStart
  <2>2. CASE ConnRecord(j)
    BY <1>0, <2>2, CleanOutside DEF ConnRecord
  <2>3. CASE ConnCancel(j)
    BY <1>0, <2>3, CleanOutside DEF ConnCancel
  <2>4. CASE ConnEof(j)
    BY <1>0, <2>4, CleanOutside DEF ConnEof
  <2>5. CASE ConnLockManager(j)
    <3>1. CASE "manager" \in poisoned
      BY <1>0, <2>5, <3>1, CleanOutside DEF ConnLockManager
    <3>2. CASE "manager" \notin poisoned
      BY <2>5, <3>2 DEF ConnLockManager, CleanInv, Inside, TypeOK
    <3> QED BY <3>1, <3>2
  <2>6. CASE ConnReturn(j)
    BY <2>6, SessionAssumption
       DEF ConnReturn, CleanInv, Inside, TypeOK, ManagerExclusion, ManagerPCs
  <2> QED BY <2>1, <2>2, <2>3, <2>4, <2>5, <2>6 DEF ConnStep
<1>6. CASE ConsumerStep
  <2>1. CASE ConsumerRecv
    BY <2>1, CleanFrame DEF ConsumerRecv
  <2>2. CASE ConsumerLaunch
    <3>1. CASE addresses = "some"
      <4>1. cur \in Threads  BY <2>2 DEF ConsumerLaunch, TypeOK, Threads
      <4> QED BY <1>0, <2>2, <3>1, <4>1, CleanOutside DEF ConsumerLaunch
    <3>2. CASE addresses # "some"
      BY <2>2, <3>2 DEF ConsumerLaunch, CleanInv, Inside
    <3> QED BY <3>1, <3>2
  <2>3. CASE ConsumerStore
    BY <2>3 DEF ConsumerStore, CleanInv, Inside
  <2>4. CASE ConsumerAnnounce
    BY <2>4 DEF ConsumerAnnounce, CleanInv, Inside
  <2> QED BY <1>6, <2>1, <2>2, <2>3, <2>4 DEF ConsumerStep
<1> QED BY <1>2, <1>3, <1>4, <1>5, <1>6 DEF SessionNext

\* What the front ends do before a call keeps the invariant.
LEMMA CallerClean ==
  ASSUME TypeOK, ManagerExclusion, CleanInv, NEW c \in Callers, Resolve(c) \/ LockManager(c)
  PROVE  CleanInv'
<1> USE DEF Goto, slotVars, consumerVars
<1> c \in Threads  BY DEF Threads
<1>1. CASE Resolve(c)
  <2>1. "resolve" \notin ManagerPCs  BY DEF ManagerPCs, ConnectPCs, DisconnectPCs
  <2> QED BY <1>1, <2>1, CleanFrame, CleanOutside DEF Resolve
<1>2. CASE LockManager(c)
  <2>1. CASE "manager" \in poisoned
    BY <1>2, <2>1, CleanFrame DEF LockManager
  <2>2. CASE "manager" \notin poisoned
    <3>1. LockedPC(pc[c]) \in {"connect", "disconnect", "dropAuth"}
      BY DEF LockedPC
    <3> QED BY <1>2, <2>2, <3>1 DEF LockManager, CleanInv, Inside, TypeOK
  <2> QED BY <2>1, <2>2
<1> QED BY <1>1, <1>2

-----------------------------------------------------------------------------
(* The way of a login from the handler to the slot.                       *)

\* A pwd, in the config or in a login that has passed the pwd lock, is one that
\* run_ovpn has obtained; with LoginsDeliveredOnce this gives OnlyObtainedPwds.
FlowInv ==
  /\ LoginsDeliveredOnce
  /\ pwd # 0 => Obtained(pwd)
  /\ \A j \in Logins : post[j] \in {"sending", "done"} => Obtained(samlPwd[j])

\* What is aborted or in the slot of run_ovpn was spawned, and not both.
AuthSlotInv ==
  /\ \A i \in authAborted \cup {authSlot} : i # 0 => auth[i] # "none"
  /\ authSlot \notin authAborted

\* A login is stored once: what is aborted or in the slot was launched and is
\* not waiting to be stored, and a login that waits for that was launched.
ConnSlotInv ==
  /\ connSlot \notin connAborted
  /\ \A j \in connAborted \cup {connSlot} :
       j # 0 => pc[j] # "none" /\ ~(cpc = "store" /\ cur = j)
  /\ cpc = "store" => pc[cur] # "none"
  /\ \A j \in Logins :
       TaskLive(j) /\ j \notin connAborted /\ (\A k \in Logins \ {j} : pc[k] = "none")
         => connSlot = j \/ (cur = j /\ cpc # "announce")

SlotInv == AuthSlotInv /\ ConnSlotInv

\* The invariants imply the properties.
LEMMA FlowInvImplies ==
  ASSUME TypeOK, FlowInv PROVE OnlyObtainedPwds /\ LoginsDeliveredOnce
BY DEF TypeOK, FlowInv, OnlyObtainedPwds, LoginsDeliveredOnce

\* The invariant of the slots implies the properties about them.
LEMMA SlotInvImplies == ASSUME SlotInv PROVE AbortedOnce /\ LoneSessionReachable
BY DEF SlotInv, AuthSlotInv, ConnSlotInv, AbortedOnce, LoneSessionReachable

\* SessionInit establishes the invariants.
LEMMA SessionInitFlow == ASSUME SessionInit PROVE FlowInv /\ SlotInv
<1>1. \A j \in Logins : j # 0 /\ pc[j] = "none"
  BY SessionAssumption DEF SessionInit, Threads, Logins
<1>2. FlowInv
  BY <1>1 DEF SessionInit, FlowInv, LoginsDeliveredOnce
<1>3. SlotInv
  BY <1>1 DEF SessionInit, SlotInv, AuthSlotInv, ConnSlotInv, TaskLive
<1> QED BY <1>2, <1>3

\* What a step may do to the program counters of the connection tasks without
\* touching the invariants: launch none, and revive none.
TasksKept ==
  \A j \in Logins : /\ pc'[j] = "none" <=> pc[j] = "none"
                    /\ TaskLive(j)' => TaskLive(j)

\* A step that keeps the tasks, the login's way and the answers.
LEMMA FlowFrame ==
  ASSUME TypeOK, FlowInv, TasksKept, UNCHANGED <<post, samlPwd, chan, cpc, cur, pwd>>,
         \A i \in Challenges : auth[i] \in {"done", "portal"} => auth'[i] = auth[i]
  PROVE  FlowInv'
BY DEF TypeOK, FlowInv, Obtained, LoginsDeliveredOnce, TasksKept

\* A step that keeps the slot of run_ovpn and un-spawns nothing.
LEMMA AuthSlotFrame ==
  ASSUME TypeOK, AuthSlotInv, UNCHANGED <<authSlot, authAborted>>,
         \A i \in Challenges : auth[i] # "none" => auth'[i] # "none"
  PROVE  AuthSlotInv'
BY DEF TypeOK, AuthSlotInv

\* A step that keeps the tasks, their slot, their aborts and the consumer.
LEMMA ConnSlotFrame ==
  ASSUME TypeOK, ConnSlotInv, TasksKept, UNCHANGED <<connSlot, connAborted, cpc, cur>>
  PROVE  ConnSlotInv'
BY DEF TypeOK, ConnSlotInv, TasksKept

\* A step inside the ConnectionManager keeps the tasks.
LEMMA ManagerTasksKept ==
  ASSUME TypeOK, NEW t \in Threads, ManagerStep(t)
  PROVE  TasksKept
<1>1. ASSUME pc' = pc PROVE TasksKept
  BY <1>1 DEF TasksKept, TaskLive
<1>2. ASSUME NEW p, p \notin {"none", "spawned", "started", "reading", "lockTry"},
             pc[t] # "none", pc' = [pc EXCEPT ![t] = p]
      PROVE  TasksKept
  BY <1>2 DEF TypeOK, TasksKept, TaskLive
<1>3. ASSUME NEW locks, Panics(t, locks), pc[t] # "none" PROVE TasksKept
  BY <1>1, <1>2, <1>3 DEF Panics
<1>4. CASE SetConnecting(t) \/ ConnectSpawn(t) \/ DropConn(t) \/ ReadPid(t)
  BY <1>2, <1>4 DEF SetConnecting, ConnectSpawn, DropConn, ReadPid, Goto
<1>5. CASE PsSilent(t) \/ Kill(t) \/ ClearPid(t)
  BY <1>2, <1>5 DEF PsSilent, Kill, ClearPid, Goto
<1>6. CASE ConnectRead(t)
  BY <1>2, <1>3, <1>6 DEF ConnectRead, Goto
<1>7. CASE TryDisconnect(t) \/ DropAuth(t) \/ KillUnspawned(t)
  BY <1>2, <1>3, <1>7 DEF TryDisconnect, DropAuth, KillUnspawned, Goto
<1>8. CASE SetDisconnected(t)
  BY <1>2, <1>3, <1>8 DEF SetDisconnected
<1> QED BY <1>4, <1>5, <1>6, <1>7, <1>8 DEF ManagerStep

\* A step inside the ConnectionManager keeps the way of the logins and the slots.
LEMMA ManagerStepFlow ==
  ASSUME TypeOK, FlowInv, SlotInv, NEW t \in Threads, ManagerStep(t)
  PROVE  FlowInv' /\ SlotInv'
<1> USE ManagerTasksKept DEF SlotInv, slotVars, authVars, postVars, consumerVars, connVars
<1>1. CASE ConnectSpawn(t)
  <2> PICK i \in Challenges : /\ auth[i] = "none"
                              /\ auth' = [auth EXCEPT ![i] = "spawned"]
                              /\ authSlot' = i
    BY <1>1 DEF ConnectSpawn
  <2>1. i # 0 /\ i \notin authAborted
    BY DEF AuthSlotInv, Challenges
  <2>2. FlowInv'
    BY <1>1, FlowFrame DEF ConnectSpawn, TypeOK
  <2>3. AuthSlotInv'
    BY <1>1, <2>1 DEF ConnectSpawn, TypeOK, AuthSlotInv
  <2>4. ConnSlotInv'
    BY <1>1, ConnSlotFrame DEF ConnectSpawn
  <2> QED BY <2>2, <2>3, <2>4
<1>2. CASE DropAuth(t)
  <2>1. FlowInv'
    BY <1>2, FlowFrame DEF DropAuth
  <2>2. ConnSlotInv'
    BY <1>2, ConnSlotFrame DEF DropAuth
  <2>3. CASE AppLive
    <3>1. authSlot' = 0 /\ authAborted' = authAborted \cup ({authSlot} \ {0}) /\ auth' = auth
      BY <1>2, <2>3 DEF DropAuth
    <3>2. 0 \notin authAborted'
      BY <3>1 DEF TypeOK, Challenges
    <3> QED BY <2>1, <2>2, <3>1, <3>2 DEF AuthSlotInv
  <2>4. CASE ~AppLive
    BY <1>2, <2>1, <2>2, <2>4, AuthSlotFrame DEF DropAuth
  <2> QED BY <2>3, <2>4
<1>3. CASE DropConn(t)
  <2>1. FlowInv'
    BY <1>3, FlowFrame DEF DropConn
  <2>2. AuthSlotInv'
    BY <1>3, AuthSlotFrame DEF DropConn
  <2>3. CASE connSlot = 0
    BY <1>3, <2>1, <2>2, <2>3, ConnSlotFrame DEF DropConn
  <2>4. CASE connSlot # 0
    <3>1. /\ connSlot' = 0 /\ connAborted' = connAborted \cup {connSlot}
          /\ cpc' = cpc /\ cur' = cur
      BY <1>3, <2>4 DEF DropConn
    <3>2. 0 \notin connAborted'
      BY <2>4, <3>1 DEF TypeOK, Logins
    <3>3. ConnSlotInv'
      BY <3>1, <3>2 DEF TypeOK, ConnSlotInv, TasksKept
    <3> QED BY <2>1, <2>2, <3>3
  <2> QED BY <2>3, <2>4
<1>4. CASE SetConnecting(t) \/ ReadPid(t) \/ PsSilent(t) \/ Kill(t) \/ ClearPid(t)
  BY <1>4, FlowFrame, AuthSlotFrame, ConnSlotFrame
     DEF SetConnecting, ReadPid, PsSilent, Kill, ClearPid
<1>5. CASE ConnectRead(t) \/ TryDisconnect(t) \/ SetDisconnected(t) \/ KillUnspawned(t)
  BY <1>5, FlowFrame, AuthSlotFrame, ConnSlotFrame
     DEF ConnectRead, TryDisconnect, SetDisconnected, KillUnspawned
<1> QED BY <1>1, <1>2, <1>3, <1>4, <1>5 DEF ManagerStep

\* A step of a run_ovpn task keeps both: only an answer changes the pwd.
LEMMA AuthStepFlow ==
  ASSUME TypeOK, FlowInv, SlotInv, NEW i \in Challenges, AuthStep(i) \/ AuthAnswer(i)
  PROVE  FlowInv' /\ SlotInv'
<1> USE DEF SlotInv, slotVars, authVars, postVars, consumerVars, connVars
<1>1. /\ pc' = pc
      /\ \A k \in Challenges : /\ auth[k] \in {"done", "portal"} => auth'[k] = auth[k]
                               /\ auth[k] # "none" => auth'[k] # "none"
      /\ UNCHANGED <<authSlot, connSlot, authAborted, connAborted,
                     post, samlPwd, chan, cpc, cur>>
  BY DEF AuthStep, AuthAnswer, AuthLock, AuthCancel, AuthDone, AuthPanic, TypeOK
<1>2. TasksKept  BY <1>1 DEF TasksKept, TaskLive
<1>3. SlotInv'   BY <1>1, <1>2, AuthSlotFrame, ConnSlotFrame
<1>4. CASE AuthDone(i)
  BY <1>1, <1>3, <1>4 DEF AuthDone, TypeOK, FlowInv, Obtained, LoginsDeliveredOnce
<1>5. CASE pwd' = pwd
  BY <1>1, <1>2, <1>3, <1>5, FlowFrame
<1> QED BY <1>4, <1>5 DEF AuthStep, AuthAnswer, AuthLock, AuthCancel, AuthPanic

\* A step of a handler keeps both.
LEMMA PostStepFlow ==
  ASSUME TypeOK, FlowInv, SlotInv, NEW j \in Logins,
         PostArrives(j) \/ PostGone(j) \/ PostStep(j)
  PROVE  FlowInv' /\ SlotInv'
<1> USE DEF SlotInv, slotVars, authVars, postVars, consumerVars, connVars
<1>1. /\ pc' = pc /\ auth' = auth /\ pwd' = pwd
      /\ UNCHANGED <<authSlot, connSlot, authAborted, connAborted, cpc, cur>>
  BY DEF PostArrives, PostGone, PostStep, PostLock, PostSend
<1>2. TasksKept  BY <1>1 DEF TasksKept, TaskLive
<1>3. SlotInv'   BY <1>1, <1>2, AuthSlotFrame, ConnSlotFrame
<1>4. CASE PostArrives(j) \/ PostGone(j)
  BY <1>1, <1>3, <1>4 DEF PostArrives, PostGone, TypeOK, FlowInv, Obtained, LoginsDeliveredOnce
<1>5. CASE PostLock(j)
  <2> PICK f \in Forms :
         IF f = "missing" \/ pwd = 0
         THEN /\ post' = [post EXCEPT ![j] = "panicked"]
              /\ UNCHANGED <<short, samlPwd>>
         ELSE /\ post' = [post EXCEPT ![j] = "sending"]
              /\ samlPwd' = [samlPwd EXCEPT ![j] = pwd]
              /\ short' = IF f = "short" THEN short \cup {j} ELSE short
    BY <1>5 DEF PostLock
  <2>1. post[j] = "waiting" /\ chan' = chan  BY <1>5 DEF PostLock
  <2> QED BY <1>1, <1>3, <2>1 DEF TypeOK, FlowInv, Obtained, LoginsDeliveredOnce
<1>6. CASE PostSend(j)
  <2>0. 0 \notin Logins /\ samlPwd' = samlPwd /\ post[j] = "sending"
    BY <1>6 DEF PostSend, Logins
  <2>1. CASE cpc = "dead"
    BY <1>1, <1>3, <1>6, <2>0, <2>1 DEF PostSend, TypeOK, FlowInv, Obtained, LoginsDeliveredOnce
  <2>2. CASE cpc # "dead"
    <3>1. chan = 0 /\ chan' = j /\ post' = [post EXCEPT ![j] = "done"]
      BY <1>6, <2>2 DEF PostSend
    <3>2. LoginsDeliveredOnce'
      BY <1>1, <2>0, <3>1 DEF TypeOK, FlowInv, Obtained, LoginsDeliveredOnce
    <3> QED BY <1>1, <1>3, <2>0, <3>1, <3>2 DEF TypeOK, FlowInv, Obtained
  <2> QED BY <2>1, <2>2
<1> QED BY <1>4, <1>5, <1>6 DEF PostStep

\* A step of a connection task, or of its OpenVPN process, keeps both.
LEMMA ConnStepFlow ==
  ASSUME TypeOK, FlowInv, SlotInv, NEW j \in Logins, ConnStep(j) \/ ProcStep(j)
  PROVE  FlowInv' /\ SlotInv'
<1> USE DEF SlotInv, slotVars, authVars, postVars, consumerVars, connVars
<1> j \in Threads  BY DEF Threads
<1>1. /\ auth' = auth /\ pwd' = pwd
      /\ UNCHANGED <<authSlot, connSlot, authAborted, connAborted,
                     post, samlPwd, chan, cpc, cur>>
  BY DEF ConnStep, ConnStart, ConnRecord, ConnCancel, ConnEof, ConnLockManager, ConnReturn,
         ProcStep, ProcAuthorised, ProcExits
<1>2. TasksKept
  <2>1. ASSUME NEW p, p # "none", p \in {"started", "reading", "lockTry"} => TaskLive(j),
               pc[j] # "none", p # "spawned", pc' = [pc EXCEPT ![j] = p]
        PROVE  TasksKept
    BY <2>1 DEF TypeOK, TasksKept, TaskLive
  <2>2. CASE ConnStart(j)        BY <2>1, <2>2 DEF ConnStart, Goto, TaskLive
  <2>3. CASE ConnRecord(j)       BY <2>1, <2>3 DEF ConnRecord, Goto, TaskLive
  <2>4. CASE ConnCancel(j)       BY <2>1, <2>4 DEF ConnCancel
  <2>5. CASE ConnEof(j)          BY <2>1, <2>5 DEF ConnEof, Goto, TaskLive
  <2>6. CASE ConnLockManager(j)  BY <2>1, <2>6 DEF ConnLockManager, Goto, TaskLive
  <2>7. CASE ConnReturn(j)       BY <2>1, <2>7 DEF ConnReturn, Goto
  <2>8. CASE ProcStep(j)
    BY <2>8 DEF ProcStep, ProcAuthorised, ProcExits, TasksKept, TaskLive
  <2> QED BY <2>2, <2>3, <2>4, <2>5, <2>6, <2>7, <2>8 DEF ConnStep
<1> QED BY <1>1, <1>2, FlowFrame, AuthSlotFrame, ConnSlotFrame

\* A step of the consumer keeps both.
LEMMA ConsumerStepFlow ==
  ASSUME TypeOK, FlowInv, SlotInv, ConsumerStep
  PROVE  FlowInv' /\ SlotInv'
<1> USE DEF SlotInv, slotVars, authVars, postVars, connVars
<1>1. /\ auth' = auth /\ pwd' = pwd
      /\ UNCHANGED <<authSlot, authAborted, connAborted, post, samlPwd>>
  BY DEF ConsumerStep, ConsumerRecv, ConsumerLaunch, ConsumerStore, ConsumerAnnounce
<1>2. AuthSlotInv'  BY <1>1, AuthSlotFrame
<1>3. CASE ConsumerRecv
  <2>0. 0 \notin Logins  BY DEF Logins
  <2>1. FlowInv'
    <3>1. /\ cpc = "recv" /\ chan \in Logins /\ cur' = chan /\ chan' = 0 /\ pc' = pc
          /\ cpc' \in {"launch", "dead"}
      BY <1>3 DEF ConsumerRecv, TypeOK
    <3>2. LoginsDeliveredOnce'
      BY <1>1, <2>0, <3>1 DEF FlowInv, Obtained, LoginsDeliveredOnce
    <3> QED BY <1>1, <3>2 DEF FlowInv, Obtained
  <2>2. ConnSlotInv'
    BY <1>3 DEF ConsumerRecv, TypeOK, ConnSlotInv, TaskLive
  <2> QED BY <1>2, <2>1, <2>2
<1>4. CASE ConsumerLaunch
  <2>1. cur \in Logins /\ cur # 0 /\ cpc = "launch"
    BY <1>4 DEF ConsumerLaunch, TypeOK, Logins
  <2>2. CASE addresses = "some"
    <3>1. /\ pc' = [pc EXCEPT ![cur] = "spawned"] /\ pc[cur] = "none"
          /\ cpc' = "store" /\ cur' = cur /\ chan' = chan /\ connSlot' = connSlot
      BY <1>4, <2>2 DEF ConsumerLaunch, Goto
    <3>2. cur \in Threads  BY <2>1 DEF Threads
    <3>3. FlowInv'
      BY <1>1, <2>1, <3>1, <3>2 DEF TypeOK, FlowInv, Obtained, LoginsDeliveredOnce
    <3>4. ConnSlotInv'
      BY <1>1, <2>1, <3>1, <3>2 DEF TypeOK, ConnSlotInv, TaskLive
    <3> QED BY <1>2, <3>3, <3>4
  <2>3. CASE addresses # "some"
    <3>1. pc' = pc /\ cpc' = "dead" /\ cur' = cur /\ chan' = chan /\ connSlot' = connSlot
      BY <1>4, <2>3 DEF ConsumerLaunch
    <3>2. FlowInv'
      BY <1>1, <2>1, <3>1 DEF TypeOK, FlowInv, Obtained, LoginsDeliveredOnce
    <3>3. ConnSlotInv'
      BY <1>1, <2>1, <3>1 DEF TypeOK, ConnSlotInv, TaskLive
    <3> QED BY <1>2, <3>2, <3>3
  <2> QED BY <2>2, <2>3
<1>5. CASE ConsumerStore
  <2>1. FlowInv'
    BY <1>5 DEF ConsumerStore, TypeOK, FlowInv, Obtained, LoginsDeliveredOnce
  <2>2. ConnSlotInv'
    <3>1. cur \in Logins /\ cur # 0 /\ pc[cur] # "none" /\ cur \notin connAborted
      BY <1>5 DEF ConsumerStore, TypeOK, ConnSlotInv, Logins
    <3> QED BY <1>5, <3>1 DEF ConsumerStore, TypeOK, ConnSlotInv, TaskLive
  <2> QED BY <1>2, <2>1, <2>2
<1>6. CASE ConsumerAnnounce
  <2>1. FlowInv'
    BY <1>6 DEF ConsumerAnnounce, TypeOK, FlowInv, Obtained, LoginsDeliveredOnce
  <2>2. ConnSlotInv'
    BY <1>6 DEF ConsumerAnnounce, TypeOK, ConnSlotInv, TaskLive
  <2> QED BY <1>2, <2>1, <2>2
<1> QED BY <1>3, <1>4, <1>5, <1>6 DEF ConsumerStep

\* Every step of the session keeps both.
LEMMA SessionNextFlow ==
  ASSUME TypeOK, FlowInv, SlotInv, SessionNext
  PROVE  FlowInv' /\ SlotInv'
BY ManagerStepFlow, AuthStepFlow, PostStepFlow, ConnStepFlow, ConsumerStepFlow
   DEF SessionNext

\* A front end that only moves its own callers keeps both.
LEMMA CallersFlow ==
  ASSUME TypeOK, FlowInv, SlotInv, \A j \in Logins : pc'[j] = pc[j],
         UNCHANGED <<slotVars, authVars, postVars, consumerVars, connVars>>
  PROVE  FlowInv' /\ SlotInv'
<1> USE DEF SlotInv, slotVars, authVars, postVars, consumerVars, connVars
<1>1. TasksKept  BY DEF TasksKept, TaskLive
<1> QED BY <1>1, FlowFrame, AuthSlotFrame, ConnSlotFrame

-----------------------------------------------------------------------------
(* The inductive invariant of the session, for the front ends.            *)

SessionInv == TypeOK /\ ManagerExclusion /\ CleanInv /\ FlowInv /\ SlotInv

\* It holds initially.
LEMMA SessionInitInv == ASSUME SessionInit PROVE SessionInv
BY SessionInitType, SessionInitExclusion, SessionInitClean, SessionInitFlow DEF SessionInv

\* Every step of the session keeps it.
LEMMA SessionNextInv == ASSUME SessionInv, SessionNext PROVE SessionInv'
BY SessionNextType, SessionNextExclusion, SessionNextClean, SessionNextFlow DEF SessionInv

\* What the front ends do before a call keeps it.
LEMMA CallerInv ==
  ASSUME SessionInv, NEW c \in Callers, Resolve(c) \/ LockManager(c)
  PROVE  SessionInv'
<1>1. \A j \in Logins : pc'[j] = pc[j]
  BY SessionAssumption DEF Resolve, LockManager, Goto, SessionInv, TypeOK, Threads
<1>2. UNCHANGED <<slotVars, authVars, postVars, consumerVars, connVars>>
  BY DEF Resolve, LockManager
<1> QED BY <1>1, <1>2, CallerType, CallerExclusion, CallerClean, CallersFlow DEF SessionInv

\* A caller that moves outside of the ConnectionManager keeps it.
LEMMA CallerOutside ==
  ASSUME SessionInv, NEW c \in Callers, pc[c] \notin ManagerPCs,
         NEW p \in PCs, p \notin ManagerPCs, pc' = [pc EXCEPT ![c] = p],
         appRoot' \in BOOLEAN, up' = up, addresses' = addresses, poisoned' = poisoned,
         UNCHANGED <<state, mgr, appLock, slotVars, authVars, postVars, consumerVars, connVars>>
  PROVE  SessionInv'
<1> USE DEF SessionInv, slotVars, authVars, postVars, consumerVars, connVars
<1> c \in Threads  BY DEF Threads
<1>1. \A j \in Logins : pc'[j] = pc[j]
  BY SessionAssumption DEF TypeOK, Threads
<1>2. TypeOK'  BY DEF TypeOK
<1>3. ManagerExclusion'  BY MoveOutside
<1>4. CleanInv'  BY CleanOutside
<1> QED BY <1>1, <1>2, <1>3, <1>4, CallersFlow

\* A caller that leaves the ConnectionManager from "returned" or from "wait"
\* and unlocks it keeps it.
LEMMA CallerUnlocks ==
  ASSUME SessionInv, NEW c \in Callers, pc[c] \in {"returned", "wait"},
         NEW p \in PCs, p \notin ManagerPCs, pc' = [pc EXCEPT ![c] = p],
         mgr' = NoThread, appRoot' \in BOOLEAN,
         up' = up, addresses' = addresses, poisoned' = poisoned,
         UNCHANGED <<state, appLock, slotVars, authVars, postVars, consumerVars, connVars>>
  PROVE  SessionInv'
<1> USE DEF SessionInv, slotVars, authVars, postVars, consumerVars, connVars
<1> c \in Threads  BY DEF Threads
<1>1. \A j \in Logins : pc'[j] = pc[j]
  BY SessionAssumption DEF TypeOK, Threads
<1>2. TypeOK'  BY DEF TypeOK
<1>3. /\ pc[c] \in ManagerPCs
      /\ pc[c] \notin AppLockPCs
      /\ pc[c] \notin {"dropAuth", "dropConn"}
  BY DEF ManagerPCs, AppLockPCs
<1>4. ManagerExclusion'  BY <1>3, AppLockInside, MoveOut
<1>5. CleanInv'
  <2>1. mgr = c  BY <1>3 DEF ManagerExclusion
  <2> QED BY <1>3, <2>1 DEF CleanInv, Inside
<1> QED BY <1>1, <1>2, <1>4, <1>5, CallersFlow

\* A caller that stays in the ConnectionManager's lock after a call keeps it.
LEMMA CallerStays ==
  ASSUME SessionInv, NEW c \in Callers, pc[c] \in {"returned", "wait"},
         NEW p \in {"wait", "hold"}, pc' = [pc EXCEPT ![c] = p],
         up' = up, appRoot' = appRoot, addresses' = addresses, poisoned' = poisoned,
         UNCHANGED <<state, mgr, appLock, slotVars, authVars, postVars, consumerVars, connVars>>
  PROVE  SessionInv'
<1> USE DEF SessionInv, slotVars, authVars, postVars, consumerVars, connVars
<1> c \in Threads  BY DEF Threads
<1>1. \A j \in Logins : pc'[j] = pc[j]
  BY SessionAssumption DEF TypeOK, Threads
<1>2. TypeOK'  BY PCsMembers DEF TypeOK
<1>3. /\ pc[c] \in ManagerPCs /\ p \in ManagerPCs
      /\ pc[c] \notin AppLockPCs /\ p \notin AppLockPCs
  BY DEF ManagerPCs, AppLockPCs
<1>4. ManagerExclusion'  BY <1>3, AppLockInside, MoveInside
<1>5. CleanInv'
  <2>1. mgr = c /\ pc'[c] = p  BY <1>3 DEF ManagerExclusion, TypeOK
  <2> QED BY <2>1 DEF CleanInv, Inside
<1> QED BY <1>1, <1>2, <1>4, <1>5, CallersFlow

\* It does not depend on whether the process still runs.
LEMMA ProcessEnds ==
  ASSUME SessionInv, up' \in BOOLEAN, appRoot' = appRoot, addresses' = addresses,
         poisoned' = poisoned, pc' = pc,
         UNCHANGED <<state, mgr, appLock, slotVars, authVars, postVars, consumerVars, connVars>>
  PROVE  SessionInv'
<1> USE DEF SessionInv, slotVars, authVars, postVars, consumerVars, connVars
<1>1. TypeOK'  BY DEF TypeOK
<1>2. ManagerExclusion'  BY DEF ManagerExclusion
<1>3. CleanInv'  BY CleanFrame
<1> QED BY <1>1, <1>2, <1>3, CallersFlow

-----------------------------------------------------------------------------
(* The library front end.                                                 *)

FfiInv == SessionInv /\ FfiTypeOK

\* FfiInv holds initially.
LEMMA FfiInitInv == ASSUME FfiInit PROVE FfiInv
<1>1. SessionInv  BY SessionInitInv DEF FfiInit
<1>2. \A c \in Callers : pc[c] = "idle"  BY DEF FfiInit, SessionInit, Threads
<1> QED BY <1>1, <1>2, SessionAssumption DEF FfiInit, FfiInv, FfiTypeOK, SessionInv

\* A step inside the session moves no caller to or from "idle".
LEMMA SessionKeepsIdle ==
  ASSUME TypeOK, SessionNext, NEW c \in Callers
  PROVE  pc'[c] = "idle" <=> pc[c] = "idle"
<1> c \in Threads  BY DEF Threads
<1>0. ASSUME NEW u \in Threads, NEW p, pc' = [pc EXCEPT ![u] = p],
             pc[u] # "idle", p # "idle"
      PROVE  pc'[c] = "idle" <=> pc[c] = "idle"
  BY <1>0 DEF TypeOK
<1>1. CASE \E t \in Threads : ManagerStep(t)
  <2> PICK t \in Threads : ManagerStep(t)  BY <1>1
  <2>1. ASSUME NEW locks, Panics(t, locks), pc[t] # "idle"
        PROVE  pc'[c] = "idle" <=> pc[c] = "idle"
    BY <1>0, <2>1 DEF Panics
  <2>2. CASE SetConnecting(t) \/ ConnectSpawn(t) \/ DropConn(t) \/ ReadPid(t)
    BY <1>0, <2>2 DEF SetConnecting, ConnectSpawn, DropConn, ReadPid, Goto
  <2>3. CASE PsSilent(t) \/ Kill(t) \/ ClearPid(t)
    BY <1>0, <2>3 DEF PsSilent, Kill, ClearPid, Goto
  <2>4. CASE ConnectRead(t) \/ TryDisconnect(t)
    BY <1>0, <2>1, <2>4 DEF ConnectRead, TryDisconnect, Goto
  <2>5. CASE SetDisconnected(t) \/ DropAuth(t) \/ KillUnspawned(t)
    BY <1>0, <2>1, <2>5 DEF SetDisconnected, DropAuth, KillUnspawned, Goto
  <2> QED BY <2>2, <2>3, <2>4, <2>5 DEF ManagerStep
<1>2. CASE \E j \in Logins : ConnStep(j)
  <2> PICK j \in Logins : ConnStep(j)  BY <1>2
  <2> j \in Threads  BY DEF Threads
  <2> QED BY <1>0 DEF ConnStep, ConnStart, ConnRecord, ConnCancel, ConnEof, ConnLockManager,
                      ConnReturn, Goto
<1>3. CASE ConsumerStep
  <2>1. CASE ConsumerLaunch
    <3>1. cur \in Threads  BY <2>1 DEF ConsumerLaunch, TypeOK, Threads
    <3> QED BY <1>0, <2>1, <3>1 DEF ConsumerLaunch, Goto
  <2> QED BY <1>3, <2>1 DEF ConsumerStep, ConsumerRecv, ConsumerStore, ConsumerAnnounce
<1>4. CASE \E i \in Challenges : AuthStep(i) \/ AuthAnswer(i)
  BY <1>4 DEF AuthStep, AuthAnswer, AuthLock, AuthCancel, AuthDone, AuthPanic
<1>5. CASE \E j \in Logins : PostArrives(j) \/ PostGone(j) \/ PostStep(j) \/ ProcStep(j)
  BY <1>5 DEF PostArrives, PostGone, PostStep, PostLock, PostSend,
              ProcStep, ProcAuthorised, ProcExits
<1> QED BY <1>1, <1>2, <1>3, <1>4, <1>5 DEF SessionNext

\* Every step keeps FfiInv.
LEMMA FfiNextInv == ASSUME FfiInv, [FfiNext]_ffiVars PROVE FfiInv'
<1> USE DEF FfiInv, Goto, processVars, slotVars, authVars, postVars, consumerVars, connVars
<1>0. /\ \A p \in ManagerPCs : p \notin {"idle", "resolve", "lockDisconnect", "lockForce",
                                         "lockConnect", "leaving"}
      /\ "returned" \in ManagerPCs
  BY DEF ManagerPCs, ConnectPCs, DisconnectPCs
<1>1. CASE SessionNext /\ UNCHANGED <<calls, op>>
  <2>1. SessionInv'  BY <1>1, SessionNextInv
  <2> QED BY <1>1, <2>1, SessionKeepsIdle DEF SessionInv, FfiTypeOK
<1>2. ASSUME NEW c \in Callers,
             openaws_connect(c) \/ openaws_disconnect(c) \/ openaws_cleanup(c)
      PROVE  FfiInv'
  <2> PICK name \in {"connect", "disconnect", "cleanup"},
           target \in {"resolve", "lockDisconnect", "lockForce"} : BeginCall(c, name, target)
    BY <1>2 DEF openaws_connect, openaws_disconnect, openaws_cleanup
  <2> c \in Threads  BY DEF Threads
  <2>1. SessionInv'
    BY <1>0, PCsMembers, CallerOutside DEF BeginCall, SessionInv, TypeOK
  <2>2. /\ calls' \in 0 .. MaxCalls
        /\ op' = [op EXCEPT ![c] = name] /\ pc' = [pc EXCEPT ![c] = target]
    BY SessionAssumption DEF BeginCall, FfiTypeOK
  <2> QED BY <2>1, <2>2 DEF FfiTypeOK, SessionInv, TypeOK
<1>3. ASSUME NEW c \in Callers, Resolve(c) \/ LockManager(c), UNCHANGED <<calls, op>>
      PROVE  FfiInv'
  <2> c \in Threads  BY DEF Threads
  <2>1. SessionInv'  BY <1>3, CallerInv
  <2>2. \A d \in Callers : pc'[d] = "idle" <=> pc[d] = "idle"
    BY <1>3 DEF Resolve, LockManager, LockedPC, SessionInv, TypeOK, Threads
  <2> QED BY <1>3, <2>1, <2>2 DEF FfiTypeOK, SessionInv
<1>4. ASSUME NEW c \in Callers, ApiUnlock(c) PROVE FfiInv'
  <2> c \in Threads  BY DEF Threads
  <2>1. appRoot' \in BOOLEAN  BY <1>4 DEF ApiUnlock
  <2>2. SessionInv'
    BY <1>0, <1>4, <2>1, PCsMembers, CallerUnlocks DEF ApiUnlock
  <2>3. \A d \in Callers : pc'[d] = "idle" <=> pc[d] = "idle"
    BY <1>4 DEF ApiUnlock, SessionInv, TypeOK, Threads
  <2> QED BY <1>4, <2>2, <2>3 DEF ApiUnlock, FfiTypeOK, SessionInv
<1>5. ASSUME NEW c \in Callers, ApiReturn(c) PROVE FfiInv'
  <2> c \in Threads  BY DEF Threads
  <2>1. SessionInv'
    BY <1>0, <1>5, PCsMembers, CallerOutside DEF ApiReturn, SessionInv, TypeOK
  <2>2. op' = [op EXCEPT ![c] = "none"] /\ pc' = [pc EXCEPT ![c] = "idle"] /\ calls' = calls
    BY <1>5 DEF ApiReturn
  <2> QED BY <2>1, <2>2 DEF FfiTypeOK, SessionInv, TypeOK
<1>6. CASE UNCHANGED ffiVars
  BY <1>6 DEF ffiVars, vars, FfiTypeOK, SessionInv, TypeOK, ManagerExclusion, CleanInv, Inside,
              FlowInv, Obtained, LoginsDeliveredOnce, SlotInv, AuthSlotInv, ConnSlotInv, TaskLive
<1> QED BY <1>1, <1>2, <1>3, <1>4, <1>5, <1>6 DEF FfiNext, CallerStep

\* FfiInv is an invariant of the library.
LEMMA FfiInvariant == FfiSpec => []FfiInv
BY FfiInitInv, FfiNextInv, PTL DEF FfiSpec

-----------------------------------------------------------------------------

\* Every reachable state of the library is well typed.
THEOREM FfiTypeCorrect == FfiSpec => []FfiTypeOK
<1>1. FfiInv => FfiTypeOK  BY DEF FfiInv
<1> QED BY <1>1, FfiInvariant, PTL

\* Foreign threads and connection tasks never share the inside of the
\* ConnectionManager: the unsafe Send and Sync of manager.rs are upheld by the
\* connection_manager lock.
THEOREM FfiExclusion == FfiSpec => []ManagerExclusion
<1>1. FfiInv => ManagerExclusion  BY DEF FfiInv, SessionInv
<1> QED BY <1>1, FfiInvariant, PTL

\* Whatever the callers, the consumer and the tasks do, an unlocked manager
\* and the state Disconnected mean that no task is left in a slot.
THEOREM FfiDisconnectedIsClean == FfiSpec => []DisconnectedIsClean
<1>1. FfiInv => DisconnectedIsClean  BY CleanInvImplies DEF FfiInv, SessionInv
<1> QED BY <1>1, FfiInvariant, PTL

\* Connections are launched only with a pwd that a run_ovpn has obtained: of a
\* challenge, or the portal's constant after a plain AUTH_FAILED.
THEOREM FfiOnlyObtainedPwds == FfiSpec => []OnlyObtainedPwds
<1>1. FfiInv => OnlyObtainedPwds  BY FlowInvImplies DEF FfiInv, SessionInv
<1> QED BY <1>1, FfiInvariant, PTL

\* An accepted login is neither lost nor delivered twice.
THEOREM FfiLoginsDeliveredOnce == FfiSpec => []LoginsDeliveredOnce
<1>1. FfiInv => LoginsDeliveredOnce  BY FlowInvImplies DEF FfiInv, SessionInv
<1> QED BY <1>1, FfiInvariant, PTL

\* No task is aborted, and no pid killed, by two disconnects.
THEOREM FfiAbortedOnce == FfiSpec => []AbortedOnce
<1>1. FfiInv => AbortedOnce  BY SlotInvImplies DEF FfiInv, SessionInv
<1> QED BY <1>1, FfiInvariant, PTL

\* A disconnect finds the task of a session that is the only one.
THEOREM FfiLoneSessionReachable == FfiSpec => []LoneSessionReachable
<1>1. FfiInv => LoneSessionReachable  BY SlotInvImplies DEF FfiInv, SessionInv
<1> QED BY <1>1, FfiInvariant, PTL

-----------------------------------------------------------------------------
(* Connecting has a task.                                                 *)

\* The thread is a caller in openaws_cleanup, whose force_disconnect empties
\* the slots and leaves the state as it is.
Cleaning(t) == t \in Callers /\ op[t] = "cleanup"

\* ConnectingHasTask is not inductive: connect sets the state before it fills
\* the slot, and cleanup empties the slot before it removes the root.  So:
\* only callers connect; whoever empties slots under Connecting is cleaning;
\* and an empty slot under Connecting is the doing of the thread inside.
ConnectInv ==
  /\ \A j \in Logins : pc[j] \notin ConnectPCs
  /\ \A c \in Callers : pc[c] = "lockForce" => op[c] = "cleanup"
  /\ \A t \in Threads :
       pc[t] \in DisconnectPCs \ {"disconnect"} /\ state = "Connecting" => Cleaning(t)
  /\ state = "Connecting" /\ appRoot /\ authSlot = 0 /\ mgr = NoThread => FALSE
  /\ \A t \in Threads :
       state = "Connecting" /\ appRoot /\ authSlot = 0 /\ mgr = t =>
         \/ pc[t] \in {"connectRead", "connectSpawn", "connectFail"}
         \/ pc[t] \in (DisconnectPCs \ {"disconnect", "dropAuth"}) \cup {"returned"} /\ Cleaning(t)

\* ConnectInv holds initially.
LEMMA FfiInitConnect == ASSUME FfiInit PROVE ConnectInv
<1>1. \A t \in Threads : pc[t] \in {"idle", "none"}  BY DEF FfiInit, SessionInit
<1>2. state = "Disconnected"  BY DEF FfiInit, SessionInit
<1>3. \A p \in {"idle", "none"} : p \notin ConnectPCs /\ p # "lockForce"
  BY DEF ConnectPCs
<1> QED BY <1>1, <1>2, <1>3 DEF ConnectInv, Threads

\* A thread that moves outside of the manager, and not to the lock of
\* force_disconnect unless it cleans, keeps ConnectInv.
LEMMA ConnectOutside ==
  ASSUME FfiInv, ConnectInv, NEW u \in Threads, pc[u] \notin ManagerPCs,
         NEW p, p \notin ManagerPCs, pc' = [pc EXCEPT ![u] = p],
         p = "lockForce" => op'[u] = "cleanup",
         \A c \in Callers : c # u => op'[c] = op[c],
         UNCHANGED <<state, mgr, authSlot, appRoot>>
  PROVE  ConnectInv'
<1> USE DEF FfiInv, SessionInv
<1>1. mgr # u  BY DEF ManagerExclusion
<1>2. pc'[u] = p /\ \A t \in Threads : t # u => pc'[t] = pc[t]  BY DEF TypeOK
<1>3. p \notin ConnectPCs /\ p \notin DisconnectPCs  BY DEF ManagerPCs
<1> QED BY <1>1, <1>2, <1>3 DEF ConnectInv, Cleaning, Threads

\* A step that moves nobody and does not set Connecting keeps ConnectInv.
LEMMA ConnectFrame ==
  ASSUME ConnectInv, pc' = pc, op' = op, mgr' = mgr, authSlot' = authSlot, appRoot' = appRoot,
         state' = state \/ state' # "Connecting"
  PROVE  ConnectInv'
BY DEF ConnectInv, Cleaning

\* A panic in a task happens to a thread that is not connecting.
LEMMA ConnectPanics ==
  ASSUME FfiInv, ConnectInv, NEW t \in Threads, pc[t] \in ManagerPCs, NEW locks,
         Panics(t, locks), UNCHANGED <<state, authSlot, appRoot, op>>,
         ~appRoot \/ pc[t] \in ConnectPCs \/ pc[t] \in DisconnectPCs \ {"disconnect"}
  PROVE  ConnectInv'
<1> USE DEF FfiInv, SessionInv
<1>1. CASE t \in Callers
  BY <1>1, ConnectFrame DEF Panics
<1>2. CASE t \notin Callers
  <2>1. t \in Logins /\ ~Cleaning(t)  BY <1>2 DEF Threads, Cleaning
  <2>2. pc' = [pc EXCEPT ![t] = "panicked"] /\ mgr' = NoThread  BY <1>2 DEF Panics
  <2>3. /\ pc'[t] = "panicked"
        /\ \A u \in Threads : u # t => pc'[u] = pc[u]
    BY <2>2 DEF TypeOK
  <2>4. mgr = t  BY DEF ManagerExclusion
  <2>5. pc[t] \notin ConnectPCs  BY <2>1 DEF ConnectInv
  <2>6. ~appRoot \/ state # "Connecting"  BY <2>1, <2>5 DEF ConnectInv
  <2>7. "panicked" \notin ConnectPCs /\ "panicked" \notin DisconnectPCs
    BY DEF ConnectPCs, DisconnectPCs
  <2>8. \A u \in Threads : mgr' # u  BY <2>2, SessionAssumption
  <2> QED BY <2>3, <2>6, <2>7, <2>8 DEF ConnectInv, Cleaning, Threads
<1> QED BY <1>1, <1>2

\* A thread that moves inside of the manager keeps ConnectInv if it keeps the
\* parts that speak of the thread inside.
LEMMA ConnectInside ==
  ASSUME FfiInv, ConnectInv, NEW t \in Threads, pc[t] \in ManagerPCs,
         NEW p \in ManagerPCs, pc' = [pc EXCEPT ![t] = p], UNCHANGED <<mgr, op, appRoot>>,
         p \in ConnectPCs => pc[t] \in ConnectPCs,
         p \in DisconnectPCs \ {"disconnect"} /\ state' = "Connecting" => Cleaning(t),
         state' = "Connecting" /\ appRoot /\ authSlot' = 0 =>
           \/ p \in {"connectRead", "connectSpawn", "connectFail"}
           \/ p \in (DisconnectPCs \ {"disconnect", "dropAuth"}) \cup {"returned"} /\ Cleaning(t)
  PROVE  ConnectInv'
<1> USE DEF FfiInv, SessionInv
<1>1. mgr = t  BY DEF ManagerExclusion
<1>2. pc'[t] = p /\ \A u \in Threads : u # t => pc'[u] = pc[u]  BY DEF TypeOK
<1>3. \A u \in Threads : u # t => pc[u] \notin DisconnectPCs
  BY <1>1 DEF ManagerExclusion, ManagerPCs
<1>4. p # "lockForce"  BY DEF ManagerPCs, ConnectPCs, DisconnectPCs
<1>5. t # NoThread  BY SessionAssumption
<1> QED BY <1>1, <1>2, <1>3, <1>4, <1>5 DEF ConnectInv, Cleaning, Threads

\* A step inside the ConnectionManager keeps ConnectInv.
LEMMA ManagerStepConnect ==
  ASSUME FfiInv, ConnectInv, NEW t \in Threads, ManagerStep(t), op' = op
  PROVE  ConnectInv'
<1> USE DEF FfiInv, SessionInv, Goto, processVars, slotVars
<1>0. /\ {"connect", "connectRead", "connectSpawn", "connectFail"} = ConnectPCs
      /\ {"disconnect", "dropAuth", "dropConn", "readPid", "kill", "clear"} = DisconnectPCs
      /\ ConnectPCs \subseteq ManagerPCs /\ DisconnectPCs \subseteq ManagerPCs
      /\ "try" \in ManagerPCs /\ "returned" \in ManagerPCs
  BY DEF ManagerPCs, ConnectPCs, DisconnectPCs
<1>1. pc[t] \in ManagerPCs => mgr = t  BY DEF ManagerExclusion
<1>2. appRoot => AppLive  BY DEF AppLive
<1>3. CASE SetConnecting(t)
  BY <1>0, <1>3, ConnectInside DEF SetConnecting
<1>4. CASE ConnectRead(t)
  <2>1. CASE "addresses" \in poisoned
    BY <1>0, <1>4, <2>1, ConnectPanics DEF ConnectRead
  <2>2. CASE "addresses" \notin poisoned
    BY <1>0, <1>4, <2>2, ConnectInside DEF ConnectRead
  <2> QED BY <2>1, <2>2
<1>5. CASE ConnectSpawn(t)
  <2>1. authSlot' # 0  BY <1>5 DEF ConnectSpawn, Challenges
  <2> QED BY <1>0, <1>5, <2>1, ConnectInside DEF ConnectSpawn
<1>6. CASE TryDisconnect(t)
  <2>1. CASE ~AppLive
    BY <1>0, <1>2, <1>6, <2>1, ConnectPanics DEF TryDisconnect
  <2>2. CASE AppLive
    <3>1. state = "Connecting" /\ appRoot => authSlot # 0
      BY <1>0, <1>1, <1>6 DEF TryDisconnect, ConnectInv
    <3> QED BY <1>0, <1>6, <2>2, <3>1, ConnectInside DEF TryDisconnect
  <2> QED BY <2>1, <2>2
<1>7. CASE SetDisconnected(t)
  <2>1. CASE ~AppLive
    BY <1>0, <1>2, <1>7, <2>1, ConnectPanics DEF SetDisconnected
  <2>2. CASE AppLive
    BY <1>0, <1>7, <2>2, ConnectInside DEF SetDisconnected
  <2> QED BY <2>1, <2>2
<1>8. CASE DropAuth(t)
  <2>1. CASE ~AppLive
    BY <1>0, <1>2, <1>8, <2>1, ConnectPanics DEF DropAuth
  <2>2. CASE AppLive
    <3>1. state = "Connecting" => Cleaning(t)
      BY <1>0, <1>8 DEF DropAuth, ConnectInv
    <3> QED BY <1>0, <1>8, <2>2, <3>1, ConnectInside DEF DropAuth
  <2> QED BY <2>1, <2>2
<1>9. CASE DropConn(t) \/ ReadPid(t) \/ PsSilent(t) \/ Kill(t) \/ ClearPid(t)
  <2>1. pc[t] \in {"dropConn", "readPid", "kill", "clear"}
    BY <1>9 DEF DropConn, ReadPid, PsSilent, Kill, ClearPid
  <2>2. state = "Connecting" => Cleaning(t)
    BY <1>0, <2>1 DEF ConnectInv
  <2> PICK p \in {"readPid", "kill", "clear", "returned"} :
         pc' = [pc EXCEPT ![t] = p] /\ UNCHANGED <<mgr, appRoot, state, authSlot>>
    BY <1>9 DEF DropConn, ReadPid, PsSilent, Kill, ClearPid
  <2> QED BY <1>0, <2>1, <2>2, ConnectInside
<1>10. CASE KillUnspawned(t)
  BY <1>0, <1>10, ConnectPanics DEF KillUnspawned
<1> QED BY <1>3, <1>4, <1>5, <1>6, <1>7, <1>8, <1>9, <1>10 DEF ManagerStep

\* Every step of the session keeps ConnectInv.
LEMMA SessionNextConnect ==
  ASSUME FfiInv, ConnectInv, SessionNext, op' = op
  PROVE  ConnectInv'
<1> USE DEF FfiInv, SessionInv, Goto, processVars, slotVars
<1>0. /\ \A p \in ManagerPCs : p \notin {"none", "spawned", "started", "reading", "lockTry",
                                         "done", "cancelled", "panicked"}
      /\ "try" \in ManagerPCs /\ "returned" \in ManagerPCs
      /\ "try" \notin ConnectPCs /\ "try" \notin DisconnectPCs
      /\ "done" \notin ConnectPCs /\ "done" \notin DisconnectPCs
  BY DEF ManagerPCs, ConnectPCs, DisconnectPCs
<1>1. CASE \E t \in Threads : ManagerStep(t)
  BY <1>1, ManagerStepConnect
<1>2. CASE \E j \in Logins : ConnStep(j)
  <2> PICK j \in Logins : ConnStep(j)  BY <1>2
  <2> j \in Threads /\ ~Cleaning(j)  BY SessionAssumption DEF Threads, Cleaning
  <2>1. CASE ConnStart(j) \/ ConnRecord(j) \/ ConnCancel(j) \/ ConnEof(j)
    BY <1>0, <2>1, ConnectOutside DEF ConnStart, ConnRecord, ConnCancel, ConnEof
  <2>2. CASE ConnLockManager(j)
    <3>1. CASE "manager" \in poisoned
      BY <1>0, <2>2, <3>1, ConnectOutside DEF ConnLockManager
    <3>2. CASE "manager" \notin poisoned
      <4>1. /\ mgr = NoThread /\ mgr' = j /\ UNCHANGED <<state, authSlot, appRoot>>
            /\ pc' = [pc EXCEPT ![j] = "try"]
        BY <2>2, <3>2 DEF ConnLockManager
      <4>2. pc'[j] = "try" /\ \A u \in Threads : u # j => pc'[u] = pc[u]
        BY <4>1 DEF TypeOK
      <4>3. ~(state = "Connecting" /\ appRoot /\ authSlot = 0)  BY <4>1 DEF ConnectInv
      <4> QED BY <1>0, <4>1, <4>2, <4>3 DEF ConnectInv, Cleaning, Threads
    <3> QED BY <3>1, <3>2
  <2>3. CASE ConnReturn(j)
    <3>1. /\ pc[j] = "returned" /\ mgr' = NoThread /\ UNCHANGED <<state, authSlot, appRoot>>
          /\ pc' = [pc EXCEPT ![j] = "done"]
      BY <2>3 DEF ConnReturn
    <3>2. pc'[j] = "done" /\ \A u \in Threads : u # j => pc'[u] = pc[u]
      BY <3>1 DEF TypeOK
    <3>3. mgr = j  BY <1>0, <3>1 DEF ManagerExclusion
    <3>4. ~(state = "Connecting" /\ appRoot /\ authSlot = 0)  BY <3>1, <3>3 DEF ConnectInv
    <3>5. \A u \in Threads : mgr' # u  BY <3>1, SessionAssumption
    <3> QED BY <1>0, <3>1, <3>2, <3>4, <3>5 DEF ConnectInv, Cleaning, Threads
  <2> QED BY <2>1, <2>2, <2>3 DEF ConnStep
<1>3. CASE ConsumerStep
  <2>1. CASE ConsumerLaunch
    <3>1. cur \in Threads  BY <2>1 DEF ConsumerLaunch, TypeOK, Threads
    <3> QED BY <1>0, <2>1, <3>1, ConnectOutside, ConnectFrame DEF ConsumerLaunch
  <2> QED BY <1>3, <2>1, ConnectFrame
          DEF ConsumerStep, ConsumerRecv, ConsumerStore, ConsumerAnnounce
<1>4. CASE \E i \in Challenges : AuthStep(i) \/ AuthAnswer(i)
  BY <1>4, ConnectFrame DEF AuthStep, AuthAnswer, AuthLock, AuthCancel, AuthDone, AuthPanic
<1>5. CASE \E j \in Logins : PostArrives(j) \/ PostGone(j) \/ PostStep(j) \/ ProcStep(j)
  BY <1>5, ConnectFrame DEF PostArrives, PostGone, PostStep, PostLock, PostSend,
                            ProcStep, ProcAuthorised, ProcExits
<1> QED BY <1>1, <1>2, <1>3, <1>4, <1>5 DEF SessionNext

\* Every step of the library keeps ConnectInv.
LEMMA FfiNextConnect ==
  ASSUME FfiInv, ConnectInv, [FfiNext]_ffiVars
  PROVE  ConnectInv'
<1> USE DEF FfiInv, SessionInv, Goto, processVars, slotVars
<1>0. /\ \A p \in ManagerPCs : p \notin {"idle", "resolve", "lockDisconnect", "lockForce",
                                         "lockConnect", "leaving"}
      /\ "returned" \in ManagerPCs
      /\ "leaving" \notin ConnectPCs /\ "leaving" \notin DisconnectPCs
      /\ "connect" \notin DisconnectPCs /\ "disconnect" \notin ConnectPCs
      /\ "dropAuth" \notin ConnectPCs
  BY DEF ManagerPCs, ConnectPCs, DisconnectPCs
<1>1. CASE SessionNext /\ UNCHANGED <<calls, op>>
  BY <1>1, SessionNextConnect
<1>2. ASSUME NEW c \in Callers,
             openaws_connect(c) \/ openaws_disconnect(c) \/ openaws_cleanup(c)
      PROVE  ConnectInv'
  <2> c \in Threads  BY DEF Threads
  <2> PICK name \in {"connect", "disconnect", "cleanup"},
           target \in {"resolve", "lockDisconnect", "lockForce"} :
         BeginCall(c, name, target) /\ (target = "lockForce" => name = "cleanup")
    BY <1>2 DEF openaws_connect, openaws_disconnect, openaws_cleanup
  <2>1. op'[c] = name /\ \A d \in Callers : d # c => op'[d] = op[d]
    BY DEF BeginCall, FfiTypeOK
  <2> QED BY <1>0, <2>1, ConnectOutside DEF BeginCall
<1>3. ASSUME NEW c \in Callers, Resolve(c), UNCHANGED <<calls, op>> PROVE ConnectInv'
  <2> c \in Threads  BY DEF Threads
  <2> QED BY <1>0, <1>3, ConnectOutside, ConnectFrame DEF Resolve
<1>4. ASSUME NEW c \in Callers, LockManager(c), UNCHANGED <<calls, op>> PROVE ConnectInv'
  <2> c \in Threads  BY DEF Threads
  <2>1. CASE "manager" \in poisoned
    BY <1>4, <2>1, ConnectFrame DEF LockManager
  <2>2. CASE "manager" \notin poisoned
    <3>1. /\ mgr = NoThread /\ mgr' = c /\ UNCHANGED <<state, authSlot, appRoot, op>>
          /\ pc' = [pc EXCEPT ![c] = LockedPC(pc[c])]
      BY <1>4, <2>2 DEF LockManager
    <3>2. pc'[c] = LockedPC(pc[c]) /\ \A u \in Threads : u # c => pc'[u] = pc[u]
      BY <3>1 DEF TypeOK
    <3>3. pc'[c] \in {"connect", "disconnect"} \/ (pc'[c] = "dropAuth" /\ Cleaning(c))
      BY <1>4, <3>2 DEF LockManager, LockedPC, ConnectInv, Cleaning
    <3>4. ~(state = "Connecting" /\ appRoot /\ authSlot = 0)  BY <3>1 DEF ConnectInv
    <3>5. c \notin Logins /\ mgr' # NoThread  BY <3>1, SessionAssumption
    <3> QED BY <1>0, <3>1, <3>2, <3>3, <3>4, <3>5 DEF ConnectInv, Cleaning, Threads
  <2> QED BY <2>1, <2>2
<1>5. ASSUME NEW c \in Callers, ApiUnlock(c) PROVE ConnectInv'
  <2> c \in Threads  BY DEF Threads
  <2>1. /\ pc[c] = "returned" /\ pc' = [pc EXCEPT ![c] = "leaving"] /\ mgr' = NoThread
        /\ UNCHANGED <<state, authSlot, op>>
    BY <1>5 DEF ApiUnlock
  <2>2. appRoot' => appRoot /\ ~Cleaning(c)  BY <1>5 DEF ApiUnlock, Cleaning
  <2>3. pc'[c] = "leaving" /\ \A u \in Threads : u # c => pc'[u] = pc[u]
    BY <2>1 DEF TypeOK
  <2>4. mgr = c  BY <1>0, <2>1 DEF ManagerExclusion
  <2>5. ~(state = "Connecting" /\ appRoot' /\ authSlot = 0)
    BY <2>1, <2>2, <2>4 DEF ConnectInv
  <2>6. \A u \in Threads : mgr' # u  BY <2>1, SessionAssumption
  <2> QED BY <1>0, <2>1, <2>3, <2>5, <2>6 DEF ConnectInv, Cleaning, Threads
<1>6. ASSUME NEW c \in Callers, ApiReturn(c) PROVE ConnectInv'
  <2> c \in Threads  BY DEF Threads
  <2>1. \A d \in Callers : d # c => op'[d] = op[d]  BY <1>6 DEF ApiReturn, FfiTypeOK
  <2> QED BY <1>0, <1>6, <2>1, ConnectOutside DEF ApiReturn
<1>7. CASE UNCHANGED ffiVars
  BY <1>7, ConnectFrame DEF ffiVars, vars
<1> QED BY <1>1, <1>2, <1>3, <1>4, <1>5, <1>6, <1>7 DEF FfiNext, CallerStep

\* However calls of connect, disconnect and cleanup interleave, a library that
\* says Connecting has a run_ovpn task that the next disconnect aborts.
THEOREM FfiConnectingHasTask == FfiSpec => []ConnectingHasTask
<1>1. FfiSpec => []ConnectInv
  BY FfiInitConnect, FfiNextConnect, FfiInvariant, PTL DEF FfiSpec
<1>2. ConnectInv => ConnectingHasTask  BY DEF ConnectInv, ConnectingHasTask
<1> QED BY <1>1, <1>2, PTL

=============================================================================
