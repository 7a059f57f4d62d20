------------------------------ MODULE Session ------------------------------
(***************************************************************************)
(* The session machinery of the client, without its front ends.            *)
(*                                                                         *)
(* What runs concurrently in the program and is a process here:            *)
(*   - the threads that call the ConnectionManager: the Callers (the       *)
(*     foreign threads of the C API, or the CLI's main thread) and the     *)
(*     tokio tasks that run connect_ovpn and call try_disconnect at the    *)
(*     end;                                                                *)
(*   - the tokio tasks that run run_ovpn (one per successful connect);     *)
(*   - the warp handlers of the SAML server (one per browser POST);        *)
(*   - the thread that receives SAML data and launches the connection;     *)
(*   - the privileged OpenVPN processes.                                   *)
(*                                                                         *)
(* A step is a stretch of code between two points where another process    *)
(* can interfere: a lock, an await, a blocking call.  A std or tokio guard *)
(* that lives across steps is a lock here, with its scope taken from the   *)
(* Rust drop order.                                                        *)
(*                                                                         *)
(* Login j stands for the j-th browser POST, for the SAML data it carries, *)
(* for the connection task launched with that data and for that task's     *)
(* OpenVPN process.  Challenge i is what the i-th run_ovpn obtains from    *)
(* OpenVPN: the URL it opens and the pwd it stores.  DirectPortal is the   *)
(* constant pwd it stores instead when OpenVPN reports a failure without   *)
(* a challenge.                                                            *)
(***************************************************************************)
EXTENDS Naturals

CONSTANTS
  Callers,      \* threads that call the ConnectionManager from outside
  NoThread,     \* "no holder" of a lock
  MaxCalls,     \* bound: calls of the ConnectionManager from outside
  MaxLogins,    \* bound: browser POSTs in a behaviour
  Forms,        \* what a POSTed form may be: "full", "short" or "missing"
  DnsResults    \* what a lookup may give: "some", "empty" or "panic"

Challenges == 1 .. MaxCalls
Logins     == 1 .. MaxLogins
DirectPortal == MaxCalls + 1
Pwds       == Challenges \cup {DirectPortal}
Threads    == Callers \cup Logins

ASSUME SessionAssumption ==
  /\ MaxCalls \in Nat /\ MaxLogins \in Nat
  /\ NoThread \notin Threads
  /\ Callers \cap Logins = {}
  /\ Forms \subseteq {"full", "short", "missing"}
  /\ DnsResults \subseteq {"some", "empty", "panic"}

VARIABLES
  up,           \* the client process runs
  appRoot,      \* the long-lived Rc<VpnApp> exists (APP_INSTANCE, or main's)
  addresses,    \* config.addresses: "none", "empty" or "some"
  poisoned,     \* std mutexes poisoned by a panic under them
  state,        \* StateManager.state
  mgr,          \* holder of VpnApp.connection_manager
  appLock,      \* holder of ConnectionManager.app across steps
  authSlot,     \* VpnApp.openvpn: the challenge whose task it holds, or 0
  connSlot,     \* VpnApp.openvpn_connection: the login whose task it holds, or 0
  victim,       \* the task disconnect took out of connSlot, or 0
  pc,           \* where each thread and connection task is
  auth,         \* where each run_ovpn task is
  authAborted,  \* run_ovpn tasks whose JoinHandle was aborted
  pwd,          \* config.pwd: the challenge it comes from, DirectPortal or 0
  post,         \* where each warp handler is
  short,        \* logins whose SAMLResponse is shorter than the logged prefix
  samlPwd,      \* Saml.pwd of each login
  chan,         \* the sync_channel(1): the login it holds, or 0
  cpc,          \* where the consumer thread is
  cur,          \* the login the consumer works on, or 0
  connAborted,  \* connection tasks whose JoinHandle was aborted
  recorded,     \* logins whose ProcessInfo.pid is Some
  proc,         \* the OpenVPN process of each login
  pidfile       \* last_ovpn_pid: the login whose pid it holds, or 0

processVars  == <<up, appRoot, addresses, poisoned>>
slotVars     == <<authSlot, connSlot, victim>>
authVars     == <<auth, authAborted, pwd>>
postVars     == <<post, short, samlPwd, chan>>
consumerVars == <<cpc, cur>>
connVars     == <<connAborted, recorded, proc, pidfile>>
vars == <<processVars, state, mgr, appLock, slotVars, pc,
          authVars, postVars, consumerVars, connVars>>

-----------------------------------------------------------------------------
(* Program points.                                                         *)

\* Inside a ConnectionManager method, or after it with the manager still locked.
ConnectPCs    == {"connect", "connectRead", "connectSpawn", "connectFail"}
DisconnectPCs == {"disconnect", "dropAuth", "dropConn", "readPid", "kill", "clear"}
ManagerPCs    == ConnectPCs \cup DisconnectPCs \cup {"try", "returned", "wait", "hold"}

\* Where the guard of ConnectionManager.app lives across steps.
AppLockPCs == {"connectFail", "dropConn", "readPid", "kill", "clear"}

CallerPCs == {"idle", "resolve", "lockConnect", "lockDisconnect", "lockForce",
              "leaving"}
TaskPCs   == {"none", "spawned", "started", "reading", "lockTry",
              "done", "cancelled", "panicked"}
PCs       == ManagerPCs \cup CallerPCs \cup TaskPCs

States == {"Disconnected", "Connecting", "Connected"}

\* The guard on config.pwd lives through run_ovpn, and through the handler's
\* blocking send.
PwdFree == /\ \A i \in Challenges : auth[i] # "running"
           /\ \A j \in Logins : post[j] # "sending"

\* The guard on openvpn_connection lives until the kill is over.
ConnLockFree == \A t \in Threads : pc[t] \notin {"readPid", "kill", "clear"}

\* Weak<VpnApp>::upgrade succeeds: the root, a call in progress or a
\* disconnect that has upgraded holds an Rc.
AppLive == \/ appRoot
           \/ \E c \in Callers : pc[c] # "idle"
           \/ \E t \in Threads : pc[t] \in {"dropConn", "readPid", "kill", "clear"}

\* The tokio runtime is shared by VpnApp and the consumer thread; when both
\* are gone it is dropped, and with it every task at its next await.
RuntimeLive == AppLive \/ cpc # "dead"

Goto(t, from, to) == pc[t] = from /\ pc' = [pc EXCEPT ![t] = to]

\* A panic leaves the C API, or main, and ends the process; in a task it is
\* caught by tokio, after the unwinding has poisoned the locks held.
Panics(t, locks) ==
  IF t \in Callers
  THEN up' = FALSE /\ UNCHANGED <<pc, mgr, appLock, poisoned>>
  ELSE /\ pc' = [pc EXCEPT ![t] = "panicked"]
       /\ mgr' = NoThread /\ appLock' = NoThread
       /\ poisoned' = poisoned \cup locks
       /\ UNCHANGED up

-----------------------------------------------------------------------------
(* VpnApp::new, Config::new, StateManager::new and start_server: nothing   *)
(* is configured, every slot is empty, the server and its consumer run.    *)

SessionInit ==
  /\ up = TRUE /\ appRoot = TRUE /\ addresses = "none" /\ poisoned = {}
  /\ state = "Disconnected"
  /\ mgr = NoThread /\ appLock = NoThread
  /\ authSlot = 0 /\ connSlot = 0 /\ victim = 0
  /\ pc = [t \in Threads |-> IF t \in Callers THEN "idle" ELSE "none"]
  /\ auth = [i \in Challenges |-> "none"] /\ authAborted = {} /\ pwd = 0
  /\ post = [j \in Logins |-> "none"] /\ short = {}
  /\ samlPwd = [j \in Logins |-> 0] /\ chan = 0
  /\ cpc = "recv" /\ cur = 0
  /\ connAborted = {} /\ recorded = {}
  /\ proc = [j \in Logins |-> "none"] /\ pidfile = 0

-----------------------------------------------------------------------------
(* What both front ends do before they call the ConnectionManager.         *)

\* save_config and resolve_addresses, outside every lock of the session.  The
\* unwraps of either one, and a poisoned addresses mutex, panic.
Resolve(c) ==
  /\ up
  /\ pc[c] = "resolve"
  /\ \E r \in DnsResults :
       IF r = "panic" \/ "addresses" \in poisoned
       THEN up' = FALSE /\ UNCHANGED <<addresses, pc>>
       ELSE /\ addresses' = r
            /\ Goto(c, "resolve", "lockConnect")
            /\ UNCHANGED up
  /\ UNCHANGED <<appRoot, poisoned, state, mgr, appLock, slotVars, authVars, postVars,
                 consumerVars, connVars>>

LockedPC(p) == CASE p = "lockConnect"    -> "connect"
                 [] p = "lockDisconnect" -> "disconnect"
                 [] OTHER                -> "dropAuth"

LockManager(c) ==
  /\ up
  /\ pc[c] \in {"lockConnect", "lockDisconnect", "lockForce"}
  /\ mgr = NoThread
  /\ IF "manager" \in poisoned
     THEN up' = FALSE /\ UNCHANGED <<pc, mgr>>
     ELSE /\ pc' = [pc EXCEPT ![c] = LockedPC(pc[c])]
          /\ mgr' = c
          /\ UNCHANGED up
  /\ UNCHANGED <<appRoot, addresses, poisoned, state, appLock, slotVars, authVars,
                 postVars, consumerVars, connVars>>

-----------------------------------------------------------------------------
(* ConnectionManager::connect.                                             *)

SetConnecting(t) ==
  /\ Goto(t, "connect", "connectRead")
  /\ appLock = NoThread
  /\ state' = "Connecting"
  /\ UNCHANGED <<processVars, mgr, appLock, slotVars,
                 authVars, postVars, consumerVars, connVars>>

\* Both error exits of connect log with the guard of self.app still alive.
ConnectRead(t) ==
  /\ pc[t] = "connectRead"
  /\ IF "addresses" \in poisoned
     THEN Panics(t, {"manager"})
     ELSE /\ IF addresses = "some"
             THEN Goto(t, "connectRead", "connectSpawn") /\ UNCHANGED appLock
             ELSE Goto(t, "connectRead", "connectFail") /\ appLock' = t
          /\ UNCHANGED up /\ UNCHANGED <<mgr, poisoned>>
  /\ UNCHANGED <<appRoot, addresses, state, slotVars,
                 authVars, postVars, consumerVars, connVars>>

\* Mutant: the JoinHandle is not stored.
ConnectSpawnUnstored(t) ==
  /\ Goto(t, "connectSpawn", "returned")
  /\ \E i \in Challenges :
       /\ auth[i] = "none"
       /\ auth' = [auth EXCEPT ![i] = "spawned"]
  /\ UNCHANGED <<processVars, state, mgr, appLock, slotVars, authAborted, pwd,
                 postVars, consumerVars, connVars>>

\* The task that was in the slot is dropped, hence detached, not aborted.
ConnectSpawn(t) ==
  /\ Goto(t, "connectSpawn", "returned")
  /\ \E i \in Challenges :
       /\ auth[i] = "none"
       /\ \A k \in Challenges : k < i => auth[k] # "none"
       /\ auth' = [auth EXCEPT ![i] = "spawned"]
       /\ authSlot' = i
  /\ UNCHANGED <<processVars, state, mgr, appLock, connSlot, victim, authAborted, pwd,
                 postVars, consumerVars, connVars>>

-----------------------------------------------------------------------------
(* ConnectionManager::disconnect, try_disconnect and force_disconnect (the *)
(* last one enters at DropAuth).                                           *)

TryDisconnect(t) ==
  /\ pc[t] = "try"
  /\ IF AppLive
     THEN /\ Goto(t, "try", IF state = "Disconnected" THEN "returned" ELSE "disconnect")
          /\ UNCHANGED up /\ UNCHANGED <<mgr, appLock, poisoned>>
     ELSE Panics(t, {"manager"})
  /\ UNCHANGED <<appRoot, addresses, state, slotVars,
                 authVars, postVars, consumerVars, connVars>>

\* Mutant: disconnect ends once the state says Disconnected.
SetDisconnectedOnly(t) ==
  /\ appLock = NoThread
  /\ Goto(t, "disconnect", "returned")
  /\ state' = "Disconnected"
  /\ UNCHANGED <<processVars, mgr, appLock, slotVars,
                 authVars, postVars, consumerVars, connVars>>

\* set_disconnected locks self.app: disconnect has released it, the error
\* exits of connect have not.
SetDisconnected(t) ==
  /\ pc[t] \in {"disconnect", "connectFail"}
  /\ appLock = NoThread
  /\ IF AppLive
     THEN /\ pc' = [pc EXCEPT ![t] = IF pc[t] = "disconnect" THEN "dropAuth" ELSE "returned"]
          /\ state' = "Disconnected"
          /\ UNCHANGED up /\ UNCHANGED <<mgr, appLock, poisoned>>
     ELSE Panics(t, {"manager"}) /\ UNCHANGED state
  /\ UNCHANGED <<appRoot, addresses, slotVars,
                 authVars, postVars, consumerVars, connVars>>

DropAuth(t) ==
  /\ pc[t] = "dropAuth"
  /\ appLock = NoThread
  /\ IF AppLive
     THEN /\ Goto(t, "dropAuth", "dropConn")
          /\ appLock' = t
          /\ authAborted' = authAborted \cup ({authSlot} \ {0})
          /\ authSlot' = 0
          /\ UNCHANGED up /\ UNCHANGED <<mgr, poisoned>>
     ELSE Panics(t, {"manager"}) /\ UNCHANGED <<authSlot, authAborted>>
  /\ UNCHANGED <<appRoot, addresses, state, connSlot, victim, auth, pwd,
                 postVars, consumerVars, connVars>>

\* Mutant: the task is aborted but not taken out of the slot.
DropConnKept(t) ==
  /\ ConnLockFree
  /\ IF connSlot = 0
     THEN /\ Goto(t, "dropConn", "returned")
          /\ appLock' = NoThread
          /\ UNCHANGED <<victim, connAborted>>
     ELSE /\ Goto(t, "dropConn", "readPid")
          /\ connAborted' = connAborted \cup {connSlot}
          /\ victim' = connSlot
          /\ UNCHANGED appLock
  /\ UNCHANGED <<processVars, state, mgr, authSlot, connSlot, authVars, postVars,
                 consumerVars, recorded, proc, pidfile>>

\* OavcProcessTask::abort aborts the task first and looks for a pid after.
DropConn(t) ==
  /\ ConnLockFree
  /\ IF connSlot = 0
     THEN /\ Goto(t, "dropConn", "returned")
          /\ appLock' = NoThread
          /\ UNCHANGED <<connSlot, victim, connAborted>>
     ELSE /\ Goto(t, "dropConn", "readPid")
          /\ connAborted' = connAborted \cup {connSlot}
          /\ victim' = connSlot
          /\ connSlot' = 0
          /\ UNCHANGED appLock
  /\ UNCHANGED <<processVars, state, mgr, authSlot, authVars, postVars, consumerVars,
                 recorded, proc, pidfile>>

\* Mutant: the abort waits for a pid.
ReadPidWaits(t) ==
  /\ victim \in recorded
  /\ Goto(t, "readPid", "kill")
  /\ UNCHANGED <<processVars, state, mgr, appLock, slotVars,
                 authVars, postVars, consumerVars, connVars>>

ReadPid(t) ==
  /\ IF victim \in recorded
     THEN Goto(t, "readPid", "kill") /\ UNCHANGED <<appLock, victim>>
     ELSE Goto(t, "readPid", "returned") /\ appLock' = NoThread /\ victim' = 0
  /\ UNCHANGED <<processVars, state, mgr, authSlot, connSlot,
                 authVars, postVars, consumerVars, connVars>>

\* kill_openvpn.  When ps prints nothing at all the pid is kept.
PsSilent(t) ==
  /\ Goto(t, "kill", "returned")
  /\ victim' = 0 /\ appLock' = NoThread
  /\ UNCHANGED <<processVars, state, mgr, authSlot, connSlot,
                 authVars, postVars, consumerVars, connVars>>

\* The privileged kill cannot be spawned: a panic under every lock of disconnect.
KillUnspawned(t) ==
  /\ pc[t] = "kill" /\ proc[victim] = "running"
  /\ Panics(t, {"manager", "slot"})
  /\ UNCHANGED <<appRoot, addresses, state, slotVars,
                 authVars, postVars, consumerVars, connVars>>

\* A process with OpenVPN's command line gets a SIGTERM if the user authorises
\* it.  It may have ended when the kill has; otherwise ProcExits is its end.
Kill(t) ==
  /\ Goto(t, "kill", "clear")
  /\ \E ended \in BOOLEAN :
       proc' = IF ended /\ proc[victim] = "running"
               THEN [proc EXCEPT ![victim] = "dead"] ELSE proc
  /\ UNCHANGED <<processVars, state, mgr, appLock, slotVars,
                 authVars, postVars, consumerVars, connAborted, recorded, pidfile>>

\* ... and the pid is forgotten whatever became of the process.
ClearPid(t) ==
  /\ Goto(t, "clear", "returned")
  /\ pidfile' = 0
  /\ victim' = 0
  /\ appLock' = NoThread
  /\ UNCHANGED <<processVars, state, mgr, authSlot, connSlot,
                 authVars, postVars, consumerVars, connAborted, recorded, proc>>

ManagerStep(t) ==
  /\ up
  /\ \/ SetConnecting(t) \/ ConnectRead(t) \/ ConnectSpawn(t)
     \/ TryDisconnect(t) \/ SetDisconnected(t)
     \/ DropAuth(t) \/ DropConn(t) \/ ReadPid(t)
     \/ PsSilent(t) \/ KillUnspawned(t) \/ Kill(t) \/ ClearPid(t)

-----------------------------------------------------------------------------
(* The run_ovpn task spawned by connect.  JoinHandle::abort only marks the *)
(* task; a poll that is under way goes on to its next await.               *)

AuthLock(i) ==
  /\ auth[i] = "spawned"
  /\ PwdFree
  /\ auth' = [auth EXCEPT ![i] = "running"]
  /\ UNCHANGED <<processVars, state, mgr, appLock, slotVars, pc, authAborted, pwd,
                 postVars, consumerVars, connVars>>

\* OpenVPN's output ended.  Its last line with AUTH_FAILED held a challenge, or
\* was a plain one, which stores a constant and opens the portal.  Nothing
\* awaits after that, so an abort that comes this late is without effect.
AuthDone(i) ==
  /\ auth[i] = "running"
  /\ \/ auth' = [auth EXCEPT ![i] = "done"] /\ pwd' = i
     \/ auth' = [auth EXCEPT ![i] = "portal"] /\ pwd' = DirectPortal
  /\ UNCHANGED <<processVars, state, mgr, appLock, slotVars, pc, authAborted,
                 postVars, consumerVars, connVars>>

\* Mutant: a pwd is stored although no line held AUTH_FAILED.
AuthPanicStores(i) ==
  /\ auth[i] = "running"
  /\ auth' = [auth EXCEPT ![i] = "panicked"]
  /\ pwd' = i
  /\ UNCHANGED <<processVars, state, mgr, appLock, slotVars, pc, authAborted,
                 postVars, consumerVars, connVars>>

\* OpenVPN does not start, or ends without any AUTH_FAILED: the task panics.
AuthPanic(i) ==
  /\ auth[i] = "running"
  /\ auth' = [auth EXCEPT ![i] = "panicked"]
  /\ UNCHANGED <<processVars, state, mgr, appLock, slotVars, pc, authAborted, pwd,
                 postVars, consumerVars, connVars>>

AuthCancel(i) ==
  /\ auth[i] \in {"spawned", "running"}
  /\ i \in authAborted \/ ~RuntimeLive
  /\ auth' = [auth EXCEPT ![i] = "cancelled"]
  /\ UNCHANGED <<processVars, state, mgr, appLock, slotVars, pc, authAborted, pwd,
                 postVars, consumerVars, connVars>>

\* Whether OpenVPN ever ends its output is not the client's doing.
AuthStep(i)   == up /\ (AuthLock(i) \/ AuthCancel(i))
AuthAnswer(i) == up /\ (AuthDone(i) \/ AuthPanic(i))

-----------------------------------------------------------------------------
(* The warp handler of one POST.                                           *)

PostArrives(j) ==
  /\ up
  /\ post[j] = "none"
  /\ \A k \in Logins : k < j => post[k] # "none"
  /\ post' = [post EXCEPT ![j] = "waiting"]
  /\ UNCHANGED <<processVars, state, mgr, appLock, slotVars, pc, authVars,
                 short, samlPwd, chan, consumerVars, connVars>>

PostLock(j) ==
  /\ post[j] = "waiting"
  /\ PwdFree
  /\ \E f \in Forms :
       IF f = "missing" \/ pwd = 0
       THEN /\ post' = [post EXCEPT ![j] = "panicked"]
            /\ UNCHANGED <<short, samlPwd>>
       ELSE /\ post' = [post EXCEPT ![j] = "sending"]
            /\ samlPwd' = [samlPwd EXCEPT ![j] = pwd]
            /\ short' = IF f = "short" THEN short \cup {j} ELSE short
  /\ UNCHANGED <<processVars, state, mgr, appLock, slotVars, pc, authVars,
                 chan, consumerVars, connVars>>

\* Mutant: sync_channel(0) with a receiver that outlives the consumer: a send
\* waits for a recv that never comes.
PostSendBlocks(j) ==
  /\ post[j] = "sending" /\ cpc = "recv" /\ chan = 0
  /\ post' = [post EXCEPT ![j] = "done"]
  /\ chan' = j
  /\ UNCHANGED <<processVars, state, mgr, appLock, slotVars, pc, authVars,
                 short, samlPwd, consumerVars, connVars>>

\* SyncSender::send blocks while the channel is full and fails once the
\* receiver is gone.
PostSend(j) ==
  /\ post[j] = "sending"
  /\ IF cpc = "dead"
     THEN post' = [post EXCEPT ![j] = "panicked"] /\ UNCHANGED chan
     ELSE /\ chan = 0
          /\ post' = [post EXCEPT ![j] = "done"]
          /\ chan' = j
  /\ UNCHANGED <<processVars, state, mgr, appLock, slotVars, pc, authVars,
                 short, samlPwd, consumerVars, connVars>>

\* The browser gives up, or the runtime goes: the handler's future is dropped.
PostGone(j) ==
  /\ up
  /\ post[j] = "waiting"
  /\ post' = [post EXCEPT ![j] = "gone"]
  /\ UNCHANGED <<processVars, state, mgr, appLock, slotVars, pc, authVars,
                 short, samlPwd, chan, consumerVars, connVars>>

PostStep(j) == up /\ (PostLock(j) \/ PostSend(j))

-----------------------------------------------------------------------------
(* The consumer thread of start_server.                                    *)

\* Mutant: the message stays in the channel.
ConsumerRecvPeeks ==
  /\ cpc = "recv" /\ chan # 0
  /\ cur' = chan
  /\ cpc' = IF chan \in short THEN "dead" ELSE "launch"
  /\ UNCHANGED <<processVars, state, mgr, appLock, slotVars, pc, authVars,
                 postVars, connVars>>

ConsumerRecv ==
  /\ cpc = "recv" /\ chan # 0
  /\ cur' = chan
  /\ chan' = 0
  /\ cpc' = IF chan \in short THEN "dead" ELSE "launch"
  /\ UNCHANGED <<processVars, state, mgr, appLock, slotVars, pc, authVars,
                 post, short, samlPwd, connVars>>

ConsumerLaunch ==
  /\ cpc = "launch"
  /\ IF addresses = "some"
     THEN /\ Goto(cur, "none", "spawned")
          /\ cpc' = "store"
          /\ UNCHANGED poisoned
     ELSE /\ cpc' = "dead"                 \* unwrap or [0] panics under the lock
          /\ poisoned' = poisoned \cup {"addresses"}
          /\ UNCHANGED pc
  /\ UNCHANGED <<up, appRoot, addresses, state, mgr, appLock, slotVars, authVars,
                 postVars, cur, connVars>>

\* Mutant: a connection that comes after a disconnect is not stored.
ConsumerStoreInTime ==
  /\ cpc = "store"
  /\ ConnLockFree
  /\ cpc' = "announce"
  /\ connSlot' = IF state = "Disconnected" THEN connSlot ELSE cur
  /\ UNCHANGED <<processVars, state, mgr, appLock, authSlot, victim, pc, authVars,
                 postVars, cur, connVars>>

ConsumerStore ==
  /\ cpc = "store"
  /\ ConnLockFree
  /\ IF "slot" \in poisoned
     THEN cpc' = "dead" /\ UNCHANGED connSlot
     ELSE cpc' = "announce" /\ connSlot' = cur
  /\ UNCHANGED <<processVars, state, mgr, appLock, authSlot, victim, pc, authVars,
                 postVars, cur, connVars>>

\* Mutant: take instead of as_ref leaves no StateManager behind.
ConsumerAnnounceTakes ==
  /\ cpc = "announce"
  /\ state' = "None"
  /\ cpc' = "recv" /\ cur' = 0
  /\ UNCHANGED <<processVars, mgr, appLock, slotVars, pc, authVars,
                 postVars, connVars>>

ConsumerAnnounce ==
  /\ cpc = "announce"
  /\ state' = "Connected"
  /\ cpc' = "recv" /\ cur' = 0
  /\ UNCHANGED <<processVars, mgr, appLock, slotVars, pc, authVars,
                 postVars, connVars>>

ConsumerStep ==
  up /\ (ConsumerRecv \/ ConsumerLaunch \/ ConsumerStore \/ ConsumerAnnounce)

-----------------------------------------------------------------------------
(* The connect_ovpn task of login j, up to its call of try_disconnect.     *)

\* The temporary pwd file is written and the privileged OpenVPN spawned; any
\* failure panics, and then try_disconnect is never called.
ConnStart(j) ==
  /\ \/ /\ Goto(j, "spawned", "started")
        /\ proc' = [proc EXCEPT ![j] = "prompt"]
     \/ /\ Goto(j, "spawned", "panicked")
        /\ UNCHANGED proc
  /\ UNCHANGED <<processVars, state, mgr, appLock, slotVars, authVars, postVars,
                 consumerVars, connAborted, recorded, pidfile>>

ConnRecord(j) ==
  /\ Goto(j, "started", "reading")
  /\ recorded' = recorded \cup {j}
  /\ pidfile' = j
  /\ UNCHANGED <<processVars, state, mgr, appLock, slotVars, authVars, postVars,
                 consumerVars, connAborted, proc>>

\* An abort takes effect before the first poll or at an await.  Dropping the
\* Child sends SIGKILL, which a process that runs as root may not honour.
ConnCancel(j) ==
  /\ j \in connAborted \/ ~RuntimeLive
  /\ pc[j] \in {"spawned", "reading"}
  /\ pc' = [pc EXCEPT ![j] = "cancelled"]
  /\ \E honoured \in BOOLEAN :
       proc' = IF honoured /\ pc[j] = "reading"
               THEN [proc EXCEPT ![j] = "dead"] ELSE proc
  /\ UNCHANGED <<processVars, state, mgr, appLock, slotVars, authVars, postVars,
                 consumerVars, connAborted, recorded, pidfile>>

\* Mutant: the end of the output counts only while the session is connected.
ConnEofConnected(j) ==
  /\ proc[j] = "dead" /\ state = "Connected"
  /\ Goto(j, "reading", "lockTry")
  /\ UNCHANGED <<processVars, state, mgr, appLock, slotVars, authVars, postVars,
                 consumerVars, connVars>>

ConnEof(j) ==
  /\ proc[j] = "dead"
  /\ Goto(j, "reading", "lockTry")
  /\ UNCHANGED <<processVars, state, mgr, appLock, slotVars, authVars, postVars,
                 consumerVars, connVars>>

\* Mutant: the task calls try_disconnect without locking connection_manager.
ConnLockManagerUnlocked(j) ==
  /\ Goto(j, "lockTry", "try")
  /\ UNCHANGED <<processVars, state, mgr, appLock, slotVars, authVars, postVars,
                 consumerVars, connVars>>

ConnLockManager(j) ==
  /\ mgr = NoThread
  /\ IF "manager" \in poisoned
     THEN Goto(j, "lockTry", "panicked") /\ UNCHANGED mgr
     ELSE Goto(j, "lockTry", "try") /\ mgr' = j
  /\ UNCHANGED <<processVars, state, appLock, slotVars, authVars, postVars,
                 consumerVars, connVars>>

ConnReturn(j) ==
  /\ Goto(j, "returned", "done")
  /\ mgr' = NoThread
  /\ UNCHANGED <<processVars, state, appLock, slotVars, authVars, postVars,
                 consumerVars, connVars>>

ConnStep(j) ==
  up /\ (\/ ConnStart(j) \/ ConnRecord(j) \/ ConnCancel(j)
         \/ ConnEof(j) \/ ConnLockManager(j) \/ ConnReturn(j))

-----------------------------------------------------------------------------
(* The OpenVPN processes; they outlive the client.                         *)

ProcAuthorised(j) ==
  /\ proc[j] = "prompt"
  /\ proc' = [proc EXCEPT ![j] = "running"]
  /\ UNCHANGED <<processVars, state, mgr, appLock, slotVars, pc, authVars, postVars,
                 consumerVars, connAborted, recorded, pidfile>>

ProcExits(j) ==
  /\ proc[j] \in {"prompt", "running"}
  /\ proc' = [proc EXCEPT ![j] = "dead"]
  /\ UNCHANGED <<processVars, state, mgr, appLock, slotVars, pc, authVars, postVars,
                 consumerVars, connAborted, recorded, pidfile>>

ProcStep(j) == ProcAuthorised(j) \/ ProcExits(j)

-----------------------------------------------------------------------------
SessionNext ==
  \/ \E t \in Threads : ManagerStep(t)
  \/ \E i \in Challenges : AuthStep(i) \/ AuthAnswer(i)
  \/ \E j \in Logins : PostArrives(j) \/ PostGone(j) \/ PostStep(j) \/ ConnStep(j) \/ ProcStep(j)
  \/ ConsumerStep

(* Fairness of the steps the code takes by itself: runnable threads and    *)
(* tasks are scheduled, and the commands that kill_openvpn waits for end.  *)
(* Nothing is assumed of OpenVPN, of the browser and of the callers.       *)
SessionFairness ==
  /\ \A t \in Threads : WF_vars(ManagerStep(t))
  /\ \A i \in Challenges : WF_vars(AuthStep(i))
  /\ \A j \in Logins : WF_vars(PostStep(j)) /\ WF_vars(ConnStep(j))
  /\ WF_vars(ConsumerStep)

-----------------------------------------------------------------------------
(* Properties.                                                             *)

\* Every variable has its type, and the consumer has a login in hand exactly
\* while it works on one (the loop of start_server, saml_server.rs).
TypeOK ==
  /\ up \in BOOLEAN /\ appRoot \in BOOLEAN
  /\ addresses \in {"none", "empty", "some"}
  /\ poisoned \subseteq {"manager", "slot", "addresses"}
  /\ state \in States
  /\ mgr \in Threads \cup {NoThread} /\ appLock \in Threads \cup {NoThread}
  /\ authSlot \in Challenges \cup {0}
  /\ connSlot \in Logins \cup {0} /\ victim \in Logins \cup {0}
  /\ pc \in [Threads -> PCs]
  /\ auth \in [Challenges -> {"none", "spawned", "running",
                              "done", "portal", "panicked", "cancelled"}]
  /\ authAborted \subseteq Challenges
  /\ pwd \in Pwds \cup {0}
  /\ post \in [Logins -> {"none", "waiting", "sending", "done", "panicked", "gone"}]
  /\ short \subseteq Logins
  /\ samlPwd \in [Logins -> Pwds \cup {0}]
  /\ chan \in Logins \cup {0}
  /\ cpc \in {"recv", "launch", "store", "announce", "dead"}
  /\ cur \in Logins \cup {0}
  /\ cpc = "recv" <=> cur = 0
  /\ connAborted \subseteq Logins /\ recorded \subseteq Logins
  /\ proc \in [Logins -> {"none", "prompt", "running", "dead"}]
  /\ pidfile \in Logins \cup {0}

\* Exactly the thread that is inside a ConnectionManager method holds
\* connection_manager, and exactly the one in a scope that keeps the guard of
\* self.app holds that, on every path out of connect, disconnect and the task.
ManagerExclusion ==
  \A t \in Threads : /\ pc[t] \in ManagerPCs <=> mgr = t
                     /\ pc[t] \in AppLockPCs <=> appLock = t

\* Once the manager is unlocked, Disconnected means that both slots of VpnApp
\* are empty, but for a connection the consumer has stored and not announced.
DisconnectedIsClean ==
  state = "Disconnected" /\ mgr = NoThread /\ "manager" \notin poisoned
    => /\ authSlot = 0
       /\ cpc # "announce" => connSlot = 0

\* Once the manager is unlocked, Connecting means that a run_ovpn task can be
\* found and aborted by a disconnect, until openaws_cleanup or exit.
ConnectingHasTask ==
  state = "Connecting" /\ mgr = NoThread /\ appRoot => authSlot # 0

\* p is a pwd with which some run_ovpn came to its end.
Obtained(p) == \E i \in Challenges : \/ auth[i] = "done" /\ p = i
                                     \/ auth[i] = "portal" /\ p = DirectPortal

\* A connection is launched only with a pwd that run_ovpn has obtained: that of a
\* challenge OpenVPN gave, or the portal's constant and then only after a plain
\* AUTH_FAILED, however handlers, run_ovpn tasks and aborts interleave.
OnlyObtainedPwds == \A j \in Logins : pc[j] # "none" => Obtained(samlPwd[j])

\* What a browser was told is accepted is in the channel, with the consumer or
\* launched, in one of these places only, unless the consumer has panicked.
LoginsDeliveredOnce ==
  \A j \in Logins :
    LET inChan   == chan = j
        inHand   == cpc = "launch" /\ cur = j
        launched == pc[j] # "none"
    IN  /\ ~(inChan /\ inHand) /\ ~(inChan /\ launched) /\ ~(inHand /\ launched)
        /\ inChan \/ inHand \/ launched => post[j] = "done"
        /\ post[j] = "done" /\ cpc # "dead" => inChan \/ inHand \/ launched

TaskLive(j) == pc[j] \in {"spawned", "started", "reading", "lockTry"}

\* The task of the only session launched so far, alive and not aborted, is in
\* the slot where disconnect looks for it or about to be put there.
LoneSessionReachable ==
  \A j \in Logins :
    TaskLive(j) /\ j \notin connAborted /\ (\A k \in Logins \ {j} : pc[k] = "none")
      => connSlot = j \/ cur = j

\* A task that has been aborted, and its pid killed, is in no slot any more:
\* no later disconnect kills that pid, which may be another's by then.
AbortedOnce == connSlot \notin connAborted /\ authSlot \notin authAborted

\* A connect without addresses waits for the guard of self.app it holds itself,
\* with the manager locked (both error exits of connect, manager.rs).
Wedged == \E c \in Callers : pc[c] = "connectFail"

\* The end of OpenVPN is noticed: its task goes on through try_disconnect, and
\* nothing but a wedged connect can keep it from the manager for ever.
ExitNoticed ==
  \A j \in Logins :
    pc[j] = "reading" /\ proc[j] = "dead"
      ~> pc[j] \in {"done", "cancelled", "panicked"} \/ ~up \/ Wedged

\* A handler that has its data does not block for ever in the channel.
LoginConsumed ==
  \A j \in Logins :
    post[j] = "sending" ~> post[j] \in {"done", "panicked"} \/ ~up

=============================================================================
