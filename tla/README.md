# Verification of openaws-vpn-client

The client logs in to an AWS Client VPN through a browser (SAML) and drives two
OpenVPN processes: one that is made to fail so that it prints a challenge, and a
privileged one that carries the connection. The code that is the project's own
is in `src/src/*.rs`; OpenVPN 2.5.11 itself is vendored, with a patch, under
`src/build-mobile/`. The project models the client and, of OpenVPN, the parts the
client's behaviour rests on: the process and its signals, the control channel,
packet ids, key renegotiation and routes. By lines that is about 3,700 of the
127,000 lines of C; what the others are is said at the end.

## The system

| Part | State | Operations | Meets the others through |
|---|---|---|---|
| `ConnectionManager` (manager.rs) | a `Mutex<Weak<VpnApp>>`, itself behind `VpnApp.connection_manager` | `connect`, `disconnect`, `try_disconnect`, `force_disconnect` | called by foreign threads, by `main` and by connection tasks |
| `VpnApp`, `StateManager` (app.rs, state_manager.rs) | state, the slots `openvpn` and `openvpn_connection`, the tokio runtime | `set_connecting`, `set_connected`, `set_disconnected` | shared by everything, through `Rc`, `Weak` and `Arc` |
| tasks (task.rs) | a `JoinHandle`, the pid of the process | `abort` | aborted by disconnect, detached when a slot is overwritten |
| OpenVPN commands (cmd.rs) | `ProcessInfo.pid`, the pid file | `run_ovpn`, `connect_ovpn`, `kill_openvpn` | run in tokio tasks; the kill runs in the thread that disconnects |
| SAML server (saml_server.rs) | a channel of capacity one | POST handlers, a consumer thread | takes `config.pwd` from `run_ovpn`, fills `openvpn_connection`, sets Connected |
| DNS, configuration (dns.rs, config.rs) | `addresses`, `remote`, `config`, `pwd` | `resolve_addresses`, `save_config` | written by a front end, read by `connect` and by the consumer |
| pid file (local_config.rs) | `last_ovpn_pid` | `read_last_pid`, `save_last_pid` | survives the process; read by the reaper at startup |
| C API (ffi.rs) | `APP_INSTANCE` | `openaws_init`, `_connect`, `_disconnect`, `_cleanup`, `_get_state`, ... | any number of foreign threads |
| program (main.rs) | the poll counter | the commands `connect`, `-c`, `disconnect`, `status` | one thread, signals |
| OpenVPN process (openvpn.c, init.c, sig.c, forward.c, ping.c, push.c, occ.c) | the signal slot, the cached secret, the token, the notification counter | `init_instance`, `pre_select`, `process_io`, `process_signal`, `close_instance` | started by `connect_ovpn`, ended by `kill_openvpn`; reads the secret file that `connect_ovpn` owns |
| OpenVPN control channel (reliable.c) | send and receive buffers, pending acknowledgements | `reliable_*`, `tls_pre_decrypt` | below the TLS handshake |
| OpenVPN packet ids (packet_id.c) | a counter; a window with time marks | `packet_id_write`, `_test`, `_add`, `_reap` | every data and control packet |
| OpenVPN keys (ssl.c) | primary and lame duck key state of a session | `tls_process`, `tls_pre_decrypt`, `tls_pre_encrypt` | both ends of the connection |
| OpenVPN routes (route.c, networking_sitnl.c) | the route list, the kernel's table | `add_routes`, `delete_routes`, redirect and its undo | one table for all processes of the host |
| log.rs, lib.rs, consts.rs, handlers.rs, storage.rs | none that matters | logging, JNI string conversion, dead GUI code | |

What is hard here is that five kinds of processes (callers, `run_ovpn` tasks,
handlers, the consumer, connection tasks) share the state and the slots through
seven locks that are taken in different orders, held over blocking calls and
poisoned by panics; that aborting a task and finding its process are separate
steps; and that almost every failure is a panic. The hazards of `PROJECT.json`
list where this bites.

What makes the parts correct:

* manager: only one thread inside; no deadlock; after a disconnect no task is left
  behind; no task is aborted twice;
* login pipeline: an accepted login is delivered once, with a password that some
  `run_ovpn` obtained, and no handler blocks for ever;
* tasks: the end of OpenVPN is noticed, and a running session can be found by a
  disconnect;
* front ends: calls return, the polling loop ends, a failure is reported;
* pid file: a process that may still run stays on record, and only OpenVPN is
  killed;
* configuration: file, text, remote and addresses of a connection belong together;
* OpenVPN process: a SIGTERM ends it, the one-time secret is used once and not
  kept, an instance reaches the tunnel or ends;
* OpenVPN channels: control messages in order, once and in the end; data packets
  at most once; a key that both ends have at all times;
* OpenVPN routes: no loop while it runs, the old table afterwards.

## Modules

    Session          everything behind the front ends
      FfiClient      Session driven by foreign threads     (ffi.rs)
      CliClient      Session driven by main                (main.rs)
      SessionProof   the inductive invariant of Session, the theorems for FfiClient
        CliClientProof   the theorems for CliClient
    PidFile          the pid file over crashes and restarts
      PidFileProof   its theorems
    Profile          config, remote and addresses under overlapping calls
      ProfileProof   its theorems
    OpenVpnProcess   one OpenVPN process from start to exit
    Routes           the routing table (MCRoutes)
      OpenVpnProcessProof   the theorems of both
    Reliable         the control channel of one key; implements FifoChannel
      ReliableProof  its theorems, the refinement among them
    PacketId         packet ids; implements AtMostOnce
      PacketIdProof  its theorems, the refinement among them
    Rekey            key renegotiation of client and server (MCRekey)
      RekeyProof     its theorems

**Session.** A *step* is a stretch of code between two points where another
process can interfere: a lock, an await, a blocking call. A guard that lives over
such a point is a lock of the model, and its scope follows the Rust drop order:
`mgr` (connection_manager), `appLock` (`ConnectionManager.app`, where it is held
over a blocking step), `ConnLockFree` (openvpn_connection, held through the kill)
and `PwdFree` (config.pwd, held through `run_ovpn` and through the handler's
send). Login *j* stands for the *j*-th browser POST, its SAML data, the
connection task launched with it and that task's OpenVPN process; challenge *i*
for what the *i*-th `run_ovpn` obtains. A plain AUTH_FAILED line has no challenge:
`run_ovpn` then ends with the constant "direct-portal" as the password (cmd.rs:202),
which is `DirectPortal`. The program counters `pc` follow the code:

* connect: `resolve`, `lockConnect`, `connect` (`SetConnecting`), `connectRead`,
  then `connectSpawn` or `connectFail` (the error exits, with the guard of
  `self.app` alive), `returned`;
* disconnect: `lockDisconnect`, `disconnect` (`SetDisconnected`), `dropAuth`,
  `dropConn`, `readPid`, `kill`, `clear`, `returned`; force_disconnect enters at
  `dropAuth`; try_disconnect begins at `try`;
* connection task: `spawned`, `started` (OpenVPN spawned, no pid on record yet),
  `reading`, `lockTry`, `try`, then the way of disconnect, `done`.

`Panics` models a panic: in a caller it ends the process, in a task it unwinds
and poisons the locks held. `AppLive` says whether `Weak::upgrade` succeeds,
`RuntimeLive` whether the tokio runtime still exists. What is not the client's
code is marked external: the browser (`PostArrives`, `PostGone`), the user who
authorises or refuses a privileged command, and OpenVPN's exit.

**FfiClient** adds the calls of the C API from any number of threads, after
`openaws_init`. `openaws_cleanup` empties `APP_INSTANCE`, after which calls
return false at once. **CliClient** adds `main`: the command, the polling loop
with its counter (which is counted up before it is compared, and so ends one past the
timeout), the failure branch, the final force_disconnect, the drop of the application,
and signals.

**PidFile.** Processes with pids that the kernel gives out again, two connection
tasks, the startup reaper of `main` and `openaws_init`, and a client that may crash
at any step and be started again. `save_last_pid` is its two system calls
(`RecordTruncate`, `RecordWrite`): the write of a shorter number over a longer one
leaves the rest of it (`Overlay`, `Short`), so the file may name a pid nobody wrote.
`kill_openvpn` is `Ps`, the check of the command line (`Recognised`), `Kill` and
`Clear`. `Kill` only sends a SIGTERM: the OpenVPN is `termed` from then on and ends in
its own time, which `OpenVpnProcess` is about. The user may refuse the kill, and a kill
that cannot be spawned panics (cmd.rs:440): its thread is gone and the record stays.
`Escalations` says whether the recorded pid is that of pkexec, which replaces itself by
OpenVPN, or of sudo, which stays; the run takes both.

**Profile.** The three fields of `Config` have a mutex each. A caller saves, looks
up and connects; `save_config` tests, removes and writes the cleaned file in
separate steps and holds the guard of `config` over the write of `remote`; `connect`
reads config, remote, addresses; the consumer reads addresses, config, port. The
profile of the *k*-th call is *k*. What `config` holds is a path, and calls of one
stem share it (`PathOf`); `disk` has the text under each path, which may be missing,
created and not written yet (`Blank`), or written by two calls at once (`Torn`). A
file that is removed while a caller has it open loses its name (`linked`).

**OpenVpnProcess.** The phases of `openvpn_main`'s loops are the places: `query`,
`reset`, `pause`, `init`, `ready`, then the event loop (`timers`, `ping`, `tls`,
`control`, `check`, `io`, `recheck`), `close`, `closed` and `unwound`. One variable is the signal slot. SIGTERM, SIGINT, SIGHUP,
SIGUSR1 and SIGUSR2 write it at any moment (the last three only once
`post_init_signal_catch` is in force), and soft signals as the code does, with
`register_signal`'s precedence only where the code calls it. The life of the SAML
response is `file` (the temporary file that `connect_ovpn` owns and removes), `cached`,
`sent` and `token`. `challenge` is the question of an AUTH_FAILED,CRV1: the next login
without a token puts it to the user on the console (`Console`), where the process may
die, go on or stay; no signal is looked at meanwhile. After a SIGHUP the file check of
options.c ends the process when the secret file is gone, token or not.

**Reliable.** One direction of one key state. Buffers hold ids of `IdWidth` bits, the
network holds every packet sent and may deliver it late, again or never;
`FifoChannel` is the abstract channel, with the sequence given and the sequence
delivered as the mapping.

**PacketId.** A sender and a receiver with a window or (TCP) without, with short ids
or with a time stamp; `mode` is chosen once. `AtMostOnce` is the abstract receiver.

**Rekey.** Two ends with a primary and a lame duck key each, the renegotiation
clocks, and control packets that are sent again, lost and overtaken. A renegotiation is
started by the key's age, or at any moment by the bytes and packets it has protected or
a packet id near its end; `rushed` remembers one that came before two handshakes fitted
into the key's life. The TLS object and the key message may fail at any stage
(`Erring`), as well as the handshake by timeout. `MaxMishaps` bounds the losses, the
overtakings, the errors and the renegotiations by volume together. The TLS dialogue of
a key is two packets each way.

**Routes.** A table of destinations, OpenVPN processes that add and delete routes one
netlink command at a time, and `--persist-tun` restarts. Any command may be refused;
OpenVPN warns and goes on. `bare` remembers a client whose host route was refused,
`spoiled` the destinations whose mending was.

## Runs

| Run | Instance | Shows |
|---|---|---|
| `ffi` | 2 callers, 2 calls, 1 login, all form kinds and lookup results; 35,102 states | the seven invariants of the library, `CallsReturn`, `ExitNoticed` |
| `cli` | all commands, 2 logins, timeout after 2 polls; 222,490 states | `CliTypeOK`, `LoginsDeliveredOnce`, `WaitEnds`, `CommandsEnd`, `LoginConsumed` |
| `pid` | 2 pids of different length, 2 tasks, pkexec and sudo, refusals; 650,788 states | `RecordInv`, `StrangersSpared`, `KillTakesEffect` |
| `profile` | 2 callers, 4 calls, 2 stems; 349,727 states | `ProfileInv`, `ConnectUsesProfile`, `ConsumerReadsForward` |
| `reliable` | ids of 4 bits, send 3, receive 2, 3 messages; 76,117 states | `BufferInv`, `ForgottenIsReceived`, `RepeatsAreHeard`, `ImplementsChannel`, `AllDelivered`, `AllAcknowledged` |
| `pktid` | numbers to 3, window 0 and 2, both forms, 5 seconds; 602,800 states | `WindowInv`, `FreshIsHeard`, `ImplementsAtMostOnce` |
| `ovpn` | 3 signals of 5 kinds, 3 faults of 12 kinds; 266,383 states | `SecretInv`, `SecretNotResent`, `NoRestartWhileExiting`, `NotifyingEnds`, `Settles`, `TermIsObeyed` |
| `rekey` | both ends renegotiate every 2 of 5 seconds, one mishap; 1,182,065 states | `NoKeyMistaken`, `KeyInv`, `KeepsSendKey` |
| `routes` | one process, 3 pushed networks, all redirect modes, any command refused; 23,002 states | `RouteInv`, `Restored` |
| `ffi_lookup` | violation | a lookup without addresses wedges the manager |
| `cli_signal` | violation | a signal leaves OpenVPN running |
| `cli_failure` | violation | a failed login does not end the wait of `connect` |

The properties:

* `ManagerExclusion`: whoever is inside a method holds the manager, and the guard
  of `self.app` belongs to that thread. It is about these two mutexes only: the `Rc`s
  are cloned and dropped under others, or none;
* `DisconnectedIsClean`: manager unlocked and Disconnected imply empty slots, but
  for a task that the consumer has stored and not announced yet, and unless a
  panic inside disconnect has poisoned the manager (after which nobody can enter
  it again);
* `ConnectingHasTask`: manager unlocked and Connecting imply a `run_ovpn` task
  that a disconnect can abort;
* `OnlyObtainedPwds`, `LoginsDeliveredOnce`: the way of a login from handler to
  connection task; the password is that of a challenge, or the portal's constant and
  then only after a plain AUTH_FAILED;
* `LoneSessionReachable`: the task of a session that is the only one is in the
  slot or on its way there. With two logins this is false of the code (the second
  task overwrites the first in the slot), which is why the property is stated for
  one;
* `AbortedOnce`: what was aborted is in no slot any more;
* `CallsReturn`, `ExitNoticed`: calls return and the end of OpenVPN is noticed.
  Both except `Wedged`, the deadlock that `ffi_lookup` shows; the runs say that it
  is the only one;
* `LoginConsumed`: no handler blocks for ever in the channel;
* `CliTypeOK`: types, and a poll counter that passes the timeout by one, and only when
  `main` gives up;
* `WaitEnds`, `CommandsEnd`: the loop ends; `disconnect` and `status` terminate;
* `RecordInv`: types, and `SoleSessionOnRecord`: the pid of the only session of a
  client that found none at startup is in the file from the moment it reads
  OpenVPN's output until it is aborted;
* `StrangersSpared`: neither a stale, a torn nor a reused pid gets a stranger a SIGTERM,
  unless it took the pid between `ps` and the kill;
* `KillTakesEffect`: a `kill_openvpn` that starts on a running OpenVPN sends it a
  SIGTERM, unless `ps` shows nothing, the user refuses, the kill cannot be spawned or
  the client dies;
* `ProfileInv`: types, and `PairFromOneFile`: outside `save_config`'s critical
  section, config is the path of remote's profile; a file is there unless somebody is
  about to create it; and its text is that of remote's profile once a call that
  overlapped no other has left `save_config`;
* `ConnectUsesProfile`, `ConsumerReadsForward`: a call that no other overlapped
  connects with its own path, port, address and text; the consumer may combine two
  calls, but neither the port nor the text is older than the address;
* `BufferInv` (types and `FullBufferDrains`), `ForgottenIsReceived`,
  `RepeatsAreHeard`: the receive buffer cannot fill up without the message that
  empties it; the sender forgets only what has arrived; the receiver always listens
  to a repeat of the oldest unacknowledged packet;
* `ImplementsChannel`, `AllDelivered`, `AllAcknowledged`: the control channel is a
  FIFO channel that delivers everything;
* `WindowInv` (types and `LateIsRefused`), `FreshIsHeard`: the window refuses what
  the time limit has expired and hears all else that is new;
* `ImplementsAtMostOnce`: no id is accepted twice;
* `SecretInv` (types and `SecretForgotten`), `SecretNotResent`: once the tunnel was up,
  the SAML response is neither in its file nor in memory, and no restart or
  renegotiation sends it again;
* `NoRestartWhileExiting`, `NotifyingEnds`, `Settles`, `TermIsObeyed`: the exit
  notification is not cut short by a restart, and ends with the process; with bounded
  faults and a server that answers, the tunnel stays up, the process ends or it waits
  at the console; a SIGTERM or SIGINT ends it unless `lost` or at the console;
* `NoKeyMistaken`, `KeyInv` (types and `PeerCanDecrypt`), `KeepsSendKey`: a packet is
  never decrypted with another key of the same id; each end encrypts with a key the
  other finds under its id; and only four named things take an end's last key;
* `RouteInv` (types and `NoLoop`), `Restored`: while a client sets its routes up or
  runs, its own encrypted packets never take the way into its tunnel; when it has
  ended, the table is the one it found, whichever commands were refused, but for the
  very commands the exceptions below name.

Several properties are exact about what the code does *not* guarantee. The
exceptions are part of their statements:

* `SoleSessionOnRecord` is about a lone session. A refused kill clears the record
  of a process that runs on (cmd.rs:446), the reaper that slept clears the record of
  the session started meanwhile (main.rs:68), and an abort between spawn and record
  (task.rs:44) finds no pid;
* `KillTakesEffect` is about the SIGTERM and about pkexec. Whether the SIGTERM ends the
  process is the question of `TermIsObeyed`. Under sudo the recorded pid is that of
  `sudo`, whose command line does not start with `/`, and `kill_openvpn` (cmd.rs:422)
  only clears the file; the run includes that case, and the mutant `RecognisedSudo` is
  its opposite;
* `PairFromOneFile` and `ConsumerReadsForward` say nothing of a text that a later call
  of the same stem is writing: `save_config` rewrites the shared path (config.rs:90)
  before it sets config and remote, so an OpenVPN that opens the path may find a newer
  text than its port, a blank one or none;
* `ConnectUsesProfile` is about calls that overlap no other. With an overlap, a
  connect may use the other call's profile, or the file of one with the addresses
  of the other (ffi.rs:88);
* `DisconnectedIsClean` allows a task that was stored and not announced: a login
  that arrives after a disconnect makes the client Connected again
  (saml_server.rs:121);
* `main` notices neither a failure nor the end of OpenVPN while it polls or sleeps: the
  task that would report it waits for the manager `main` holds (main.rs:87).
  `cli_failure` shows it against the comment of main.rs:91, and `CliFailureUnseen`
  proves that the failure branch never runs;
* `LoneSessionReachable` and `ConnectingHasTask` say nothing of a task that a second
  login or a second connect has displaced from its slot: it goes on detached. Nor does
  a property forbid the Connected that the consumer announces after its task has ended
  (saml_server.rs:121);
* `TermIsObeyed`, `NotifyingEnds` and `NoRestartWhileExiting` except `lost`: `init_instance`
  empties the slot (init.c:4167), signals write it whatever waits there (sig.c:106), and
  ping-restart, push timeouts and server messages assign SIGUSR1 over it. A request
  repeated later counts anew, and a SIGTERM overwritten by a SIGINT is not lost. The
  two liveness properties except the console as well, where no signal is looked at;
* `SecretForgotten` takes for granted that the removal of the file by `--route-up`
  succeeds (init.c:1730 goes on when the script fails);
* `KeepsSendKey` and `PeerCanDecrypt` except `stray`: a delayed SOFT_RESET of a key
  the end already has makes `tls_pre_decrypt` renew the key once more (ssl.c:3547), and
  the model ends there. They except `rushed`: after a renegotiation by volume that came
  before two handshakes fitted into the key's life, the peer may not have finished the
  key in use. `NoKeyMistaken` has no exception for `rushed`. `KeepsSendKey` also lets the
  last key go when an abandoned session expires, and by a TLS error with no old key;
* `RepeatsAreHeard` is about ids that do not come near the end of their range:
  `reliable_pid_in_range2` is wrong where base + extent wraps and test does not. With
  32 bits that is 2^32 control packets of one key;
* `NoLoop` is about one process. Two processes of one server share its host route,
  and the first to end deletes it (route.c:1125). It excepts a client whose host route
  the kernel refused: OpenVPN warns and redirects all the same (route.c:1043), which is
  the loop. `Restored` is about a table without a user's route for a pushed network,
  which netlink's replace flag would overwrite, and excepts a destination whose host
  route could not be deleted or whose restoring add (route.c:1180) was refused.

**Bounds.** Every bound is a constant. In the runs of `Session` they are `MaxCalls`,
`MaxLogins` and `MaxAttempts`: two callers and two calls give every pair of API functions
in every interleaving with one login. Two logins, in `cli`, are the least for which a
slot is overwritten, the channel is full while a handler sends, and a task ends while
another is in the slot; a short form in the first one kills the consumer before the
second. `FfiLoginsDeliveredOnce` carries the latter over to the library for any number
of logins. The poll limit of 120 is 2 in the runs and arbitrary in the proofs.
Two pids are the least that can be confused, and their numbers differ in length so
that a shorter one is written over a longer. Four calls and two stems give a second
call with the same file and an overlap in every position. In `reliable` the send
window is larger than the receive window and the acknowledgements of a packet are
fewer than those pending (`SendAckMax` 1 of 3); `AckSize` is at least the number of
messages, because endless stale duplicates could otherwise keep the array full. The
code's sizes are 4, 8, 8 and 4. In `pktid` the number rolls over after three packets
and the clock runs past the time limit and the reap interval. In `ovpn` three signals
and three faults combine; `ExitNotify` 2 is the least with a repetition. In `rekey`
handshakes time out and old keys expire, and with renegotiations by volume a key id is
used again (`KeyIdMask` 2; the code's 7); the reuse of an id without one takes a longer
clock and is left to the theorem. The renegotiation period and the transition window are two handshake
windows, the least that `WindowAssumption` allows (the options' defaults are 3600,
3600 and 60): with a shorter period an end may renegotiate again before its peer has
finished, as it may by volume. `routes` has one process because its properties are about
one.
Deadlock is not checked where the bounds are used up or the process has exited: the
client rests, as it does between two calls. Blocking for ever is what the liveness
properties are about.

**Fairness.** Weak fairness of what the code does by itself: runnable threads and
tasks are scheduled, `ps` and the privileged `kill` end. Nothing is assumed of
OpenVPN's output (`AuthAnswer`) and exit, of the browser, or of new calls. The std
mutexes are modelled by guards on `mgr = NoThread`; weak fairness is enough there
because the bounded calls make contention end. `PidFile` assumes that a thread inside
`kill_openvpn` runs, that `ps` ends and that the user answers the request for the kill;
`Reliable` that the event loop runs, that timers fire and that a packet sent again and
again gets through sometime (strong fairness, for data and for acknowledgements);
`OpenVpnProcess` that the event loop runs, that an answer the server keeps sending is
read in the end and that the notification's seconds pass (strong fairness), and nothing
of the user at the console. Nothing is assumed of signals, faults and crashes.

## Proofs

tlapm checks, for every value of the constants that satisfies the assumptions named
below, every invariant, action property and refinement that the passing runs check,
but for `NoKeyMistaken` (`LoginsDeliveredOnce`, which `cli` checks, is proved of the
library). Four of the theorems have a condition beside the assumptions; it stands in
their statement.

### The client

* `SessionProof`: `FfiTypeCorrect`, `FfiExclusion`, `FfiDisconnectedIsClean`,
  `FfiOnlyObtainedPwds`, `FfiLoginsDeliveredOnce`, `FfiAbortedOnce`,
  `FfiLoneSessionReachable`, `FfiConnectingHasTask`;
* `CliClientProof`: `CliTypeCorrect`, `CliFailureUnseen`, `CliExclusion`,
  `CliDisconnectedIsClean`;
* `PidFileProof`: `SessionRecorded`, `KillSparesStrangers`;
* `ProfileProof`: `ProfileSafe`, `ProfileOwn`, `ProfileForward`.

For the first two, with any number of callers, calls, logins and polls, the
assumptions are `SessionAssumption` (the bounds are naturals, a login is not a
caller, `NoThread` is neither, forms and lookup results are among the known ones)
and `CliAssumption` (main is the only caller). TLC evaluates both in the runs.

The inductive invariant is `SessionInv` of `SessionProof`:

* `TypeOK` and `ManagerExclusion`; together they are inductive by themselves.
  Every step is a move inside, into, out of or outside of the manager, and the
  lemmas `MoveInside`, `MoveIn`, `MoveOut` and `MoveOutside` cover these four;
* `CleanInv` strengthens `DisconnectedIsClean`, which is not inductive because
  disconnect sets the state before it empties the slots and connect fills a slot
  without looking at the state. It says that the connect under way has set the
  state since it entered, and that a slot that is full under Disconnected is about
  to be emptied by the thread inside or announced by the consumer;
* `FlowInv` strengthens `OnlyObtainedPwds` by following the password from
  the config through the handler;
* `SlotInv` strengthens `AbortedOnce` and `LoneSessionReachable`: a login is stored
  once, so what is aborted cannot come back into the slot.

The front ends add `FfiTypeOK`, and `MainInv` for the program: the command line and
`closing` determine on which path `main` is, and a connect that still holds the
manager after its call has a state other than Disconnected, which is what
`CliFailureUnseen` states. The last part needs
that `connectFail` never reaches `returned`, because its thread waits for itself.

`ConnectInv` strengthens `ConnectingHasTask` on top of these:
only callers connect, whoever empties slots under Connecting is in
`openaws_cleanup`, and an empty slot under Connecting is the doing of the thread
inside.

`SessionRecorded` states `RecordInv`, which is not inductive: it says nothing of the
moment between `save_last_pid`'s truncation and its write. `LoneInv` of
`PidFileProof` adds that the file of a lone task is empty there, and that nobody is
about to clear it before the task is aborted. `SpareInv` follows a kill from `ps` on:
while the pid has not changed hands it is no stranger's.

`ProfileProof` has, beside the types, `PairInv` (whoever removes a file is about to
create it again, and remote follows config inside the guard), `LoneInv` and `OwnInv`
(what a caller that overlaps no other has stored, written and read back; `mixed` is the
last call that did overlap), `DoneInv` (what such a call leaves behind), and `ForwardInv` (without overlaps addresses follow remote
and remote follows config and text, and the consumer has read in that direction). The
assumption is `ProfileAssumption`.

### OpenVPN

* `OpenVpnProcessProof`: `SecretSafe`, `SecretSentOnce`, `ExitNotRestarted`, for any
  number of signals and faults. The invariant adds to the types `StageInv` (between
  two instances the tunnel is down), `ForgetInv` (the secret is forgotten from the
  first `key_method_2_write` on, which is before the tunnel comes up) and `ExitInv`
  (every way out of the event loop with a notification started leaves the request to
  end in the slot, or has it lost to a late signal). The assumption is
  `OpenVpnAssumption`.
* `ReliableProof`: `BuffersSafe`, `ForgottenReceived`, `OldestHeard` and the refinement
  `ReliableImplementsChannel`, for any sizes of the buffers and any number of
  messages. `CountInv` and `PacketInv` say that the id of everything buffered or under
  way is the number of its message less one, and that what the receiver keeps is
  within its window; `AckInv` and `ForgetInv` that the receiver has whatever is
  acknowledged or forgotten. The assumptions are `ReliableAssumption` and
  `IdAssumption`: a key state carries no more messages than half the range of the
  ids. The code relies on the same, since it stores the id in 32 bits and a key state
  lives for an hour.
* `PacketIdProof`: `WindowSafe`, `FreshHeard` and the refinement
  `PacketIdImplementsAtMostOnce`, for any window, time limit, reap interval and
  largest number. `Window` relates the list of marks to the acceptances: an accepted
  number on the list is marked with its time or expired (`Covers`), a mark stands for
  an acceptance (`Stands`), what has expired is behind an old acceptance (`Gone`) with
  everything after it (`Suffix`), and the last reaping left no mark that was old by
  then (`Reaped`). `WireInv` says that the next pair of the sender is above all of
  those on the wire. The assumption is `PacketIdAssumption`.

* `RekeyProof`: `RekeyTypes`, `PeersAgree` (`KeyInv`) and `SendKeyKept`
  (`KeepsSendKey`), for any mask of the ids, any clock, any number of renegotiations
  and TLS errors, and of packets lost, repeated and overtaken. `KeyInv` says nothing of a key that is
  not used yet, so it is far from inductive. `KeyIInv` says, while no end has obeyed a
  delayed reset or renegotiated too soon: the id of a key is a function of its number, and the numbers of an
  end's keys are consecutive (`NextOk`, `SerialOk`); deadlines lie where the windows
  put them (`ClockOk`), so that an old key outlives the transition to the next; what
  an end has received its peer has sent, and what was acknowledged was received
  (`DialogOk`, `PairOk`); neither end is more than one key ahead (`AheadOk`); an end
  that has a key active has a peer that has sent its part, and waits with it while
  the peer may not have finished (`AgreeOk`); a packet under way says no more than its
  sender has done (`NetOk`). TLC
  checked `KeyIInv` on small instances before it was proved. The
  assumptions are `RekeyAssumption` (at least two ids besides 0; the code has 7) and
  `WindowAssumption`: the transition window, and a renegotiation period other than
  "never", are at least two handshake windows. The defaults are 3600, 3600 and 60
  seconds (options.c:877), which the client's command lines leave alone; a profile
  with `reneg-sec 0` is allowed. `PeersAgree` and `SendKeyKept` have the condition `NoStale`
  on the network: a control packet that arrives with the id of the present key is of
  that key. `tls_pre_decrypt` and the model take a packet by its id alone, and ids
  come round after `KeyIdMask` renegotiations (seven hours with the defaults); a
  packet that was delayed for so long would be counted to the wrong dialogue.
  `NoKeyMistaken` is model-checked only: it holds beyond the states of `KeyIInv`.
* `OpenVpnProcessProof`, second half: `RoutesTypes`, for any number of processes,
  `LoneClientNoLoop` (`RouteInv`) and `LoneClientRestores` (`Restored`) for one, any
  finite set of pushed routes and any commands that the kernel refuses, with the
  exceptions that the properties name. The first two
  hold for any table before. `AloneInv` says for each phase which commands may be left
  (`TodoOk`), that the gateway on the list is not the tunnel (`ListOk`), and that the
  host route is the next command or in the table before low, high or default point
  into the tunnel, unless it was refused (`WayOk`). `HomeOk` names the two entries that may differ from the
  old table other than by pointing into the tunnel, the host route and the default
  route, and says that the command that mends each is still to come while routes are
  taken away, or the destination spoiled. The conditions are `Clients = {p}`, since both properties are false of
  two processes with one table (route.c:1125), `OwnNets` (the server pushes no route
  for its own host, for the default route or for one of its halves), and for
  `LoneClientRestores` `CleanTable` (the user had routed none of the destinations the
  client routes, but for the default route): netlink's replace flag overwrites such a
  route and nothing remembers it. The run's instance satisfies all three. The
  assumption is `RoutesAssumption`.

Only model-checked: `NoKeyMistaken`, the properties of the three runs that expect a
violation, and the liveness properties, since the prover has no rules for
fairness (`CallsReturn`, `ExitNoticed`, `WaitEnds`, `CommandsEnd`, `LoginConsumed`,
`KillTakesEffect`, `AllDelivered`, `AllAcknowledged`, `NotifyingEnds`, `Settles`,
`TermIsObeyed`).

## Not modelled, and the plan

**The client.** Log texts, JNI conversions, the dead GUI handler (handlers.rs) and
build scripts have no behaviour to check. Abstracted: command lines and paths, what
`save_config` rewrites in the text of the profile, the line scanner of `run_ovpn`
(challenge, portal or panic), and failures of the file system under the pid file. Left out:
data races on `static mut APP_INSTANCE` and on the reference counts of the `Rc`s that
cross threads, a runtime dropped inside one of its own tasks, and port 35001 taken by
another instance.

**OpenVPN.** Of about 127,000 lines most cannot be reached by this client or have no
state that a model could say something about: the server (multi.c, mroute.c, mtcp.c,
mudp.c, pool.c, pf.c), the management interface (manage.c, never enabled by the
client), platforms other than Linux (win32.c, most of tun.c), the option tables
(options.c), cryptographic libraries (crypto_*.c, ssl_openssl.c, ssl_mbedtls.c),
plugins, proxies and tests. `run_ovpn` and `connect_ovpn` pass `--proto udp` and a
numeric `--remote`, so the stream framing and the name resolution of socket.c are
not reached either. The AWS patch changes buffer sizes. Within the parts that are
modelled, the TLS library, the TM_UNTRUSTED and TM_LAME_DUCK sessions of a restarted
peer, `--replay-persist`, IPv6 routes and fragmentation are left out.

What could come next, in this order:

1. `LoginPipe`: an abstract specification of the way from POST to connection, which
   `Session` implements under a refinement mapping;
2. `FfiLifecycle`: init, cleanup and a second init, with the old server's thread;
3. `AuthScan`: the line scanner of `run_ovpn` against a reference definition.
