--------------------------- MODULE OpenVpnProcess ---------------------------
(***************************************************************************)
(* The openvpn process that connect_ovpn starts (cmd.rs), in client mode:  *)
(* the restart loop of openvpn_main, the event loop of one tunnel, the one *)
(* slot in which a signal waits, and the login secret.                     *)
(*                                                                         *)
(* connect_ovpn passes --auth-nocache, --auth-retry none, --inactive, the  *)
(* file with the SAML answer as --auth-user-pass and its removal as        *)
(* --route-up.  The management interface is off.  A signal handler writes  *)
(* the slot at any moment; the event loop looks at the slot between its    *)
(* phases, and its own soft signals are written to the same slot.          *)
(* A server that asks a further question (AUTH_FAILED,CRV1) has it put to  *)
(* the user on the console.                                                *)
(***************************************************************************)
EXTENDS Naturals

CONSTANTS
  Signals,     \* the signals that may come from outside
  MaxSignals,  \* bound: how many of them
  Faults,      \* what the server and the network may do to a connection
  MaxFaults,   \* bound: how many of them
  ExitNotify,  \* --explicit-exit-notify n, 0 when it is not set
  Tokens       \* may the server push an auth-token? a subset of BOOLEAN

ASSUME OpenVpnAssumption ==
  /\ Signals \subseteq {"TERM", "INT", "HUP", "USR1", "USR2"}
  /\ MaxSignals \in Nat
  /\ Faults \subseteq {"tls-error", "no-push-reply", "ping-restart", "restart",
                       "renegotiate", "auth-failed", "halt", "inactive",
                       "push-failed", "remote-exit", "server-poll", "unreachable"}
  /\ MaxFaults \in Nat
  /\ ExitNotify \in Nat
  /\ Tokens \subseteq BOOLEAN /\ Tokens # {}

VARIABLES
  pc,       \* where the process is
  sig,      \* c->sig->signal_received, "none" for 0
  hard,     \* c->sig->source is SIG_SOURCE_HARD
  stage,    \* of the tunnel: "down", "hello", "auth", "pull", "up"
  file,     \* does the --auth-user-pass file exist?
  cached,   \* auth_user_pass: "nothing", the SAML "answer", a typed "response"
  token,    \* auth_token.defined
  challenge,\* auth_challenge: the server's question is remembered
  notify,   \* the exit notification: 0, the seconds waited + 1, or Expired
  sent,     \* how often key_method_2_write sent the SAML answer
  wasUp,    \* history: the tunnel was up once
  asked,    \* history: the user asked the process to end
  lost,     \* history: the last request to end was lost
  signals,  \* how many signals came from outside
  faults    \* how many faults happened

secrets == <<file, cached, token, challenge, sent, wasUp>>
slot    == <<sig, hard>>
history == <<asked, lost, signals, faults>>
vars    == <<pc, slot, stage, secrets, notify, history>>

\* process_io, and the phases of pre_select in their order.
LoopPhases == {"timers", "ping", "tls", "control", "check", "io", "recheck"}
InitPhases == {"query", "reset", "pause", "init"}
PCs == InitPhases \cup LoopPhases
         \cup {"ready", "console", "close", "closed", "unwound", "exited"}
\* The notification is over: its interval is cleared, its start still known.
Expired == ExitNotify + 2

SigValues == {"none", "TERM", "INT", "HUP", "USR1", "USR2"}

Init ==
  /\ pc = "query" /\ sig = "none" /\ hard = FALSE /\ stage = "down"
  /\ file = TRUE /\ cached = "nothing" /\ token = FALSE /\ challenge = FALSE /\ sent = 0
  /\ wasUp = FALSE /\ notify = 0
  /\ asked = FALSE /\ lost = FALSE /\ signals = 0 /\ faults = 0

------------------------------------------------------------------------------
(* Signals *)

EndSignals == {"TERM", "INT"}
\* The slot holds a request to end.
EndWaits == sig \in EndSignals

\* The event loop is waiting for the exit notification to end.
Notifies == notify \in 1 .. ExitNotify + 1 /\ stage # "down" /\ pc # "close"

\* pre_init_signal_catch is in force: before the tunnel is initialised, the
\* console query of init_query_passwords included.
PreInit == pc \in InitPhases \/ (pc = "console" /\ stage = "down")

\* signal_handler writes the slot, whatever waits there.  A request to end is
\* lost when no notification answers it yet.
Signal(s) ==
  /\ pc # "exited"
  /\ signals < MaxSignals
  /\ PreInit => s \in EndSignals
  /\ sig' = s /\ hard' = TRUE
  /\ asked' = (asked \/ s \in EndSignals)
  /\ lost' = (s \notin EndSignals /\ (lost \/ (EndWaits /\ ~ Notifies)))
  /\ signals' = signals + 1
  /\ UNCHANGED <<pc, stage, secrets, notify, faults>>

\* register_signal does not overwrite a SIGTERM that waits.
Registered(s) == IF sig = "TERM" THEN sig ELSE s

\* A fault raises its soft signal: most are written to the slot directly.
SoftSignal(f) ==
  CASE f \in {"no-push-reply", "ping-restart", "restart"} -> "USR1"
    [] f \in {"tls-error", "push-failed", "server-poll", "unreachable"}
                                                          -> Registered("USR1")
    [] f = "inactive"                                     -> Registered("TERM")
    [] f \in {"halt", "remote-exit"}                      -> "TERM"
    [] f = "auth-failed"                                  -> IF token THEN "USR1" ELSE "TERM"

\* The phase ends, and with a signal in the slot so does pre_select.
Proceed(next) == pc' = IF sig' = "none" THEN next ELSE "check"

Happens(f) == f \in Faults /\ faults < MaxFaults /\ faults' = faults + 1

\* The soft restarts that go over a request to end: those written directly,
\* and over a SIGINT, which register_signal does not spare, all of them.
Overwrites(f) ==
  /\ EndWaits /\ ~ Notifies
  /\ \/ f \in {"no-push-reply", "ping-restart", "restart"}
     \/ f = "auth-failed" /\ token
     \/ f \in {"tls-error", "push-failed", "server-poll", "unreachable"} /\ sig = "INT"

Raise(f) ==
  /\ Happens(f)
  /\ sig' = SoftSignal(f) /\ UNCHANGED hard
  /\ lost' = (SoftSignal(f) # "TERM" /\ (lost \/ Overwrites(f)))

Quiet == UNCHANGED <<slot, faults, lost>>

------------------------------------------------------------------------------
(* The outer loops *)

Die == pc' = "exited" /\ stage' = "down"

\* options_postprocess and init_query_passwords, at the start and again after
\* each SIGHUP: a secret file that is gone is fatal, needed or not.  The file is
\* read when nothing is remembered, unless the server has a question.
QueryPasswords ==
  /\ pc = "query"
  /\ \/ ~ file /\ Die /\ UNCHANGED cached
     \/ /\ file /\ (token \/ cached # "nothing")
        /\ pc' = "reset"
        /\ UNCHANGED <<stage, cached>>
     \/ /\ file /\ ~ token /\ cached = "nothing"
        /\ IF challenge THEN pc' = "console" /\ UNCHANGED cached
                        ELSE pc' = "reset" /\ cached' = "answer"
        /\ UNCHANGED stage
  /\ UNCHANGED <<slot, file, token, challenge, sent, wasUp, notify, history>>

\* Mutant: the exit notification of the last instance goes on.
ResetSignalNotifies ==
  /\ pc = "reset"
  /\ pc' = "pause"
  /\ sig' = "none" /\ hard' = FALSE
  /\ lost' = (lost \/ EndWaits)
  /\ UNCHANGED <<stage, secrets, notify, asked, signals, faults>>

\* init_instance: the slot is emptied, and the new context has no notification.
ResetSignal ==
  /\ pc = "reset"
  /\ pc' = "pause"
  /\ sig' = "none" /\ hard' = FALSE
  /\ notify' = 0
  /\ lost' = (lost \/ EndWaits)
  /\ UNCHANGED <<stage, secrets, asked, signals, faults>>

\* Mutant: the slot is emptied after the pause.
InitialiseResets ==
  /\ \/ /\ pc = "pause" /\ pc' = "init"
        /\ sig' = "none" /\ hard' = FALSE
        /\ UNCHANGED stage
     \/ /\ pc = "init"
        /\ IF sig = "none" THEN pc' = "ready" /\ stage' = "hello"
                           ELSE pc' = "close" /\ UNCHANGED stage
        /\ UNCHANGED slot
     \/ /\ pc = "ready"
        /\ IF sig = "none" THEN pc' = "timers" /\ UNCHANGED stage
                           ELSE pc' = "closed" /\ stage' = "down"
        /\ UNCHANGED slot
  /\ UNCHANGED <<secrets, notify, history>>

\* do_startup_pause, the rest of init_instance, and the last look at the slot
\* in tunnel_point_to_point: a signal aborts each.
Initialise ==
  /\ \/ /\ pc = "pause"
        /\ pc' = IF sig = "none" THEN "init" ELSE "close"
        /\ UNCHANGED stage
     \/ /\ pc = "init"
        /\ IF sig = "none" THEN pc' = "ready" /\ stage' = "hello"
                           ELSE pc' = "close" /\ UNCHANGED stage
     \/ /\ pc = "ready"
        /\ IF sig = "none" THEN pc' = "timers" /\ UNCHANGED stage
                           ELSE pc' = "closed" /\ stage' = "down"
  /\ UNCHANGED <<slot, secrets, notify, history>>

CloseInstance ==
  /\ pc = "close"
  /\ pc' = "closed" /\ stage' = "down"
  /\ UNCHANGED <<slot, secrets, notify, history>>

\* The conditions of the two loops of openvpn_main, read one after the other.
Repeat ==
  /\ \/ pc = "closed"  /\ pc' = IF sig = "USR1" THEN "reset" ELSE "unwound"
     \/ pc = "unwound" /\ pc' = IF sig = "HUP" THEN "query" ELSE "exited"
  /\ UNCHANGED <<slot, stage, secrets, notify, history>>

------------------------------------------------------------------------------
(* The event loop *)

Timers ==
  /\ pc = "timers"
  /\ \/ Quiet
     \/ stage = "pull" /\ Raise("no-push-reply")
     \/ stage = "up" /\ Raise("inactive")
  /\ Proceed("ping")
  /\ UNCHANGED <<stage, secrets, notify, asked, signals>>

\* Mutant: the notification starts over.
NotifiedAgain ==
  /\ notify > 0
  /\ notify' = IF notify > ExitNotify THEN 1 ELSE notify + 1
  /\ UNCHANGED <<slot, faults, lost>>

\* process_explicit_exit_notification_timer_wakeup, once a second.
Notified ==
  /\ notify \in 1 .. ExitNotify + 1
  /\ IF notify > ExitNotify THEN sig' = "TERM" /\ notify' = Expired /\ UNCHANGED hard
                            ELSE notify' = notify + 1 /\ UNCHANGED slot
  /\ UNCHANGED <<faults, lost>>

\* check_ping_restart, the server poll timeout, then the exit notification.
PingAndNotify ==
  /\ pc = "ping"
  /\ \/ Quiet /\ UNCHANGED notify
     \/ stage # "down" /\ Raise("ping-restart") /\ UNCHANGED notify
     \/ stage = "hello" /\ Raise("server-poll") /\ UNCHANGED notify
     \/ Notified
  /\ Proceed("tls")
  /\ UNCHANGED <<stage, secrets, asked, signals>>

\* Mutant: the secret is kept after it is sent.
WriteAuthCaches ==
  IF token \/ cached # "nothing" \/ (file /\ ~ challenge)
  THEN /\ sent' = IF token \/ cached = "response" THEN sent ELSE sent + 1
       /\ cached' = IF ~ token /\ cached = "nothing" THEN "answer" ELSE cached
       /\ Proceed("control")
  ELSE /\ UNCHANGED <<sent, cached>>
       /\ pc' = IF challenge THEN "console" ELSE "exited"

\* Mutant: the token is not preferred to the secret.
WriteAuthNoToken ==
  IF token \/ cached # "nothing" \/ (file /\ ~ challenge)
  THEN /\ sent' = IF cached = "response" THEN sent ELSE sent + 1
       /\ cached' = "nothing"
       /\ Proceed("control")
  ELSE /\ UNCHANGED <<sent, cached>>
       /\ pc' = IF challenge THEN "console" ELSE "exited"

\* key_method_2_write: when nothing is remembered, auth_user_pass_setup puts
\* the server's question to the user, or reads the file again; the token goes
\* before the secret; --auth-nocache forgets the secret once it is sent.
WriteAuth ==
  IF token \/ cached # "nothing" \/ (file /\ ~ challenge)
  THEN /\ sent' = IF token \/ cached = "response" THEN sent ELSE sent + 1
       /\ cached' = "nothing"
       /\ Proceed("control")
  ELSE /\ UNCHANGED <<sent, cached>>
       /\ pc' = IF challenge THEN "console" ELSE "exited"

Tls ==
  /\ pc = "tls"
  /\ \/ /\ Quiet \/ (stage # "up" /\ Raise("tls-error"))
        /\ Proceed("control")
        /\ UNCHANGED <<stage, sent, cached>>
     \/ /\ stage = "hello"
        /\ Quiet
        /\ WriteAuth
        /\ stage' = CASE pc' = "exited"  -> "down"
                      [] pc' = "console" -> stage
                      [] OTHER           -> "auth"
     \/ /\ stage = "auth"
        /\ Quiet
        /\ Proceed("control")
        /\ stage' = "pull"
        /\ UNCHANGED <<sent, cached>>
     \/ /\ stage = "up"
        /\ Happens("renegotiate")
        /\ UNCHANGED <<slot, lost>>
        /\ WriteAuth
        /\ stage' = IF pc' = "exited" THEN "down" ELSE stage
  /\ UNCHANGED <<file, token, challenge, wasUp, notify, asked, signals>>

\* get_console_input: without a terminal, or when it cannot be read, the
\* process dies; else it goes on once the user has answered, where it had
\* stopped.  Meanwhile it looks at no signal.
Console ==
  /\ pc = "console"
  /\ UNCHANGED <<slot, file, token, challenge, sent, wasUp, notify, history>>
  /\ \/ Die /\ UNCHANGED cached
     \/ /\ stage = "down"
        /\ cached' = "response"
        /\ pc' = "reset"
        /\ UNCHANGED stage
     \/ /\ stage # "down"
        /\ Proceed("control")
        /\ stage' = IF stage = "hello" THEN "auth" ELSE stage
        /\ UNCHANGED cached

\* Mutant: do_up_ran survives a restart.
PushReplyOnce ==
  /\ stage = "pull" /\ ~ wasUp
  /\ stage' = "up" /\ wasUp' = TRUE
  /\ file' = FALSE
  /\ \E t \in Tokens : token' = (token \/ t)
  /\ Quiet
  /\ UNCHANGED <<cached, challenge, sent>>

\* PUSH_REPLY: do_up opens the tunnel, and --route-up removes the file.
PushReply ==
  /\ stage = "pull"
  /\ stage' = "up" /\ wasUp' = TRUE
  /\ file' = FALSE
  /\ \E t \in Tokens : token' = (token \/ t)
  /\ Quiet
  /\ UNCHANGED <<cached, challenge, sent>>

\* AUTH_FAILED: the token is dropped, if there is one, and the question of an
\* AUTH_FAILED,CRV1 remembered.
AuthFailed ==
  /\ stage \in {"pull", "up"}
  /\ Raise("auth-failed")
  /\ token' = FALSE
  /\ challenge' \in {challenge, TRUE}
  /\ UNCHANGED <<stage, file, cached, sent, wasUp>>

\* RESTART and HALT purge the secret and the question, unless told not to.
ServerSignal ==
  /\ stage \in {"pull", "up"}
  /\ Raise("restart") \/ Raise("halt")
  /\ \/ cached' = "nothing" /\ challenge' = FALSE
     \/ UNCHANGED <<cached, challenge>>
  /\ UNCHANGED <<stage, file, token, sent, wasUp>>

Control ==
  /\ pc = "control"
  /\ \/ Quiet /\ UNCHANGED <<stage, secrets>>
     \/ PushReply
     \/ stage = "pull" /\ Raise("push-failed") /\ UNCHANGED <<stage, secrets>>
     \/ AuthFailed
     \/ ServerSignal
  /\ pc' = "check"
  /\ UNCHANGED <<notify, asked, signals>>

\* Mutant: a restart signal is obeyed during the exit notification.
ProcessSignalRestarts ==
  LET restart == sig \in {"USR1", "HUP"}
      leave   == pc' = "close" /\ UNCHANGED <<hard, notify>>
      stay    == pc' = "timers" /\ sig' = "none" /\ hard' = FALSE
  IN  \/ restart /\ leave /\ UNCHANGED sig
      \/ EndWaits /\ ExitNotify > 0 /\ notify = 0 /\ stay /\ notify' = 1
      \/ EndWaits /\ ~ (ExitNotify > 0 /\ notify = 0) /\ leave /\ UNCHANGED sig
      \/ sig = "USR2" /\ stay /\ UNCHANGED notify

\* process_signal, when the slot is not empty: a SIGUSR2 prints the statistics.
ProcessSignal ==
  LET restart   == sig \in {"USR1", "HUP"}
      notifying == notify \in 1 .. ExitNotify + 1
      leave     == pc' = "close" /\ UNCHANGED <<hard, notify>>
      stay      == pc' = "timers" /\ sig' = "none" /\ hard' = FALSE
  IN  \/ restart /\ notifying /\ hard /\ stay /\ UNCHANGED notify
      \/ restart /\ notifying /\ ~ hard /\ sig' = "TERM" /\ leave
      \/ restart /\ ~ notifying /\ leave /\ UNCHANGED sig
      \/ EndWaits /\ ExitNotify > 0 /\ notify = 0 /\ stay /\ notify' = 1
      \/ EndWaits /\ ~ (ExitNotify > 0 /\ notify = 0) /\ leave /\ UNCHANGED sig
      \/ sig = "USR2" /\ stay /\ UNCHANGED notify

\* P2P_CHECK_SIG, after pre_select and io_wait and again after process_io.
CheckSig ==
  /\ pc \in {"check", "recheck"}
  /\ IF sig = "none"
     THEN /\ pc' \in IF pc = "check" THEN {"io", "timers"} ELSE {"timers"}
          /\ UNCHANGED <<slot, notify>>
     ELSE ProcessSignal
  /\ UNCHANGED <<stage, secrets, history>>

\* process_io: OCC_EXIT is the one packet that raises a signal, and an
\* unreachable network does before the server has answered.
ProcessIo ==
  /\ pc = "io"
  /\ \/ Quiet
     \/ stage = "up" /\ Raise("remote-exit")
     \/ stage = "hello" /\ Raise("unreachable")
  /\ pc' = "recheck"
  /\ UNCHANGED <<stage, secrets, notify, asked, signals>>

\* The task that runs connect_ovpn is dropped: its TempDir goes, with the file.
\* The process, which is root's, goes on.
Abandon ==
  /\ pc # "exited" /\ file
  /\ file' = FALSE
  /\ UNCHANGED <<pc, slot, stage, cached, token, challenge, sent, wasUp, notify, history>>

Step == \/ QueryPasswords \/ ResetSignal \/ Initialise \/ CloseInstance \/ Repeat
        \/ Timers \/ PingAndNotify \/ Tls \/ Control \/ CheckSig \/ ProcessIo

Next == Step \/ Console \/ Abandon \/ \E s \in Signals : Signal(s)

Spec == Init /\ [][Next]_vars

------------------------------------------------------------------------------
(* Fairness: the process runs, an answer the server keeps sending is read  *)
(* in the end, and time passes.  The user at the console may never answer. *)

FairSpec ==
  /\ Spec
  /\ WF_vars(Step)
  /\ SF_vars(Tls /\ stage \in {"hello", "auth"} /\ (stage' # stage \/ pc' = "console"))
  /\ SF_vars(Control /\ stage' # stage)
  /\ SF_vars(PingAndNotify /\ notify' # notify)

------------------------------------------------------------------------------
(* Properties *)

(* Every variable has its type; the exit notification never waits longer   *)
(* than it was told to, and none is under way when an instance starts.     *)
TypeOK ==
  /\ pc \in PCs /\ sig \in SigValues /\ hard \in BOOLEAN
  /\ stage \in {"down", "hello", "auth", "pull", "up"}
  /\ file \in BOOLEAN /\ cached \in {"nothing", "answer", "response"}
  /\ token \in BOOLEAN /\ challenge \in BOOLEAN
  /\ sent \in Nat /\ wasUp \in BOOLEAN
  /\ notify \in 0 .. Expired
  /\ pc \in {"pause", "init", "ready"} => notify = 0
  /\ asked \in BOOLEAN /\ lost \in BOOLEAN /\ signals \in 0 .. MaxSignals /\ faults \in 0 .. MaxFaults

(* The SAML answer does not outlive the login: once the tunnel was up it   *)
(* is neither in the file nor in the memory of the process, whatever       *)
(* restarted, was renegotiated or purged in between.                       *)
SecretForgotten == wasUp => ~ file /\ cached # "answer"

(* The SAML answer is good for one login: after the tunnel was up it is    *)
(* never sent again; a restart or a renegotiation sends the token that the *)
(* server pushed, or what the user types, or the process ends.             *)
SecretNotResent == [][wasUp => sent' = sent]_vars

(* From the first SIGTERM of an exit with notification on, neither a soft  *)
(* restart of the event loop nor a SIGHUP or SIGUSR1 makes the process     *)
(* restart (ignore_restart_signals), unless the SIGTERM is lost: once the  *)
(* notification has expired, or is cut short, the SIGTERM that ends the    *)
(* process is in the slot, and a late SIGHUP, SIGUSR1 or SIGUSR2 can take  *)
(* its place.                                                              *)
NoRestartWhileExiting ==
  [][notify > 0 /\ pc \in {"closed", "unwound"}
       => pc' \in {"closed", "unwound", "exited"} \/ lost]_vars

(* The exit notification ends the process, although every restart signal   *)
(* empties or rewrites the slot, unless its SIGTERM is lost to such a late *)
(* signal or the process waits at the console.                             *)
NotifyingEnds == notify > 0 ~> pc \in {"exited", "console"} \/ lost

(* With bounded faults and a server that answers, the process comes to     *)
(* rest: it is up for good, it has exited, or it waits at the console for  *)
(* the answer to a question of the server.  It does not wait for ever, or  *)
(* restart for ever, with neither a secret nor a token.                    *)
Settles == <>(\/ pc = "exited"
              \/ [](stage = "up" /\ pc # "console")
              \/ [](pc = "console"))

(* "Causes OpenVPN to exit gracefully" (signals.rst): the SIGTERM that     *)
(* kill_openvpn sends, or a SIGINT, ends the process, unless it is lost    *)
(* from the slot - emptied by init_instance, or overwritten before it is   *)
(* looked at by a SIGHUP, SIGUSR1 or SIGUSR2, by a soft restart that is    *)
(* written directly (ping.c, push.c), or, a SIGINT, by any soft            *)
(* restart - or the process waits at the console, where it looks at no     *)
(* signal.  A later request counts as a new one.                           *)
TermIsObeyed == asked ~> pc \in {"exited", "console"} \/ lost

\* The invariant of the process: types, no notification before the tunnel is
\* initialised, and a SAML response that key_method_2_write has purged.
SecretInv == TypeOK /\ SecretForgotten

=============================================================================
