------------------------ MODULE OpenVpnProcessProof ------------------------
(***************************************************************************)
(* Proofs about an OpenVPN process: OpenVpnProcess, for any number of      *)
(* signals and faults and any length of the exit notification, and Routes, *)
(* for any set of pushed routes.  The two modules share no state: each     *)
(* half cites only the definitions and the assumption of its own.          *)
(***************************************************************************)
EXTENDS OpenVpnProcess, Routes, FiniteSetTheorems, SequenceTheorems, TLAPS

Stages == {"down", "hello", "auth", "pull", "up"}

\* The types, in three parts: places, Booleans, numbers.
PlaceType ==
  /\ pc \in PCs /\ sig \in SigValues /\ stage \in Stages
  /\ cached \in {"nothing", "answer", "response"}

FlagType ==
  /\ hard \in BOOLEAN /\ file \in BOOLEAN /\ token \in BOOLEAN /\ challenge \in BOOLEAN
  /\ wasUp \in BOOLEAN /\ asked \in BOOLEAN /\ lost \in BOOLEAN

NumberType ==
  /\ sent \in Nat /\ notify \in 0 .. Expired
  /\ pc \in {"pause", "init", "ready"} => notify = 0
  /\ signals \in 0 .. MaxSignals /\ faults \in 0 .. MaxFaults

\* The three parts are the type invariant.
LEMMA TypeParts == TypeOK <=> PlaceType /\ FlagType /\ NumberType
BY Zenon DEF TypeOK, PlaceType, FlagType, NumberType, Stages

\* The faults that raise a signal.
SignalFaults == {"tls-error", "no-push-reply", "ping-restart", "restart", "auth-failed",
                 "halt", "inactive", "push-failed", "remote-exit", "server-poll",
                 "unreachable"}

\* A fault raises SIGUSR1 or SIGTERM.
LEMMA SoftIsKnown ==
  ASSUME NEW f \in SignalFaults
  PROVE  SoftSignal(f) \in {"USR1", "TERM"}
BY SMT DEF SignalFaults, SoftSignal, Registered

\* A request to end waits in the slot, or its loss is recorded.
Leaving == EndWaits \/ lost

\* A soft signal that takes the place of a request to end overwrites it.
LEMMA SoftOverwrites ==
  ASSUME NEW f \in SignalFaults, EndWaits, ~ Notifies, SoftSignal(f) # "TERM"
  PROVE  Overwrites(f)
<1>1. CASE f \in {"no-push-reply", "ping-restart", "restart"}
  BY <1>1, Zenon DEF Overwrites
<1>2. CASE f \in {"tls-error", "push-failed", "server-poll", "unreachable"}
  <2>1. SoftSignal(f) = Registered("USR1") BY <1>2, SMT DEF SoftSignal
  <2>2. sig # "TERM" BY <2>1, Zenon DEF Registered
  <2>3. sig = "INT" BY <2>2, Zenon DEF EndWaits, EndSignals
  <2>4. QED BY <1>2, <2>3, Zenon DEF Overwrites
<1>3. CASE f = "auth-failed"
  <2>1. token BY <1>3, SMT DEF SoftSignal
  <2>2. QED BY <1>3, <2>1, Zenon DEF Overwrites
<1>4. CASE f \in {"halt", "inactive", "remote-exit"}
  <2>1. SoftSignal(f) = "TERM" BY <1>4, SMT DEF SoftSignal, Registered
  <2>2. QED BY <2>1
<1>5. QED BY <1>1, <1>2, <1>3, <1>4 DEF SignalFaults

\* What a raised fault does.
LEMMA RaiseEffect ==
  ASSUME NEW f \in SignalFaults, Raise(f)
  PROVE  /\ sig' \in {"USR1", "TERM"} /\ hard' = hard
         /\ faults < MaxFaults /\ faults' = faults + 1
         /\ lost' \in BOOLEAN
         /\ Leaving /\ ~ Notifies => sig' = "TERM" \/ lost'
<1>1. /\ sig' \in {"USR1", "TERM"} /\ hard' = hard
      /\ faults < MaxFaults /\ faults' = faults + 1
      /\ lost' \in BOOLEAN
  BY SoftIsKnown, Zenon DEF Raise, Happens
<1>2. Leaving /\ ~ Notifies => sig' = "TERM" \/ lost'
  BY SoftOverwrites, Zenon DEF Raise, Leaving
<1>3. QED BY <1>1, <1>2

\* What a phase of the event loop does to slot and counters: nothing, or a fault
\* raises its signal.
Disturbed ==
  \/ UNCHANGED <<sig, hard, faults, lost>>
  \/ /\ sig' \in {"USR1", "TERM"} /\ hard' = hard
     /\ faults < MaxFaults /\ faults' = faults + 1
     /\ lost' \in BOOLEAN
     /\ Leaving /\ ~ Notifies => sig' = "TERM" \/ lost'

\* Both alternatives of a phase, nothing and a raised fault, are such effects.
LEMMA RaiseDisturbs ==
  /\ Quiet => Disturbed
  /\ \A f \in SignalFaults : Raise(f) => Disturbed
<1>1. Quiet => Disturbed BY Zenon DEF Quiet, slot, Disturbed
<1>2. \A f \in SignalFaults : Raise(f) => Disturbed BY RaiseEffect, Zenon DEF Disturbed
<1>3. QED BY <1>1, <1>2

\* What each phase does, without its reasons.
LEMMA TimersEffect ==
  ASSUME Timers
  PROVE  /\ pc = "timers" /\ Disturbed
         /\ pc' = IF sig' = "none" THEN "ping" ELSE "check"
         /\ UNCHANGED <<stage, file, cached, token, challenge, sent, wasUp, notify, asked, signals>>
<1>1. Disturbed BY RaiseDisturbs, SMT DEF Timers, SignalFaults
<1>2. QED BY <1>1 DEF Timers, Proceed, secrets

\* process_io raises at most a soft signal and goes on to the second check.
LEMMA IoEffect ==
  ASSUME ProcessIo
  PROVE  /\ pc = "io" /\ Disturbed /\ pc' = "recheck"
         /\ UNCHANGED <<stage, file, cached, token, challenge, sent, wasUp, notify, asked, signals>>
<1>1. Disturbed BY RaiseDisturbs, SMT DEF ProcessIo, SignalFaults
<1>2. QED BY <1>1 DEF ProcessIo, secrets

\* The ping phase raises a soft signal or advances the exit notification.
LEMMA PingEffect ==
  ASSUME PingAndNotify
  PROVE  /\ pc = "ping"
         /\ \/ Disturbed /\ notify' = notify
            \/ Notified
         /\ pc' = IF sig' = "none" THEN "tls" ELSE "check"
         /\ UNCHANGED <<stage, file, cached, token, challenge, sent, wasUp, asked, signals>>
<1>1. (Disturbed /\ notify' = notify) \/ Notified
  BY RaiseDisturbs, SMT DEF PingAndNotify, SignalFaults
<1>2. QED BY <1>1 DEF PingAndNotify, Proceed, secrets

\* A control message brings the tunnel up, or drops secret or token, or tells
\* of a question.
LEMMA ControlEffect ==
  ASSUME Control
  PROVE  /\ pc = "control" /\ pc' = "check"
         /\ Disturbed
         /\ UNCHANGED <<notify, asked, signals, sent>>
         /\ \/ UNCHANGED <<stage, file, cached, token, challenge, wasUp>>
            \/ PushReply
            \/ /\ UNCHANGED <<stage, file, wasUp>> /\ cached' \in {cached, "nothing"}
               /\ token' \in {token, FALSE} /\ challenge' \in {challenge, TRUE, FALSE}
<1>1. Disturbed
  <2>1. \/ Quiet \/ Raise("push-failed") \/ Raise("auth-failed")
        \/ Raise("restart") \/ Raise("halt")
    BY Zenon DEF Control, PushReply, AuthFailed, ServerSignal
  <2>2. QED BY <2>1, RaiseDisturbs DEF SignalFaults
<1>2. sent' = sent
  BY Zenon DEF Control, PushReply, AuthFailed, ServerSignal, secrets
<1>3. \/ UNCHANGED <<stage, file, cached, token, challenge, wasUp>>
      \/ PushReply
      \/ AuthFailed \/ ServerSignal
  BY Zenon DEF Control, secrets
<1>4. AuthFailed \/ ServerSignal =>
        /\ UNCHANGED <<stage, file, wasUp>> /\ cached' \in {cached, "nothing"}
        /\ token' \in {token, FALSE} /\ challenge' \in {challenge, TRUE, FALSE}
  BY Zenon DEF AuthFailed, ServerSignal
<1>5. QED BY <1>1, <1>2, <1>3, <1>4 DEF Control

\* key_method_2_write: the secret is forgotten, or the user asked when nothing
\* is remembered, or the process ends.
LEMMA WriteAuthEffect ==
  ASSUME WriteAuth
  PROVE  /\ pc' \in {"control", "check", "console", "exited"}
         /\ sent' = sent \/ sent' = sent + 1
         /\ cached' = "nothing" \/ (pc' = "exited" /\ cached' = cached)
         /\ PlaceType /\ ~ file /\ cached # "answer" => sent' = sent
<1> DEFINE Has == token \/ cached # "nothing" \/ (file /\ ~ challenge)
<1>1. CASE Has
  <2>1. /\ sent' = IF token \/ cached = "response" THEN sent ELSE sent + 1
        /\ cached' = "nothing"
        /\ pc' = IF sig' = "none" THEN "control" ELSE "check"
    BY <1>1, Zenon DEF WriteAuth, Proceed
  <2>2. pc' \in {"control", "check"} BY <2>1, Zenon
  <2>3. sent' = sent \/ sent' = sent + 1 BY <2>1, Zenon
  <2>4. ASSUME ~ file, cached # "answer", PlaceType PROVE sent' = sent
    <3>1. token \/ cached = "response" BY <1>1, <2>4 DEF PlaceType
    <3>2. QED BY <2>1, <3>1, Zenon
  <2>5. QED BY <2>1, <2>2, <2>3, <2>4, Zenon
<1>2. CASE ~ Has
  <2>1. UNCHANGED <<sent, cached>> /\ pc' = IF challenge THEN "console" ELSE "exited"
    BY <1>2, Zenon DEF WriteAuth
  <2>2. cached = "nothing" BY <1>2, Zenon
  <2>3. pc' \in {"console", "exited"} BY <2>1, Zenon
  <2>4. QED BY <2>1, <2>2, <2>3, Zenon
<1>3. QED BY <1>1, <1>2

\* The TLS phase advances the handshake; the secret changes in WriteAuth only.
LEMMA TlsEffect ==
  ASSUME Tls
  PROVE  /\ pc = "tls"
         /\ \/ Disturbed
            \/ /\ faults < MaxFaults /\ faults' = faults + 1
               /\ UNCHANGED <<sig, hard, lost>>
         /\ UNCHANGED <<file, token, challenge, wasUp, notify, asked, signals>>
         /\ pc' \in {"control", "check", "console", "exited"}
         /\ pc' = "exited" => stage' = "down"
         /\ \/ UNCHANGED <<stage, sent, cached>>
            \/ stage = "auth" /\ stage' = "pull" /\ UNCHANGED <<sent, cached>>
            \/ stage = "hello" /\ stage' \in {"hello", "auth", "down"} /\ WriteAuth
            \/ stage = "up" /\ stage' \in {"up", "down"} /\ WriteAuth
<1>1. CASE /\ Quiet \/ (stage # "up" /\ Raise("tls-error"))
           /\ Proceed("control")
           /\ UNCHANGED <<stage, sent, cached>>
  <2>1. Disturbed BY <1>1, RaiseDisturbs, SMT DEF SignalFaults
  <2>2. pc' \in {"control", "check"} BY <1>1, Zenon DEF Proceed
  <2>3. QED BY <1>1, <2>1, <2>2 DEF Tls
<1>2. CASE /\ stage = "hello" /\ Quiet /\ WriteAuth
           /\ stage' = CASE pc' = "exited"  -> "down"
                       [] pc' = "console" -> stage
                       [] OTHER           -> "auth"
  <2>1. Disturbed BY <1>2, RaiseDisturbs
  <2>2. stage' \in {"hello", "auth", "down"} /\ (pc' = "exited" => stage' = "down")
    BY <1>2, SMT
  <2>3. QED BY <1>2, <2>1, <2>2, WriteAuthEffect DEF Tls
<1>3. CASE /\ stage = "auth" /\ Quiet /\ Proceed("control")
           /\ stage' = "pull" /\ UNCHANGED <<sent, cached>>
  <2>1. Disturbed BY <1>3, RaiseDisturbs
  <2>2. pc' \in {"control", "check"} BY <1>3, Zenon DEF Proceed
  <2>3. QED BY <1>3, <2>1, <2>2 DEF Tls
<1>4. CASE /\ stage = "up" /\ Happens("renegotiate") /\ UNCHANGED <<slot, lost>>
           /\ WriteAuth
           /\ stage' = IF pc' = "exited" THEN "down" ELSE stage
  <2>1. faults < MaxFaults /\ faults' = faults + 1 /\ UNCHANGED <<sig, hard, lost>>
    BY <1>4 DEF Happens, slot
  <2>2. stage' \in {"up", "down"} /\ (pc' = "exited" => stage' = "down")
    BY <1>4, Zenon
  <2>3. QED BY <1>4, <2>1, <2>2, WriteAuthEffect DEF Tls
<1>5. QED BY <1>1, <1>2, <1>3, <1>4, Zenon DEF Tls

\* P2P_CHECK_SIG: on to the next phase, or process_signal.
LEMMA CheckEffect ==
  ASSUME CheckSig
  PROVE  /\ pc \in {"check", "recheck"}
         /\ UNCHANGED <<stage, file, cached, token, challenge, sent, wasUp, asked, lost, signals, faults>>
         /\ \/ sig = "none" /\ pc' \in {"io", "timers"} /\ UNCHANGED <<sig, hard, notify>>
            \/ sig # "none" /\ ProcessSignal
<1>1. sig = "none" => pc' \in {"io", "timers"} /\ UNCHANGED <<sig, hard, notify>>
  BY SMT DEF CheckSig, slot
<1>2. sig # "none" => ProcessSignal BY Zenon DEF CheckSig
<1>3. QED BY <1>1, <1>2 DEF CheckSig, secrets, history

\* process_signal: leave with a request to end or with a restart, or stay with
\* an empty slot, after a SIGUSR2 or with a notification under way.
LEMMA ProcessEffect ==
  ASSUME ProcessSignal
  PROVE  \/ /\ pc' = "close" /\ UNCHANGED <<hard, notify>>
            /\ \/ sig' = "TERM"
               \/ sig' = sig /\ EndWaits
               \/ sig' = sig /\ ~ EndWaits /\ notify \notin 1 .. ExitNotify + 1
         \/ /\ pc' = "timers" /\ sig' = "none" /\ hard' = FALSE
            /\ \/ notify \in 1 .. ExitNotify + 1 /\ notify' = notify
               \/ ExitNotify > 0 /\ notify = 0 /\ notify' = 1
               \/ ~ EndWaits /\ notify' = notify
<1>1. sig \in {"USR1", "HUP"} => ~ EndWaits BY DEF EndWaits, EndSignals
<1>2. sig = "USR2" => ~ EndWaits BY DEF EndWaits, EndSignals
<1>3. QED BY <1>1, <1>2, Zenon DEF ProcessSignal

\* A signal from outside.
LEMMA SignalEffect ==
  ASSUME NEW s \in Signals, Signal(s)
  PROVE  /\ sig' = s /\ s \in SigValues /\ hard' = TRUE
         /\ signals < MaxSignals /\ signals' = signals + 1
         /\ asked' \in BOOLEAN /\ lost' \in BOOLEAN
         /\ Leaving /\ ~ Notifies => Leaving'
         /\ UNCHANGED <<pc, stage, file, cached, token, challenge, sent, wasUp, notify, faults>>
<1>1. s \in SigValues BY OpenVpnAssumption DEF SigValues
<1>2. asked' \in BOOLEAN /\ lost' \in BOOLEAN BY Zenon DEF Signal
<1>3. Leaving /\ ~ Notifies => Leaving'
  <2>1. sig' = s /\ lost' = (s \notin EndSignals /\ (lost \/ (EndWaits /\ ~ Notifies)))
    BY Zenon DEF Signal
  <2>2. CASE s \in EndSignals BY <2>1, <2>2, Zenon DEF Leaving, EndWaits
  <2>3. CASE s \notin EndSignals BY <2>1, <2>3, Zenon DEF Leaving
  <2>4. QED BY <2>2, <2>3
<1>4. QED BY <1>1, <1>2, <1>3 DEF Signal, secrets

\* The console: the process dies, or goes on where it had stopped.
LEMMA ConsoleEffect ==
  ASSUME Console
  PROVE  /\ pc = "console"
         /\ \/ pc' = "exited" /\ stage' = "down" /\ cached' = cached
            \/ pc' = "reset" /\ stage = "down" /\ stage' = stage /\ cached' = "response"
            \/ pc' \in {"control", "check"} /\ stage' \in {"auth", stage} /\ cached' = cached
         /\ UNCHANGED <<sig, hard, file, token, challenge, sent, wasUp, notify,
                        asked, lost, signals, faults>>
<1>1. Proceed("control") => pc' \in {"control", "check"} BY Zenon DEF Proceed
<1>2. \/ pc' = "exited" /\ stage' = "down" /\ cached' = cached
      \/ pc' = "reset" /\ stage = "down" /\ stage' = stage /\ cached' = "response"
      \/ pc' \in {"control", "check"} /\ stage' \in {"auth", stage} /\ cached' = cached
  BY <1>1, Zenon DEF Console, Die
<1>3. QED BY <1>2 DEF Console, slot, history

\* The steps, by name.
Steps ==
  \/ QueryPasswords \/ ResetSignal \/ Initialise \/ CloseInstance \/ Repeat
  \/ Timers \/ PingAndNotify \/ Tls \/ Control \/ CheckSig \/ ProcessIo
  \/ Abandon \/ (\E s \in Signals : Signal(s)) \/ UNCHANGED vars
  \/ Console

\* Every step of the specification is one of these.
LEMMA StepCases == [Next]_vars => Steps
BY Zenon DEF Next, Step, Steps

-----------------------------------------------------------------------------
(* Types                                                                   *)

\* Steps keep the types of place, slot and stage.
LEMMA PlaceStep ==
  ASSUME PlaceType, Steps
  PROVE  PlaceType'
<1> USE DEF PlaceType, PCs, InitPhases, LoopPhases, SigValues, Stages
<1>1. CASE QueryPasswords BY <1>1, SMT DEF QueryPasswords, Die, slot
<1>2. CASE ResetSignal BY <1>2, SMT DEF ResetSignal, secrets
<1>3. CASE Initialise BY <1>3, SMT DEF Initialise, slot, secrets
<1>4. CASE CloseInstance BY <1>4, SMT DEF CloseInstance, slot, secrets
<1>5. CASE Repeat BY <1>5, SMT DEF Repeat, slot, secrets
<1>6. CASE Timers BY <1>6, TimersEffect, SMT DEF Disturbed
<1>7. CASE PingAndNotify
  <2>1. sig' \in SigValues BY <1>7, PingEffect, SMT DEF Disturbed, Notified, slot
  <2>2. QED BY <1>7, <2>1, PingEffect, SMT
<1>8. CASE Tls
  <2>1. sig' \in SigValues BY <1>8, TlsEffect, Zenon DEF Disturbed
  <2>2. pc' \in PCs BY <1>8, TlsEffect, Zenon
  <2>3. stage' \in Stages
    <3>1. \/ stage' = stage \/ stage' = "pull"
          \/ stage' \in {"hello", "auth", "down"} \/ stage' \in {"up", "down"}
      BY <1>8, TlsEffect, Zenon
    <3>2. QED BY <3>1
  <2>4. cached' = cached \/ cached' = "nothing" BY <1>8, TlsEffect, WriteAuthEffect, Zenon
  <2>5. QED BY <2>1, <2>2, <2>3, <2>4
<1>9. CASE Control
  <2>1. sig' \in SigValues BY <1>9, ControlEffect, Zenon DEF Disturbed
  <2>2. stage' = stage \/ stage' = "up" BY <1>9, ControlEffect, Zenon DEF PushReply
  <2>3. pc' = "check" BY <1>9, ControlEffect, Zenon
  <2>4. cached' = cached \/ cached' = "nothing"
    BY <1>9, ControlEffect, Zenon DEF PushReply
  <2>5. QED BY <2>1, <2>2, <2>3, <2>4
<1>10. CASE CheckSig
  <2>1. pc' \in {"io", "timers", "close"} /\ stage' = stage /\ cached' = cached
    BY <1>10, CheckEffect, ProcessEffect, Zenon
  <2>2. sig' = sig \/ sig' = "TERM" \/ sig' = "none"
    BY <1>10, CheckEffect, ProcessEffect, Zenon
  <2>3. QED BY <2>1, <2>2
<1>11. CASE ProcessIo BY <1>11, IoEffect, SMT DEF Disturbed
<1>12. CASE Abandon BY <1>12 DEF Abandon, slot
<1>13. CASE \E s \in Signals : Signal(s)
  <2>1. PICK s \in Signals : Signal(s) BY <1>13
  <2>2. sig' = s /\ s \in SigValues /\ UNCHANGED <<pc, stage, cached>>
    BY <2>1, SignalEffect, Zenon
  <2>3. QED BY <2>2
<1>14. CASE UNCHANGED vars BY <1>14 DEF vars, slot, secrets
<1>15. CASE Console BY <1>15, ConsoleEffect, SMT
<1> QED BY <1>1, <1>2, <1>3, <1>4, <1>5, <1>6, <1>7, <1>8, <1>9, <1>10, <1>11, <1>12,
           <1>13, <1>14, <1>15 DEF Steps

\* Steps keep the types of the Booleans.
LEMMA FlagStep ==
  ASSUME FlagType, Steps
  PROVE  FlagType'
<1> USE DEF FlagType
<1>1. CASE QueryPasswords BY <1>1, Zenon DEF QueryPasswords, slot, history
<1>2. CASE ResetSignal
  <2>1. lost' \in BOOLEAN BY <1>2, Zenon DEF ResetSignal
  <2>2. QED BY <1>2, <2>1, Zenon DEF ResetSignal, secrets
<1>3. CASE Initialise BY <1>3, Zenon DEF Initialise, slot, secrets, history
<1>4. CASE CloseInstance BY <1>4, Zenon DEF CloseInstance, slot, secrets, history
<1>5. CASE Repeat BY <1>5, Zenon DEF Repeat, slot, secrets, history
<1>6. CASE Timers BY <1>6, TimersEffect, Zenon DEF Disturbed
<1>7. CASE PingAndNotify
  <2>1. hard' = hard /\ lost' \in BOOLEAN
    BY <1>7, PingEffect, Zenon DEF Disturbed, Notified, slot
  <2>2. QED BY <1>7, <2>1, PingEffect, Zenon
<1>8. CASE Tls
  <2>1. hard' = hard /\ lost' \in BOOLEAN BY <1>8, TlsEffect, Zenon DEF Disturbed
  <2>2. QED BY <1>8, <2>1, TlsEffect, Zenon
<1>9. CASE Control
  <2>1. hard' = hard /\ lost' \in BOOLEAN BY <1>9, ControlEffect, Zenon DEF Disturbed
  <2>2. PushReply => file' = FALSE /\ wasUp' = TRUE /\ challenge' = challenge /\ token' \in BOOLEAN
    BY Zenon DEF PushReply
  <2>3. file' \in BOOLEAN /\ wasUp' \in BOOLEAN /\ challenge' \in BOOLEAN /\ token' \in BOOLEAN
    BY <1>9, <2>2, ControlEffect, Zenon
  <2>4. QED BY <1>9, <2>1, <2>3, ControlEffect, Zenon
<1>10. CASE CheckSig BY <1>10, CheckEffect, ProcessEffect, Zenon
<1>11. CASE ProcessIo BY <1>11, IoEffect, Zenon DEF Disturbed
<1>12. CASE Abandon BY <1>12, Zenon DEF Abandon, slot, history
<1>13. CASE \E s \in Signals : Signal(s) BY <1>13, SignalEffect, Zenon
<1>14. CASE UNCHANGED vars BY <1>14, Zenon DEF vars, slot, secrets, history
<1>15. CASE Console BY <1>15, ConsoleEffect, Zenon
<1> QED BY <1>1, <1>2, <1>3, <1>4, <1>5, <1>6, <1>7, <1>8, <1>9, <1>10, <1>11, <1>12,
           <1>13, <1>14, <1>15 DEF Steps

\* Steps keep the ranges of counters and notification.
LEMMA NumberStep ==
  ASSUME NumberType, Steps
  PROVE  NumberType'
<1> USE OpenVpnAssumption DEF NumberType, Expired
<1>1. CASE QueryPasswords BY <1>1, SMT DEF QueryPasswords, Die, history
<1>2. CASE ResetSignal BY <1>2, SMT DEF ResetSignal, secrets
<1>3. CASE Initialise BY <1>3, SMT DEF Initialise, secrets, history
<1>4. CASE CloseInstance BY <1>4, SMT DEF CloseInstance, secrets, history
<1>5. CASE Repeat BY <1>5, SMT DEF Repeat, secrets, history
<1>6. CASE Timers BY <1>6, TimersEffect, SMT DEF Disturbed
<1>7. CASE PingAndNotify
  <2>1. notify' \in 0 .. ExitNotify + 2 /\ faults' \in 0 .. MaxFaults
    BY <1>7, PingEffect, SMT DEF Disturbed, Notified
  <2>2. QED BY <1>7, <2>1, PingEffect, SMT
<1>8. CASE Tls
  <2>1. faults' \in 0 .. MaxFaults BY <1>8, TlsEffect, SMT DEF Disturbed
  <2>2. sent' \in Nat
    <3>1. sent' = sent \/ sent' = sent + 1 BY <1>8, TlsEffect, WriteAuthEffect, Zenon
    <3>2. QED BY <3>1
  <2>3. UNCHANGED <<notify, signals>> /\ pc' \notin {"pause", "init", "ready"}
    <3>1. UNCHANGED <<notify, signals>> /\ pc' \in {"control", "check", "console", "exited"}
      BY <1>8, TlsEffect, Zenon
    <3>2. QED BY <3>1
  <2>4. QED BY <2>1, <2>2, <2>3
<1>9. CASE Control
  <2>1. faults' \in 0 .. MaxFaults BY <1>9, ControlEffect, SMT DEF Disturbed
  <2>2. QED BY <1>9, <2>1, ControlEffect, SMT
<1>10. CASE CheckSig
  <2>1. UNCHANGED <<sent, signals, faults>> BY <1>10, CheckEffect, Zenon
  <2>2. pc' \in {"io", "timers", "close"} BY <1>10, CheckEffect, ProcessEffect, Zenon
  <2>3. notify' = notify \/ notify' = 1 BY <1>10, CheckEffect, ProcessEffect, Zenon
  <2>4. QED BY <2>1, <2>2, <2>3, SMT
<1>11. CASE ProcessIo BY <1>11, IoEffect, SMT DEF Disturbed
<1>12. CASE Abandon BY <1>12, SMT DEF Abandon, history
<1>13. CASE \E s \in Signals : Signal(s)
  <2>1. PICK s \in Signals : Signal(s) BY <1>13
  <2>2. /\ signals < MaxSignals /\ signals' = signals + 1
        /\ UNCHANGED <<pc, sent, notify, faults>>
    BY <2>1, SignalEffect, Zenon
  <2>3. QED BY <2>2, SMT
<1>14. CASE UNCHANGED vars BY <1>14, SMT DEF vars, secrets, history
<1>15. CASE Console
  <2>1. UNCHANGED <<sent, notify, signals, faults>> /\ pc' \in {"exited", "reset", "control", "check"}
    BY <1>15, ConsoleEffect, Zenon
  <2>2. QED BY <2>1
<1> QED BY <1>1, <1>2, <1>3, <1>4, <1>5, <1>6, <1>7, <1>8, <1>9, <1>10, <1>11, <1>12,
           <1>13, <1>14, <1>15 DEF Steps

-----------------------------------------------------------------------------
(* The tunnel is down between two instances, the secret is forgotten from  *)
(* the first key_method_2_write on, and so before the tunnel comes up.     *)

StageInv == pc \in InitPhases \cup {"closed", "unwound", "exited"} => stage = "down"

ForgetInv == stage \in {"auth", "pull", "up"} \/ pc = "console" => cached = "nothing"

\* Outside of the loop's phases there is no tunnel.
LEMMA StageStep ==
  ASSUME PlaceType, StageInv, Steps
  PROVE  StageInv'
<1> USE DEF StageInv, InitPhases
<1>1. CASE QueryPasswords BY <1>1, SMT DEF QueryPasswords, Die
<1>2. CASE ResetSignal BY <1>2, SMT DEF ResetSignal
<1>3. CASE Initialise BY <1>3, SMT DEF Initialise
<1>4. CASE CloseInstance BY <1>4, SMT DEF CloseInstance
<1>5. CASE Repeat BY <1>5, SMT DEF Repeat
<1>6. CASE Timers BY <1>6, TimersEffect, SMT
<1>7. CASE PingAndNotify BY <1>7, PingEffect, SMT
<1>8. CASE Tls
  <2>1. /\ pc' \in {"control", "check", "console", "exited"}
        /\ pc' = "exited" => stage' = "down"
    BY <1>8, TlsEffect, Zenon
  <2>2. QED BY <2>1
<1>9. CASE Control
  <2>1. pc' = "check" BY <1>9, ControlEffect, Zenon
  <2>2. QED BY <2>1
<1>10. CASE CheckSig
  <2>1. pc' \in {"io", "timers", "close"} BY <1>10, CheckEffect, ProcessEffect, Zenon
  <2>2. QED BY <2>1
<1>11. CASE ProcessIo BY <1>11, IoEffect, SMT
<1>12. CASE Abandon BY <1>12 DEF Abandon
<1>13. CASE \E s \in Signals : Signal(s)
  <2>1. UNCHANGED <<pc, stage>> BY <1>13, SignalEffect, Zenon
  <2>2. QED BY <2>1
<1>14. CASE UNCHANGED vars BY <1>14 DEF vars
<1>15. CASE Console BY <1>15, ConsoleEffect, SMT
<1> QED BY <1>1, <1>2, <1>3, <1>4, <1>5, <1>6, <1>7, <1>8, <1>9, <1>10, <1>11, <1>12,
           <1>13, <1>14, <1>15 DEF Steps

\* From the login on the process does not remember the secret.
LEMMA ForgetStep ==
  ASSUME PlaceType, StageInv, ForgetInv, Steps
  PROVE  ForgetInv'
<1> DEFINE Logged(st, p) == st \in {"auth", "pull", "up"} \/ p = "console"
<1>0. Logged(stage, pc) => cached = "nothing" BY DEF ForgetInv
<1>0a. SUFFICES Logged(stage', pc') => cached' = "nothing" BY DEF ForgetInv
<1>1. CASE QueryPasswords
  <2>1. stage' = "down" BY <1>1 DEF QueryPasswords, Die, StageInv, InitPhases
  <2>2. pc' = "console" => cached' = "nothing" BY <1>1, SMT DEF QueryPasswords, Die
  <2>3. QED BY <2>1, <2>2
<1>2. CASE ResetSignal BY <1>0, <1>2, SMT DEF ResetSignal, secrets
<1>3. CASE Initialise
  <2>1. stage' \in {stage, "hello", "down"} /\ pc' # "console" BY <1>3, SMT DEF Initialise
  <2>2. cached' = cached BY <1>3, Zenon DEF Initialise, secrets
  <2>3. Logged(stage', pc') => Logged(stage, pc) BY <2>1
  <2>4. QED BY <1>0, <2>2, <2>3, Zenon
<1>4. CASE CloseInstance BY <1>4 DEF CloseInstance
<1>5. CASE Repeat BY <1>0, <1>5, SMT DEF Repeat, secrets
<1>6. CASE Timers BY <1>0, <1>6, TimersEffect, SMT
<1>7. CASE PingAndNotify BY <1>0, <1>7, PingEffect, SMT
<1>8. CASE Tls
  <2>1. CASE stage' = stage /\ cached' = cached /\ sent' = sent
    <3>1. CASE pc' # "console" BY <1>0, <2>1, <3>1
    <3>2. CASE pc' = "console"
      <4>1. ~ Proceed("control") BY <3>2, SMT DEF Proceed
      <4>2. WriteAuth BY <1>8, <4>1, Zenon DEF Tls
      <4>3. QED BY <3>2, <4>2, WriteAuthEffect
    <3>3. QED BY <3>1, <3>2
  <2>2. CASE stage = "auth" /\ cached' = cached BY <1>0, <2>2
  <2>3. CASE WriteAuth
    <3>1. pc' = "exited" => ~ Logged(stage', pc') BY <1>8, TlsEffect
    <3>2. QED BY <2>3, <3>1, WriteAuthEffect, Zenon
  <2>4. QED BY <1>8, <2>1, <2>2, <2>3, TlsEffect, Zenon
<1>9. CASE Control
  <2>0. pc' # "console" BY <1>9, ControlEffect
  <2>1. CASE PushReply
    <3>1. Logged(stage, pc) /\ cached' = cached BY <2>1, Zenon DEF PushReply
    <3>2. QED BY <1>0, <3>1, Zenon
  <2>2. CASE stage' = stage /\ cached' \in {cached, "nothing"} BY <1>0, <2>0, <2>2, Zenon
  <2>3. QED BY <1>9, <2>1, <2>2, ControlEffect, Zenon
<1>10. CASE CheckSig
  <2>1. pc' \in {"io", "timers", "close"} /\ UNCHANGED <<stage, cached>>
    BY <1>10, CheckEffect, ProcessEffect, Zenon
  <2>2. QED BY <1>0, <2>1
<1>11. CASE ProcessIo BY <1>0, <1>11, IoEffect, SMT
<1>12. CASE Abandon BY <1>0, <1>12, Zenon DEF Abandon
<1>13. CASE \E s \in Signals : Signal(s) BY <1>0, <1>13, SignalEffect, Zenon
<1>14. CASE UNCHANGED vars BY <1>0, <1>14, Zenon DEF vars, secrets
<1>15. CASE Console BY <1>0, <1>15, ConsoleEffect, SMT
<1> QED BY <1>1, <1>2, <1>3, <1>4, <1>5, <1>6, <1>7, <1>8, <1>9, <1>10, <1>11, <1>12,
           <1>13, <1>14, <1>15 DEF Steps

\* Once the tunnel was up nothing brings the secret back: the file is gone, and
\* only the file fills the memory of the process.
LEMMA SecretStep ==
  ASSUME FlagType, ForgetInv, SecretForgotten, Steps
  PROVE  SecretForgotten'
<1> USE DEF SecretForgotten
<1>1. CASE QueryPasswords BY <1>1, Zenon DEF QueryPasswords
<1>2. CASE ResetSignal BY <1>2, Zenon DEF ResetSignal, secrets
<1>3. CASE Initialise BY <1>3, Zenon DEF Initialise, secrets
<1>4. CASE CloseInstance BY <1>4, Zenon DEF CloseInstance, secrets
<1>5. CASE Repeat BY <1>5, Zenon DEF Repeat, secrets
<1>6. CASE Timers BY <1>6, TimersEffect, Zenon
<1>7. CASE PingAndNotify BY <1>7, PingEffect, Zenon
<1>8. CASE Tls
  <2>1. UNCHANGED <<file, wasUp>> BY <1>8, TlsEffect, Zenon
  <2>2. cached' = cached \/ cached' = "nothing" BY <1>8, TlsEffect, WriteAuthEffect, Zenon
  <2>3. QED BY <2>1, <2>2
<1>9. CASE Control
  <2>1. CASE PushReply
    <3>1. stage = "pull" /\ cached' = cached /\ file' = FALSE BY <2>1, Zenon DEF PushReply
    <3>2. cached = "nothing" BY <3>1, Zenon DEF ForgetInv
    <3>3. QED BY <3>1, <3>2
  <2>2. CASE UNCHANGED <<file, wasUp>> /\ cached' \in {cached, "nothing"} BY <2>2
  <2>3. QED BY <1>9, <2>1, <2>2, ControlEffect, Zenon
<1>10. CASE CheckSig BY <1>10, CheckEffect, Zenon
<1>11. CASE ProcessIo BY <1>11, IoEffect, Zenon
<1>12. CASE Abandon BY <1>12, Zenon DEF Abandon
<1>13. CASE \E s \in Signals : Signal(s) BY <1>13, SignalEffect, Zenon
<1>14. CASE UNCHANGED vars BY <1>14, Zenon DEF vars, secrets
<1>15. CASE Console
  <2>1. UNCHANGED <<file, wasUp>> /\ (cached' = cached \/ cached' = "response")
    BY <1>15, ConsoleEffect, Zenon
  <2>2. QED BY <2>1
<1> QED BY <1>1, <1>2, <1>3, <1>4, <1>5, <1>6, <1>7, <1>8, <1>9, <1>10, <1>11, <1>12,
           <1>13, <1>14, <1>15 DEF Steps

\* Without file and memory no step sends the secret.
LEMMA ResentStep ==
  ASSUME PlaceType, SecretForgotten, Steps
  PROVE  wasUp => sent' = sent
<1> USE DEF SecretForgotten
<1>1. CASE QueryPasswords BY <1>1, Zenon DEF QueryPasswords
<1>2. CASE ResetSignal BY <1>2, Zenon DEF ResetSignal, secrets
<1>3. CASE Initialise BY <1>3, Zenon DEF Initialise, secrets
<1>4. CASE CloseInstance BY <1>4, Zenon DEF CloseInstance, secrets
<1>5. CASE Repeat BY <1>5, Zenon DEF Repeat, secrets
<1>6. CASE Timers BY <1>6, TimersEffect, Zenon
<1>7. CASE PingAndNotify BY <1>7, PingEffect, Zenon
<1>8. CASE Tls BY <1>8, TlsEffect, WriteAuthEffect, Zenon
<1>9. CASE Control BY <1>9, ControlEffect, Zenon
<1>10. CASE CheckSig BY <1>10, CheckEffect, Zenon
<1>11. CASE ProcessIo BY <1>11, IoEffect, Zenon
<1>12. CASE Abandon BY <1>12, Zenon DEF Abandon
<1>13. CASE \E s \in Signals : Signal(s) BY <1>13, SignalEffect, Zenon
<1>14. CASE UNCHANGED vars BY <1>14, Zenon DEF vars, secrets
<1>15. CASE Console BY <1>15, ConsoleEffect, Zenon
<1> QED BY <1>1, <1>2, <1>3, <1>4, <1>5, <1>6, <1>7, <1>8, <1>9, <1>10, <1>11, <1>12,
           <1>13, <1>14, <1>15 DEF Steps

-----------------------------------------------------------------------------
(* The exit: a notification that is over leaves the request to end in the  *)
(* slot, and so does every way to the end of the event loop with one       *)
(* started; what takes the slot from it is recorded as its loss.           *)

Ending == notify = Expired \/ (notify > 0 /\ pc \in {"close", "closed", "unwound"})

ExitInv == Ending => Leaving

\* Steps that leave slot, notification and history alone keep the invariant when
\* they do not leave the loop.
LEMMA ExitFrame ==
  ASSUME ExitInv, UNCHANGED <<sig, notify, lost>>,
         pc' = pc \/ pc' \notin {"close", "closed", "unwound"}
  PROVE  ExitInv'
<1>1. Ending' => Ending BY DEF Ending, Expired
<1>2. Leaving' <=> Leaving BY DEF Leaving, EndWaits
<1>3. QED BY <1>1, <1>2, Zenon DEF ExitInv

\* In the loop a notification that is over is no longer waited for.
LEMMA ExpiredIsOver ==
  ASSUME notify = Expired
  PROVE  ~ Notifies
BY OpenVpnAssumption DEF Notifies, Expired

\* A phase of the loop that may raise a signal.
LEMMA ExitPhase ==
  ASSUME ExitInv, Disturbed, notify' = notify,
         pc' \notin {"close", "closed", "unwound"}
  PROVE  ExitInv'
<1>1. CASE UNCHANGED <<sig, hard, faults, lost>> BY <1>1, ExitFrame
<1>2. CASE Leaving /\ ~ Notifies => sig' = "TERM" \/ lost'
  <2>1. Ending' => notify = Expired BY DEF Ending, Expired
  <2>2. notify = Expired => Leaving BY Zenon DEF ExitInv, Ending
  <2>3. Ending' => sig' = "TERM" \/ lost' BY <1>2, <2>1, <2>2, ExpiredIsOver, Zenon
  <2>4. sig' = "TERM" => EndWaits' BY DEF EndWaits, EndSignals
  <2>5. QED BY <2>3, <2>4, Zenon DEF ExitInv, Leaving
<1>3. QED BY <1>1, <1>2, Zenon DEF Disturbed

\* Only the request to end, or its recorded loss, leaves the loop of an exit.
LEMMA ExitStep ==
  ASSUME PlaceType, NumberType, StageInv, ExitInv, Steps
  PROVE  ExitInv'
<1>0. ExitNotify \in Nat /\ Expired' = Expired BY OpenVpnAssumption DEF Expired
<1>0a. notify' = 0 => ExitInv' BY <1>0 DEF ExitInv, Ending, Expired
<1>1. CASE QueryPasswords
  <2>1. pc' \in {"reset", "console", "exited"} /\ UNCHANGED <<sig, lost, notify>>
    BY <1>1, Zenon DEF QueryPasswords, Die, slot, history
  <2>2. QED BY <2>1, ExitFrame
<1>2. CASE ResetSignal BY <1>0a, <1>2, Zenon DEF ResetSignal
<1>3. CASE Initialise
  <2>1. pc \in {"pause", "init", "ready"} /\ notify' = notify BY <1>3, SMT DEF Initialise
  <2>2. notify' = 0 BY <2>1, Zenon DEF NumberType
  <2>3. QED BY <1>0a, <2>2
<1>4. CASE CloseInstance
  <2>1. pc = "close" /\ UNCHANGED <<sig, lost, notify>>
    BY <1>4, Zenon DEF CloseInstance, slot, history
  <2>2. Ending' => Ending BY <1>0, <2>1 DEF Ending
  <2>3. Leaving' <=> Leaving BY <2>1 DEF Leaving, EndWaits
  <2>4. QED BY <2>2, <2>3, Zenon DEF ExitInv
<1>5. CASE Repeat
  <2>1. pc \in {"closed", "unwound"} /\ UNCHANGED <<sig, lost, notify>>
    BY <1>5, SMT DEF Repeat, slot, history
  <2>2. Ending' => Ending BY <1>0, <2>1 DEF Ending
  <2>3. Leaving' <=> Leaving BY <2>1 DEF Leaving, EndWaits
  <2>4. QED BY <2>2, <2>3, Zenon DEF ExitInv
<1>6. CASE Timers
  <2>1. pc' \in {"ping", "check"} /\ notify' = notify /\ Disturbed
    BY <1>6, TimersEffect, Zenon
  <2>2. QED BY <2>1, ExitPhase
<1>7. CASE PingAndNotify
  <2>1. pc' \in {"tls", "check"} BY <1>7, PingEffect, Zenon
  <2>2. CASE Disturbed /\ notify' = notify BY <2>1, <2>2, ExitPhase
  <2>3. CASE Notified
    <3>1. CASE notify > ExitNotify
      <4>1. sig' = "TERM" BY <2>3, <3>1, Zenon DEF Notified
      <4>2. QED BY <4>1 DEF ExitInv, Leaving, EndWaits, EndSignals
    <3>2. CASE ~ (notify > ExitNotify)
      <4>1. notify' = notify + 1 BY <2>3, <3>2, Zenon DEF Notified
      <4>2. notify' # Expired BY <1>0, <3>2, <4>1 DEF NumberType, Expired
      <4>3. QED BY <1>0, <2>1, <4>2 DEF ExitInv, Ending
    <3>3. QED BY <3>1, <3>2
  <2>4. QED BY <1>7, <2>2, <2>3, PingEffect, Zenon
<1>8. CASE Tls
  <2>1. pc' \in {"control", "check", "console", "exited"} /\ notify' = notify
    BY <1>8, TlsEffect, Zenon
  <2>2. CASE Disturbed BY <2>1, <2>2, ExitPhase
  <2>3. CASE UNCHANGED <<sig, hard, lost>> BY <2>1, <2>3, ExitFrame
  <2>4. QED BY <1>8, <2>2, <2>3, TlsEffect, Zenon
<1>9. CASE Control
  <2>1. pc' = "check" /\ notify' = notify /\ Disturbed BY <1>9, ControlEffect, Zenon
  <2>2. QED BY <2>1, ExitPhase
<1>10. CASE CheckSig
  <2>1. lost' = lost BY <1>10, CheckEffect, Zenon
  <2>2. CASE sig = "none" /\ pc' \in {"io", "timers"} /\ UNCHANGED <<sig, hard, notify>>
    BY <2>1, <2>2, ExitFrame
  <2>3. CASE ProcessSignal
    <3>1. CASE sig' = "TERM" BY <3>1 DEF ExitInv, Leaving, EndWaits, EndSignals
    <3>2. CASE sig' = sig /\ EndWaits BY <3>2 DEF ExitInv, Leaving, EndWaits
    <3>3. CASE notify' = notify /\ ~ EndWaits /\ notify \notin 1 .. ExitNotify + 1
      <4>1. notify = 0 \/ notify = Expired BY <1>0, <3>3 DEF NumberType, Expired
      <4>2. CASE notify = 0 BY <1>0a, <3>3, <4>2
      <4>3. CASE notify = Expired
        <5>1. Leaving BY <4>3, Zenon DEF ExitInv, Ending
        <5>2. lost' BY <2>1, <3>3, <5>1, Zenon DEF Leaving
        <5>3. QED BY <5>2, Zenon DEF ExitInv, Leaving
      <4>4. QED BY <4>1, <4>2, <4>3
    <3>4. CASE pc' = "timers" /\ notify \in 1 .. ExitNotify + 1 /\ notify' = notify
      <4>1. notify' # Expired BY <1>0, <3>4 DEF Expired
      <4>2. QED BY <1>0, <3>4, <4>1 DEF ExitInv, Ending
    <3>5. CASE pc' = "timers" /\ ExitNotify > 0 /\ notify' = 1
      <4>1. notify' # Expired BY <1>0, <3>5 DEF Expired
      <4>2. QED BY <1>0, <3>5, <4>1 DEF ExitInv, Ending
    <3>6. CASE pc' = "timers" /\ ~ EndWaits /\ notify' = notify
      <4>1. CASE notify = Expired
        <5>1. Leaving BY <4>1, Zenon DEF ExitInv, Ending
        <5>2. lost' BY <2>1, <3>6, <5>1, Zenon DEF Leaving
        <5>3. QED BY <5>2, Zenon DEF ExitInv, Leaving
      <4>2. CASE notify # Expired BY <1>0, <3>6, <4>2 DEF ExitInv, Ending
      <4>3. QED BY <4>1, <4>2
    <3>7. QED BY <2>3, <3>1, <3>2, <3>3, <3>4, <3>5, <3>6, ProcessEffect, Zenon
  <2>4. QED BY <1>10, <2>2, <2>3, CheckEffect, Zenon
<1>11. CASE ProcessIo
  <2>1. pc' = "recheck" /\ notify' = notify /\ Disturbed BY <1>11, IoEffect, Zenon
  <2>2. QED BY <2>1, ExitPhase
<1>12. CASE Abandon BY <1>12, ExitFrame DEF Abandon, slot, history
<1>13. CASE \E s \in Signals : Signal(s)
  <2>1. UNCHANGED <<pc, notify>> /\ (Leaving /\ ~ Notifies => Leaving')
    BY <1>13, SignalEffect, Zenon
  <2>2. Ending => ~ Notifies
    <3>1. CASE notify = Expired BY <3>1, ExpiredIsOver
    <3>2. CASE pc = "close" BY <3>2 DEF Notifies
    <3>3. CASE pc \in {"closed", "unwound"} BY <3>3 DEF Notifies, StageInv
    <3>4. QED BY <3>1, <3>2, <3>3 DEF Ending
  <2>3. Ending' => Ending BY <1>0, <2>1 DEF Ending
  <2>4. QED BY <2>1, <2>2, <2>3, Zenon DEF ExitInv
<1>14. CASE UNCHANGED vars BY <1>14, ExitFrame DEF vars, slot, history
<1>15. CASE Console
  <2>1. pc' \in {"exited", "reset", "control", "check"} /\ UNCHANGED <<sig, lost, notify>>
    BY <1>15, ConsoleEffect, Zenon
  <2>2. QED BY <2>1, ExitFrame
<1> QED BY <1>1, <1>2, <1>3, <1>4, <1>5, <1>6, <1>7, <1>8, <1>9, <1>10, <1>11, <1>12,
           <1>13, <1>14, <1>15 DEF Steps

\* The end of the loops: with a notification started, it leads out.
LEMMA RestartStep ==
  ASSUME ExitInv, Steps, notify > 0, pc \in {"closed", "unwound"}
  PROVE  pc' \in {"closed", "unwound", "exited"} \/ lost
<1>1. Leaving BY DEF ExitInv, Ending
<1>2. CASE lost BY <1>2
<1>3. CASE EndWaits
  <2>1. CASE Repeat BY <1>3, <2>1 DEF Repeat, EndWaits, EndSignals
  <2>2. CASE Abandon \/ (\E s \in Signals : Signal(s)) \/ UNCHANGED vars
    <3>1. pc' = pc BY <2>2, Zenon DEF Abandon, Signal, vars
    <3>2. QED BY <3>1
  <2>3. ~ (Timers \/ PingAndNotify \/ Tls \/ Control \/ CheckSig \/ ProcessIo)
    BY DEF Timers, PingAndNotify, Tls, Control, CheckSig, ProcessIo
  <2>4. ~ (QueryPasswords \/ ResetSignal \/ Initialise \/ CloseInstance \/ Console)
    BY DEF QueryPasswords, ResetSignal, Initialise, CloseInstance, Console
  <2>5. QED BY <2>1, <2>2, <2>3, <2>4, Zenon DEF Steps
<1>4. QED BY <1>1, <1>2, <1>3, Zenon DEF Leaving

-----------------------------------------------------------------------------
(* Theorems                                                                *)

IInv ==
  /\ PlaceType /\ FlagType /\ NumberType
  /\ StageInv /\ ForgetInv /\ SecretForgotten /\ ExitInv

\* The process starts with nothing sent, nothing remembered and no exit.
LEMMA InitIInv == Init => IInv
<1> SUFFICES ASSUME Init PROVE IInv OBVIOUS
<1>1. PlaceType
  BY DEF Init, PlaceType, PCs, InitPhases, LoopPhases, SigValues, Stages
<1>2. FlagType BY Zenon DEF Init, FlagType
<1>3. NumberType BY OpenVpnAssumption, SMT DEF Init, NumberType, Expired
<1>4. StageInv BY DEF Init, StageInv
<1>5. ForgetInv /\ SecretForgotten BY Zenon DEF Init, ForgetInv, SecretForgotten
<1>6. ExitInv BY OpenVpnAssumption, SMT DEF Init, ExitInv, Ending, Expired
<1>7. QED BY <1>1, <1>2, <1>3, <1>4, <1>5, <1>6 DEF IInv

\* Every step of the process keeps the invariant.
LEMMA NextIInv == IInv /\ [Next]_vars => IInv'
<1> SUFFICES ASSUME IInv, Steps PROVE IInv' BY StepCases
<1>1. PlaceType' /\ FlagType' /\ NumberType'
  BY PlaceStep, FlagStep, NumberStep, Zenon DEF IInv
<1>2. StageInv' /\ ForgetInv' /\ SecretForgotten' /\ ExitInv'
  BY StageStep, ForgetStep, SecretStep, ExitStep, Zenon DEF IInv
<1>3. QED BY <1>1, <1>2, Zenon DEF IInv

(* The inductive invariant holds in every state of the process.            *)
THEOREM ProcessInv == Spec => []IInv
BY InitIInv, NextIInv, PTL DEF Spec

(* Types, a notification that never outlasts its interval and never        *)
(* precedes an instance, and a SAML response that is neither on disk nor   *)
(* in memory once the tunnel was up (key_method_2_write, --auth-nocache,   *)
(* --route-up), for any number of faults and signals.                      *)
THEOREM SecretSafe == Spec => []SecretInv
<1>1. IInv => SecretInv BY TypeParts, Zenon DEF IInv, SecretInv
<1>2. QED BY <1>1, ProcessInv, PTL

(* After the tunnel was up key_method_2_write never sends the SAML         *)
(* response again, however often the process restarts or renegotiates.     *)
THEOREM SecretSentOnce == Spec => SecretNotResent
<1>1. IInv /\ [Next]_vars => [wasUp => sent' = sent]_vars
  BY StepCases, ResentStep, Zenon DEF IInv
<1>2. QED BY <1>1, ProcessInv, PTL DEF Spec, SecretNotResent

(* From the start of an exit notification no restart signal, soft or hard, *)
(* makes openvpn_main repeat its loops, unless the SIGTERM of that exit    *)
(* was overwritten in the slot, for any length of the notification.        *)
THEOREM ExitNotRestarted == Spec => NoRestartWhileExiting
<1>1. IInv /\ [Next]_vars =>
        [notify > 0 /\ pc \in {"closed", "unwound"}
           => pc' \in {"closed", "unwound", "exited"} \/ lost]_vars
  BY StepCases, RestartStep, Zenon DEF IInv
<1>2. QED BY <1>1, ProcessInv, PTL DEF Spec, NoRestartWhileExiting

-----------------------------------------------------------------------------
(* The routes of the tunnel.                                                *)

RouteCommands == [op : {"add", "delete"}, dest : Dests, gw : Gateways \cup {NoRoute}]

\* The destinations a client always has are destinations.
LEMMA DestsAre ==
  ASSUME NEW p \in Clients
  PROVE  /\ Remote[p] \in Dests /\ "default" \in Dests /\ "low" \in Dests /\ "high" \in Dests
         /\ Remote[p] # "default" /\ Remote[p] # "low" /\ Remote[p] # "high"
         /\ Nets \subseteq Dests
         /\ p \in Gateways /\ Lan \in Gateways /\ Lan # p /\ NoRoute # p /\ NoRoute # Lan
<1>1. Remote[p] \in Hosts  BY DEF Hosts
<1> QED BY <1>1, RoutesAssumption DEF Dests, Gateways

\* A route command is one of RouteCommands when its parts are in range.
LEMMA CommandType ==
  ASSUME NEW d \in Dests, NEW g \in Gateways \cup {NoRoute}
  PROVE  add_route(d, g) \in RouteCommands /\ delete_route(d, g) \in RouteCommands
BY DEF add_route, delete_route, RouteCommands

\* SetToSeq lists elements of a finite set.
LEMMA SetToSeqType ==
  ASSUME NEW S, IsFiniteSet(S)
  PROVE  SetToSeq(S) \in Seq(S)
<1>1. Cardinality(S) \in Nat /\ ExistsBijection(1 .. Cardinality(S), S)
  BY FS_CardinalityType
<1>2. PICK f \in Bijection(1 .. Cardinality(S), S) : TRUE
  BY <1>1 DEF ExistsBijection
<1>3. f \in [1 .. Cardinality(S) -> S] /\ IsInjective(f)
  BY <1>2 DEF Bijection, Injection, IsInjective
<1>4. SetToSeq(S) \in [1 .. Cardinality(S) -> S]
  BY <1>3 DEF SetToSeq
<1> QED BY <1>1, <1>4

\* A part that is left out is the empty sequence.
LEMMA IfType ==
  ASSUME NEW A, NEW c, NEW s, c => s \in Seq(A)
  PROVE  If(c, s) \in Seq(A)
<1>1. CASE c = TRUE  BY <1>1 DEF If
<1>2. CASE ~c  BY <1>2 DEF If
<1> QED BY <1>1, <1>2 DEF If

\* Sequences of one and of two commands.
LEMMA ShortSeqs ==
  ASSUME NEW A, NEW a \in A, NEW b \in A
  PROVE  <<a>> \in Seq(A) /\ <<a, b>> \in Seq(A)
OBVIOUS

\* The commands for the pushed routes.
LEMMA PushedType ==
  ASSUME NEW p, NEW nets \in SUBSET Nets
  PROVE  Pushed(p, nets) \in Seq({add_route(d, p) : d \in Nets})
<1>1. IsFiniteSet(nets)  BY FS_Subset, RoutesAssumption
<1>2. SetToSeq(nets) \in Seq(nets)  BY <1>1, SetToSeqType
<1> DEFINE s == SetToSeq(nets)
<1>3. Len(s) \in Nat /\ \A i \in 1 .. Len(s) : s[i] \in Nets  BY <1>2
<1> QED BY <1>3 DEF Pushed

\* The commands that take the pushed routes away again.
LEMMA UnpushType ==
  ASSUME NEW p, rl[p].added \in SUBSET Nets
  PROVE  Unpush(p) \in Seq({delete_route(d, p) : d \in Nets})
<1>1. IsFiniteSet(rl[p].added)  BY FS_Subset, RoutesAssumption
<1> DEFINE s == SetToSeq(rl[p].added)
<1>2. s \in Seq(rl[p].added)  BY <1>1, SetToSeqType
<1>3. Len(s) \in Nat /\ \A i \in 1 .. Len(s) : s[i] \in Nets  BY <1>2
<1> QED BY <1>3 DEF Unpush

RouteLists ==
  [mode : {"none", "def1", "replace"}, local : BOOLEAN, gateway : Gateways \cup {NoRoute},
   added : SUBSET Nets, did_local : BOOLEAN, did_redirect : BOOLEAN]

\* The types, with the sets above.
LEMMA RoutesTypeParts ==
  RoutesTypeOK <=>
    /\ table \in [Dests -> Gateways \cup {NoRoute}]
    /\ phase \in [Clients -> {"down", "adding", "up", "kept", "deleting"}]
    /\ todo \in [Clients -> Seq(RouteCommands)]
    /\ rl \in [Clients -> RouteLists]
    /\ bare \subseteq Clients /\ spoiled \subseteq Dests
BY DEF RoutesTypeOK, RouteCommands, RouteLists

\* Four commands in a row.
LEMMA FourParts ==
  ASSUME NEW A, NEW s \in Seq(A), NEW t \in Seq(A), NEW u \in Seq(A), NEW v \in Seq(A)
  PROVE  s \o t \o u \o v \in Seq(A)
<1>1. s \o t \in Seq(A)  OBVIOUS
<1>2. s \o t \o u \in Seq(A)  BY <1>1
<1> QED BY <1>2

\* The commands of a redirection.
LEMMA RedirectType ==
  ASSUME NEW p \in Clients, NEW mode, NEW local, NEW g \in Gateways \cup {NoRoute}
  PROVE  Redirect(p, mode, local, g) \in Seq(RouteCommands)
<1> DEFINE s == If(~local, <<add_route(Remote[p], g)>>)
           t == If(mode = "def1", <<add_route("low", p), add_route("high", p)>>)
           u == If(mode = "replace" /\ g # NoRoute, <<delete_route("default", g)>>)
           v == If(mode = "replace", <<add_route("default", p)>>)
<1>1. /\ add_route(Remote[p], g) \in RouteCommands
      /\ add_route("low", p) \in RouteCommands /\ add_route("high", p) \in RouteCommands
      /\ delete_route("default", g) \in RouteCommands
      /\ add_route("default", p) \in RouteCommands
  BY DestsAre, CommandType
<1>2. s \in Seq(RouteCommands)  BY <1>1, IfType, ShortSeqs
<1>3. t \in Seq(RouteCommands)  BY <1>1, IfType, ShortSeqs
<1>4. u \in Seq(RouteCommands)  BY <1>1, IfType, ShortSeqs
<1>5. v \in Seq(RouteCommands)  BY <1>1, IfType, ShortSeqs
<1> HIDE DEF s, t, u, v
<1>6. s \o t \o u \o v \in Seq(RouteCommands)  BY <1>2, <1>3, <1>4, <1>5, FourParts
<1> QED BY <1>6 DEF Redirect, s, t, u, v

\* The commands that undo one.
LEMMA UndoType ==
  ASSUME NEW p \in Clients, rl[p].gateway \in Gateways \cup {NoRoute}
  PROVE  UndoRedirect(p) \in Seq(RouteCommands)
<1> DEFINE g == rl[p].gateway
           s == If(rl[p].did_local, <<delete_route(Remote[p], g)>>)
           t == If(rl[p].mode = "def1", <<delete_route("low", p), delete_route("high", p)>>)
           u == If(rl[p].mode = "replace", <<delete_route("default", p)>>)
           v == If(rl[p].mode = "replace" /\ g # NoRoute, <<add_route("default", g)>>)
<1>1. /\ delete_route(Remote[p], g) \in RouteCommands
      /\ delete_route("low", p) \in RouteCommands /\ delete_route("high", p) \in RouteCommands
      /\ delete_route("default", p) \in RouteCommands
      /\ add_route("default", g) \in RouteCommands
  BY DestsAre, CommandType
<1>2. s \in Seq(RouteCommands)  BY <1>1, IfType, ShortSeqs
<1>3. t \in Seq(RouteCommands)  BY <1>1, IfType, ShortSeqs
<1>4. u \in Seq(RouteCommands)  BY <1>1, IfType, ShortSeqs
<1>5. v \in Seq(RouteCommands)  BY <1>1, IfType, ShortSeqs
<1> HIDE DEF s, t, u, v
<1>6. s \o t \o u \o v \in Seq(RouteCommands)  BY <1>2, <1>3, <1>4, <1>5, FourParts
<1> QED BY <1>6 DEF UndoRedirect, s, t, u, v

\* Open keeps the types.
LEMMA OpenType ==
  ASSUME RoutesTypeOK, NEW p \in Clients, Open(p)
  PROVE  RoutesTypeOK'
<1>1. PICK mode \in Modes, local \in BOOLEAN, nets \in SUBSET Nets :
        LET gw  == table["default"]
            did == Redirects(mode, local, gw)
        IN  /\ rl' = [rl EXCEPT ![p] =
                        [mode |-> mode, local |-> local, gateway |-> gw, added |-> {},
                         did_local |-> did /\ ~local, did_redirect |-> did]]
            /\ todo' = [todo EXCEPT ![p] =
                          If(did, Redirect(p, mode, local, gw)) \o Pushed(p, nets)]
  BY DEF Open
<1> DEFINE gw  == table["default"]
           did == Redirects(mode, local, gw)
           l   == [mode |-> mode, local |-> local, gateway |-> gw, added |-> {},
                   did_local |-> did /\ ~local, did_redirect |-> did]
           cs  == If(did, Redirect(p, mode, local, gw))
<1>2. gw \in Gateways \cup {NoRoute}  BY DestsAre DEF RoutesTypeOK
<1>3. did \in BOOLEAN  BY DEF Redirects
<1>4. l \in RouteLists
  <2> HIDE DEF gw, did
  <2> QED BY <1>2, <1>3, RoutesAssumption DEF RouteLists
<1>5. cs \in Seq(RouteCommands)  BY <1>2, RedirectType, IfType
<1>6. Pushed(p, nets) \in Seq(RouteCommands)
  <2>1. {add_route(d, p) : d \in Nets} \subseteq RouteCommands  BY DestsAre, CommandType
  <2> QED BY <2>1, PushedType, SeqMonotonic
<1> HIDE DEF gw, did, l, cs
<1>7. cs \o Pushed(p, nets) \in Seq(RouteCommands)  BY <1>5, <1>6
<1>8. rl' = [rl EXCEPT ![p] = l] /\ todo' = [todo EXCEPT ![p] = cs \o Pushed(p, nets)]
  BY <1>1 DEF gw, did, l, cs
<1>9. rl' \in [Clients -> RouteLists]  BY <1>4, <1>8, RoutesTypeParts
<1>10. todo' \in [Clients -> Seq(RouteCommands)]  BY <1>7, <1>8, RoutesTypeParts
<1>11. /\ phase' \in [Clients -> {"down", "adding", "up", "kept", "deleting"}]
       /\ table' \in [Dests -> Gateways \cup {NoRoute}]
       /\ bare' \subseteq Clients /\ spoiled' \subseteq Dests
  BY DEF Open, RoutesTypeOK
<1> QED BY <1>9, <1>10, <1>11 DEF RoutesTypeOK, RouteCommands, RouteLists

\* Marking a route in a list changes nothing else of it.
LEMMA MarkList ==
  ASSUME NEW l \in RouteLists, NEW a \in SUBSET Nets
  PROVE  LET m == [l EXCEPT !.added = @ \cup a]
         IN  /\ m \in RouteLists
             /\ m.mode = l.mode /\ m.local = l.local /\ m.gateway = l.gateway
             /\ m.did_local = l.did_local /\ m.did_redirect = l.did_redirect
BY DEF RouteLists

\* What giving a command does, and the command that is given.
LEMMA CommandSteps ==
  ASSUME RoutesTypeOK, NEW p \in Clients, Command(p)
  PROVE  LET c == Head(todo[p])
         IN  /\ todo[p] # <<>> /\ todo[p] \in Seq(RouteCommands)
             /\ c \in RouteCommands /\ c.dest \in Dests /\ c.gw \in Gateways \cup {NoRoute}
             /\ phase' = phase /\ todo' = [todo EXCEPT ![p] = Tail(todo[p])]
             /\ todo'[p] = Tail(todo[p])
             /\ \/ /\ c.op = "add" /\ Reachable(c.gw)
                   /\ table' = [table EXCEPT ![c.dest] = c.gw]
                   /\ rl' = [rl EXCEPT ![p].added = @ \cup Marked(c.dest)]
                   /\ bare' = bare /\ spoiled' = spoiled
                \/ /\ c.op = "delete"
                   /\ table' = [table EXCEPT ![c.dest] = IF @ = c.gw THEN NoRoute ELSE @]
                   /\ rl' = rl /\ bare' = bare /\ spoiled' = spoiled
                \/ table' = table /\ rl' = rl /\ Refused(p, c)
<1>1. todo[p] # <<>> /\ todo[p] \in Seq(RouteCommands)
  BY RoutesTypeParts DEF Command
<1>2. Head(todo[p]) \in RouteCommands  BY <1>1, HeadTailProperties
<1>3. phase' = phase /\ todo' = [todo EXCEPT ![p] = Tail(todo[p])]
  BY DEF Command
<1>4. todo'[p] = Tail(todo[p])  BY <1>3 DEF RoutesTypeOK
<1>5. Head(todo[p]).dest \in Dests /\ Head(todo[p]).gw \in Gateways \cup {NoRoute}
  BY <1>2 DEF RouteCommands
<1> QED BY <1>1, <1>2, <1>3, <1>4, <1>5 DEF Command

\* Command keeps the types.
LEMMA CommandKeepsType ==
  ASSUME RoutesTypeOK, NEW p \in Clients, Command(p)
  PROVE  RoutesTypeOK'
<1> DEFINE c == Head(todo[p])
<1>0. /\ todo[p] # <<>> /\ todo[p] \in Seq(RouteCommands)
      /\ c.dest \in Dests /\ c.gw \in Gateways \cup {NoRoute}
      /\ phase' = phase /\ todo' = [todo EXCEPT ![p] = Tail(todo[p])]
      /\ \/ /\ c.op = "add" /\ Reachable(c.gw)
            /\ table' = [table EXCEPT ![c.dest] = c.gw]
            /\ rl' = [rl EXCEPT ![p].added = @ \cup Marked(c.dest)]
            /\ bare' = bare /\ spoiled' = spoiled
         \/ /\ c.op = "delete"
            /\ table' = [table EXCEPT ![c.dest] = IF @ = c.gw THEN NoRoute ELSE @]
            /\ rl' = rl /\ bare' = bare /\ spoiled' = spoiled
         \/ table' = table /\ rl' = rl /\ Refused(p, c)
  BY CommandSteps
<1> HIDE DEF c
<1>1. Tail(todo[p]) \in Seq(RouteCommands)  BY <1>0, HeadTailProperties
<1>2. todo' \in [Clients -> Seq(RouteCommands)]  BY <1>0, <1>1, RoutesTypeParts
<1>3. /\ table' \in [Dests -> Gateways \cup {NoRoute}]
      /\ bare' \subseteq Clients /\ spoiled' \subseteq Dests
  BY <1>0 DEF RoutesTypeOK, Refused
<1>4. Marked(c.dest) \subseteq Nets  BY DEF Marked
<1>5. rl[p] \in RouteLists /\ rl \in [Clients -> RouteLists]  BY RoutesTypeParts
<1>6. rl' = [rl EXCEPT ![p] = [rl[p] EXCEPT !.added = @ \cup Marked(c.dest)]] \/ rl' = rl
  BY <1>0
<1>7. [rl[p] EXCEPT !.added = @ \cup Marked(c.dest)] \in RouteLists
  BY <1>4, <1>5, MarkList
<1>8. rl' \in [Clients -> RouteLists]  BY <1>5, <1>6, <1>7
<1> QED BY <1>0, <1>2, <1>3, <1>8, RoutesTypeParts DEF RoutesTypeOK, RouteCommands, RouteLists

\* Close keeps the types.
LEMMA CloseType ==
  ASSUME RoutesTypeOK, NEW p \in Clients, Close(p)
  PROVE  RoutesTypeOK'
<1> DEFINE u == If(rl[p].did_redirect, UndoRedirect(p))
<1>1. rl[p] \in RouteLists  BY RoutesTypeParts
<1>2. rl[p].gateway \in Gateways \cup {NoRoute} /\ rl[p].added \in SUBSET Nets
  BY <1>1 DEF RouteLists
<1>3. u \in Seq(RouteCommands)  BY <1>2, UndoType, IfType
<1>4. Unpush(p) \in Seq(RouteCommands)
  <2>1. {delete_route(d, p) : d \in Nets} \subseteq RouteCommands  BY DestsAre, CommandType
  <2> QED BY <1>2, <2>1, UnpushType, SeqMonotonic
<1>5. todo' = [todo EXCEPT ![p] = Unpush(p) \o u]  BY DEF Close
<1> HIDE DEF u
<1>6. Unpush(p) \o u \in Seq(RouteCommands)  BY <1>3, <1>4
<1>7. todo' \in [Clients -> Seq(RouteCommands)]  BY <1>5, <1>6, RoutesTypeParts
<1> QED BY <1>7 DEF Close, RoutesTypeOK, RouteCommands

\* Every step keeps the types.
LEMMA RoutesNextType ==
  ASSUME RoutesTypeOK, [RoutesNext]_routesVars
  PROVE  RoutesTypeOK'
<1>1. CASE UNCHANGED routesVars  BY <1>1 DEF routesVars, RoutesTypeOK
<1>2. ASSUME NEW p \in Clients, Open(p) PROVE RoutesTypeOK'  BY <1>2, OpenType
<1>3. ASSUME NEW p \in Clients, Command(p) PROVE RoutesTypeOK'  BY <1>3, CommandKeepsType
<1>4. ASSUME NEW p \in Clients, Close(p) PROVE RoutesTypeOK'  BY <1>4, CloseType
<1>5. ASSUME NEW p \in Clients, Opened(p) \/ Keep(p) \/ Resume(p) PROVE RoutesTypeOK'
  BY <1>5 DEF Opened, Keep, Resume, RoutesTypeOK
<1>6. ASSUME NEW p \in Clients, Closed(p) PROVE RoutesTypeOK'
  <2>1. NoList \in RouteLists  BY DEF NoList, RouteLists
  <2>2. rl' \in [Clients -> RouteLists]  BY <1>6, <2>1, RoutesTypeParts DEF Closed
  <2> QED BY <1>6, <2>2 DEF Closed, RoutesTypeOK, RouteLists
<1> QED BY <1>1, <1>2, <1>3, <1>4, <1>5, <1>6 DEF RoutesNext

\* The table, the phases, the commands and the lists are always of their
\* types, for any number of clients and whatever the servers push.
THEOREM RoutesTypes == RoutesSpec => []RoutesTypeOK
<1>1. RoutesInit => RoutesTypeOK
  <2> SUFFICES ASSUME RoutesInit PROVE RoutesTypeOK  OBVIOUS
  <2>1. NoList \in RouteLists  BY DEF NoList, RouteLists
  <2>2. Table0 \in [Dests -> Gateways \cup {NoRoute}]  BY DEF Table0, Gateways
  <2>3. <<>> \in Seq(RouteCommands)  OBVIOUS
  <2>4. /\ table \in [Dests -> Gateways \cup {NoRoute}]
        /\ phase \in [Clients -> {"down", "adding", "up", "kept", "deleting"}]
        /\ todo \in [Clients -> Seq(RouteCommands)]
        /\ rl \in [Clients -> RouteLists]
        /\ bare \subseteq Clients /\ spoiled \subseteq Dests
    BY <2>1, <2>2, <2>3 DEF RoutesInit
  <2> QED BY <2>4, RoutesTypeParts
<1>2. RoutesTypeOK /\ [RoutesNext]_routesVars => RoutesTypeOK'  BY RoutesNextType
<1> QED BY <1>1, <1>2, PTL DEF RoutesSpec

-----------------------------------------------------------------------------
(* One client, whose server pushes no route for itself or for a default     *)
(* route: RouteInv does not hold of two clients with one table.             *)
OwnNets == Nets \cap ({"default", "low", "high"} \cup Hosts) = {}

\* The commands of a client that sets its routes up, the host route apart.
AddCommands(p, mode, did, g) ==
  {c \in RouteCommands :
     \/ c.op = "add" /\ c.gw = p /\ c.dest \in Nets
     \/ c.op = "add" /\ c.gw = p /\ c.dest \in {"low", "high"} /\ did /\ mode = "def1"
     \/ c.op = "add" /\ c.gw = p /\ c.dest = "default" /\ did /\ mode = "replace"
     \/ c.op = "delete" /\ c.gw = g /\ c.dest = "default" /\ did /\ mode = "replace"}

\* The commands of a client that takes its routes away.
DeleteCommands(p, g) ==
  {c \in RouteCommands :
     \/ c.op = "delete" /\ c.gw = p
     \/ c.op = "delete" /\ c.gw = g /\ c.dest = Remote[p]
     \/ c.op = "add" /\ c.gw = g /\ c.dest = "default" /\ g # NoRoute}

\* The host route is the client's next command.
HostFirst(s, p, g) == s # <<>> /\ s[1].op = "add" /\ s[1].dest = Remote[p] /\ s[1].gw = g

\* What the route list says of itself.
ListOk(p) ==
  /\ rl[p].gateway # p
  /\ rl[p].did_local <=> rl[p].did_redirect /\ ~rl[p].local
  /\ rl[p].did_local => rl[p].gateway = Lan
  /\ rl[p].did_redirect => rl[p].mode # "none"

\* What is left to do, by phase.
TodoOk(p) ==
  /\ phase[p] \in {"down", "up", "kept"} => todo[p] = <<>>
  /\ phase[p] = "adding" =>
       \A i \in 1 .. Len(todo[p]) :
         \/ todo[p][i] \in AddCommands(p, rl[p].mode, rl[p].did_redirect, rl[p].gateway)
         \/ i = 1 /\ rl[p].did_local /\ HostFirst(todo[p], p, rl[p].gateway)
  /\ phase[p] = "deleting" =>
       \A i \in 1 .. Len(todo[p]) : todo[p][i] \in DeleteCommands(p, rl[p].gateway)

\* The host route is there before the default route goes into the tunnel, unless
\* its own add failed.
WayOk(p) ==
  /\ table[Remote[p]] # p
  /\ phase[p] = "down" => \A d \in Dests : table[d] # p
  /\ ~rl[p].did_redirect => table["low"] # p /\ table["default"] # p
  /\ phase[p] = "adding" /\ HostFirst(todo[p], p, rl[p].gateway) =>
       table["low"] # p /\ table["default"] # p
  /\ phase[p] \in {"adding", "up", "kept"} /\ rl[p].did_local /\ p \notin bare =>
       \/ phase[p] = "adding" /\ HostFirst(todo[p], p, rl[p].gateway)
       \/ table[Remote[p]] = Lan

AloneInv(p) == ListOk(p) /\ TodoOk(p) /\ WayOk(p)

\* AloneInv says that no way to the server leads into the tunnel.
LEMMA AloneNoLoop ==
  ASSUME NEW p, Clients = {p}, RoutesTypeOK, AloneInv(p)
  PROVE  RouteInv
<1> p \in Clients  OBVIOUS
<1>1. ASSUME phase[p] \in {"adding", "up", "kept"}, ~rl[p].local, p \notin bare
      PROVE  Via(Remote[p]) # p
  <2>1. rl[p].did_local <=> rl[p].did_redirect
    BY <1>1 DEF AloneInv, ListOk
  <2>2. CASE rl[p].did_local /\ table[Remote[p]] = Lan
    BY <2>2, DestsAre DEF Via
  <2>3. CASE table["low"] # p /\ table["default"] # p
    BY <2>3 DEF Via, AloneInv, WayOk
  <2> QED BY <1>1, <2>1, <2>2, <2>3 DEF AloneInv, WayOk
<1> QED BY <1>1 DEF RouteInv, NoLoop

\* Commands of A behind the host route.
Led(s, p, g, A) ==
  /\ s \in Seq(RouteCommands) /\ HostFirst(s, p, g)
  /\ \A i \in 1 .. Len(s) : s[i] \in A \/ i = 1

\* More commands of A may follow.
LEMMA LedConcat ==
  ASSUME NEW p, NEW g, NEW A \in SUBSET RouteCommands, NEW s, NEW t \in Seq(A),
         Led(s, p, g, A)
  PROVE  Led(s \o t, p, g, A)
<1> s \in Seq(RouteCommands) /\ HostFirst(s, p, g) /\ \A i \in 1 .. Len(s) : s[i] \in A \/ i = 1
  BY DEF Led
<1>1. t \in Seq(RouteCommands)  BY SeqMonotonic
<1>2. Len(s) \in Nat \ {0} /\ Len(t) \in Nat  BY <1>1, EmptySeq, LenProperties DEF HostFirst
<1>3. /\ s \o t \in Seq(RouteCommands) /\ Len(s \o t) = Len(s) + Len(t)
      /\ \A i \in 1 .. Len(s) + Len(t) : (s \o t)[i] =
            IF i <= Len(s) THEN s[i] ELSE t[i - Len(s)]
  BY <1>1, ConcatProperties, Zenon
<1>4. (s \o t)[1] = s[1] /\ s \o t # <<>>  BY <1>2, <1>3
<1>5. HostFirst(s \o t, p, g)  BY <1>4 DEF HostFirst
<1>6. ASSUME NEW i \in 1 .. Len(s \o t) PROVE (s \o t)[i] \in A \/ i = 1
  <2>1. CASE i <= Len(s)  BY <1>2, <1>3, <1>6, <2>1
  <2>2. CASE ~(i <= Len(s))
    <3>1. i - Len(s) \in 1 .. Len(t) /\ (s \o t)[i] = t[i - Len(s)]
      BY <1>2, <1>3, <1>6, <2>2
    <3> QED BY <3>1, ElementOfSeq
  <2> QED BY <2>1, <2>2
<1> QED BY <1>3, <1>5, <1>6 DEF Led

\* The redirection: the host route first, unless the server is local.
LEMMA RedirectLed ==
  ASSUME NEW p \in Clients, NEW mode, NEW local \in BOOLEAN,
         NEW g \in Gateways \cup {NoRoute}, NEW t,
         t \in Seq(AddCommands(p, mode, TRUE, g))
  PROVE  LET A == AddCommands(p, mode, TRUE, g)
             s == Redirect(p, mode, local, g) \o t
         IN  /\ local => s \in Seq(A)
             /\ ~local => Led(s, p, g, A)
<1> DEFINE A == AddCommands(p, mode, TRUE, g)
           r == If(~local, <<add_route(Remote[p], g)>>)
           u == If(mode = "def1", <<add_route("low", p), add_route("high", p)>>)
           v == If(mode = "replace" /\ g # NoRoute, <<delete_route("default", g)>>)
           w == If(mode = "replace", <<add_route("default", p)>>)
<1>1. /\ add_route(Remote[p], g) \in RouteCommands
      /\ add_route("low", p) \in RouteCommands /\ add_route("high", p) \in RouteCommands
      /\ delete_route("default", g) \in RouteCommands
      /\ add_route("default", p) \in RouteCommands
  BY DestsAre, CommandType
<1>2. u \in Seq(A)
  <2>1. mode = "def1" => add_route("low", p) \in A /\ add_route("high", p) \in A
    BY <1>1 DEF AddCommands, add_route
  <2> QED BY <2>1, IfType, ShortSeqs
<1>3. v \in Seq(A)
  <2>1. mode = "replace" => delete_route("default", g) \in A
    BY <1>1 DEF AddCommands, delete_route
  <2> QED BY <2>1, IfType, ShortSeqs
<1>4. w \in Seq(A)
  <2>1. mode = "replace" => add_route("default", p) \in A
    BY <1>1 DEF AddCommands, add_route
  <2> QED BY <2>1, IfType, ShortSeqs
<1>5. A \in SUBSET RouteCommands  BY DEF AddCommands
<1>6. Redirect(p, mode, local, g) = r \o u \o v \o w  BY DEF Redirect
<1>7. local => r \in Seq(A)  BY DEF If
<1>8. ASSUME ~local PROVE Led(r, p, g, A)
  <2> DEFINE h == add_route(Remote[p], g)
  <2>1. r = <<h>>  BY <1>8 DEF If
  <2>2. h.op = "add" /\ h.dest = Remote[p] /\ h.gw = g  BY DEF add_route
  <2>3. h \in RouteCommands  BY <1>1
  <2> HIDE DEF h, r, A
  <2>4. r \in Seq(RouteCommands) /\ Len(r) = 1 /\ r[1] = h /\ r # <<>>  BY <2>1, <2>3
  <2>5. HostFirst(r, p, g)  BY <2>2, <2>4 DEF HostFirst
  <2> QED BY <2>4, <2>5 DEF Led
<1>9. t \in Seq(A)  OBVIOUS
<1> HIDE DEF A, r, u, v, w
<1>10. CASE local
  <2>1. r \o u \o v \o w \in Seq(A)  BY <1>2, <1>3, <1>4, <1>7, <1>10, FourParts
  <2>2. Redirect(p, mode, local, g) \o t \in Seq(A)  BY <1>6, <1>9, <2>1
  <2> QED BY <1>10, <2>2 DEF A
<1>11. CASE ~local
  <2> DEFINE s1 == r \o u
             s2 == s1 \o v
             s3 == s2 \o w
             s4 == s3 \o t
  <2>1. Led(s1, p, g, A)  BY <1>2, <1>5, <1>8, <1>11, LedConcat
  <2> HIDE DEF s1
  <2>2. Led(s2, p, g, A)  BY <1>3, <1>5, <2>1, LedConcat
  <2> HIDE DEF s2
  <2>3. Led(s3, p, g, A)  BY <1>4, <1>5, <2>2, LedConcat
  <2> HIDE DEF s3
  <2>4. Led(s4, p, g, A)  BY <1>5, <1>9, <2>3, LedConcat
  <2> HIDE DEF s4
  <2>5. Redirect(p, mode, local, g) \o t = s4  BY <1>6 DEF s1, s2, s3, s4
  <2> QED BY <1>11, <2>4, <2>5 DEF A
<1> QED BY <1>10, <1>11

\* What Open leaves behind: the list, and the commands in their order.
LEMMA OpenSteps ==
  ASSUME RoutesTypeOK, NEW p \in Clients, Open(p)
  PROVE  /\ phase[p] = "down" /\ phase'[p] = "adding" /\ table' = table
         /\ rl'[p].gateway = table["default"]
         /\ rl'[p].did_redirect = Redirects(rl'[p].mode, rl'[p].local, rl'[p].gateway)
         /\ rl'[p].did_local <=> rl'[p].did_redirect /\ ~rl'[p].local
         /\ LET A == AddCommands(p, rl'[p].mode, rl'[p].did_redirect, rl'[p].gateway)
            IN  \/ todo'[p] \in Seq(A) /\ ~rl'[p].did_local
                \/ Led(todo'[p], p, rl'[p].gateway, A) /\ rl'[p].did_local
<1>1. PICK mode \in Modes, local \in BOOLEAN, nets \in SUBSET Nets :
        LET gw  == table["default"]
            did == Redirects(mode, local, gw)
        IN  /\ rl' = [rl EXCEPT ![p] =
                        [mode |-> mode, local |-> local, gateway |-> gw, added |-> {},
                         did_local |-> did /\ ~local, did_redirect |-> did]]
            /\ todo' = [todo EXCEPT ![p] =
                          If(did, Redirect(p, mode, local, gw)) \o Pushed(p, nets)]
  BY DEF Open
<1> DEFINE gw  == table["default"]
           did == Redirects(mode, local, gw)
           cs  == If(did, Redirect(p, mode, local, gw)) \o Pushed(p, nets)
           A   == AddCommands(p, mode, did, gw)
<1>2. /\ rl'[p].mode = mode /\ rl'[p].local = local /\ rl'[p].gateway = gw
      /\ rl'[p].did_local = (did /\ ~local) /\ rl'[p].did_redirect = did
  BY <1>1 DEF RoutesTypeOK
<1>3. todo'[p] = cs  BY <1>1 DEF RoutesTypeOK
<1>4. gw \in Gateways \cup {NoRoute}  BY DestsAre DEF RoutesTypeOK
<1>5. Pushed(p, nets) \in Seq(A)
  <2>1. \A d \in Nets : add_route(d, p) \in RouteCommands  BY DestsAre, CommandType
  <2>2. {add_route(d, p) : d \in Nets} \subseteq A  BY <2>1 DEF AddCommands, add_route
  <2> HIDE DEF A
  <2> QED BY <2>2, PushedType, SeqMonotonic
<1>6. did \in BOOLEAN  BY DEF Redirects
<1> HIDE DEF gw, did
<1>7. CASE ~did
  <2>1. cs = Pushed(p, nets)
    <3> HIDE DEF A
    <3>1. If(did, Redirect(p, mode, local, gw)) = <<>>  BY <1>7 DEF If
    <3> QED BY <1>5, <3>1, ConcatEmptySeq
  <2> HIDE DEF A, cs
  <2> QED BY <1>2, <1>3, <1>5, <1>7, <2>1 DEF A, Open, RoutesTypeOK, gw, did
<1>8. CASE did
  <2>1. cs = Redirect(p, mode, local, gw) \o Pushed(p, nets)  BY <1>8 DEF If
  <2>2. did = TRUE  BY <1>6, <1>8
  <2>3. A = AddCommands(p, mode, TRUE, gw)  BY <2>2
  <2> HIDE DEF A, cs
  <2>4. (local => cs \in Seq(A)) /\ (~local => Led(cs, p, gw, A))
    BY <1>4, <1>5, <2>1, <2>3, RedirectLed
  <2>5. CASE local
    BY <1>2, <1>3, <1>8, <2>4, <2>5 DEF A, Open, RoutesTypeOK, gw, did
  <2>6. CASE ~local
    BY <1>2, <1>3, <1>8, <2>4, <2>6 DEF A, Open, RoutesTypeOK, gw, did
  <2> QED BY <2>5, <2>6
<1> QED BY <1>7, <1>8

\* Open keeps the invariant of the lone client.
LEMMA OpenAlone ==
  ASSUME NEW p, Clients = {p}, OwnNets, RoutesTypeOK, AloneInv(p), Open(p)
  PROVE  AloneInv(p)'
<1> p \in Clients  OBVIOUS
<1> DEFINE A == AddCommands(p, rl'[p].mode, rl'[p].did_redirect, rl'[p].gateway)
<1>0. /\ phase[p] = "down" /\ phase'[p] = "adding" /\ table' = table
      /\ rl'[p].gateway = table["default"]
      /\ rl'[p].did_redirect = Redirects(rl'[p].mode, rl'[p].local, rl'[p].gateway)
      /\ rl'[p].did_local <=> rl'[p].did_redirect /\ ~rl'[p].local
      /\ \/ todo'[p] \in Seq(A) /\ ~rl'[p].did_local
         \/ Led(todo'[p], p, rl'[p].gateway, A) /\ rl'[p].did_local
  BY OpenSteps
<1>1. \A d \in Dests : table[d] # p  BY <1>0 DEF AloneInv, WayOk
<1>2. table["default"] \in {Lan, NoRoute}
  BY <1>1, DestsAre DEF RoutesTypeOK, Gateways
<1>3. ListOk(p)'  BY <1>0, <1>2, DestsAre DEF ListOk, Redirects
<1>4. \A i \in 1 .. Len(todo'[p]) :
         todo'[p][i] \in A \/ (i = 1 /\ rl'[p].did_local /\ HostFirst(todo'[p], p, rl'[p].gateway))
  <2> HIDE DEF A
  <2>1. CASE todo'[p] \in Seq(A)  BY <2>1, ElementOfSeq
  <2>2. CASE Led(todo'[p], p, rl'[p].gateway, A) /\ rl'[p].did_local  BY <2>2 DEF Led
  <2> QED BY <1>0, <2>1, <2>2
<1>5. TodoOk(p)'  BY <1>0, <1>4 DEF TodoOk, HostFirst
<1>6. rl'[p].did_local => HostFirst(todo'[p], p, rl'[p].gateway)
  <2> HIDE DEF A
  <2> QED BY <1>0 DEF Led
<1>7. WayOk(p)'
  BY <1>0, <1>1, <1>6, DestsAre DEF WayOk, HostFirst
<1> QED BY <1>3, <1>5, <1>7 DEF AloneInv

\* A command changes of the list only the marks.
LEMMA CommandKeepsList ==
  ASSUME RoutesTypeOK, NEW p \in Clients, Command(p)
  PROVE  /\ rl'[p].mode = rl[p].mode /\ rl'[p].local = rl[p].local
         /\ rl'[p].gateway = rl[p].gateway /\ rl'[p].did_local = rl[p].did_local
         /\ rl'[p].did_redirect = rl[p].did_redirect
<1> DEFINE a == Marked(Head(todo[p]).dest)
           m == [rl[p] EXCEPT !.added = @ \cup a]
<1>1. rl \in [Clients -> RouteLists]  BY RoutesTypeParts
<1>2. rl' = [rl EXCEPT ![p] = m] \/ rl' = rl  BY CommandSteps
<1>3. a \in SUBSET Nets  BY DEF Marked
<1>4. /\ m.mode = rl[p].mode /\ m.local = rl[p].local /\ m.gateway = rl[p].gateway
      /\ m.did_local = rl[p].did_local /\ m.did_redirect = rl[p].did_redirect
  <2> HIDE DEF a
  <2> QED BY <1>1, <1>3, MarkList
<1> HIDE DEF m
<1> QED BY <1>1, <1>2, <1>4

\* What is left after a command, position by position.
LEMMA CommandTail ==
  ASSUME RoutesTypeOK, NEW p \in Clients, Command(p)
  PROVE  /\ Len(todo[p]) \in Nat \ {0} /\ Len(todo'[p]) = Len(todo[p]) - 1
         /\ todo[p][1] = Head(todo[p])
         /\ \A i \in 1 .. Len(todo'[p]) : i + 1 \in 2 .. Len(todo[p]) /\ todo'[p][i] = todo[p][i + 1]
         /\ todo'[p] # <<>> => 1 \in 1 .. Len(todo'[p])
<1>1. todo[p] # <<>> /\ todo[p] \in Seq(RouteCommands) /\ todo'[p] = Tail(todo[p])
  BY CommandSteps
<1>2. Len(todo[p]) \in Nat \ {0}  BY <1>1, EmptySeq
<1>3. /\ Tail(todo[p]) \in Seq(RouteCommands) /\ Len(Tail(todo[p])) = Len(todo[p]) - 1
      /\ \A i \in 1 .. Len(Tail(todo[p])) : Tail(todo[p])[i] = todo[p][i + 1]
  BY <1>1, HeadTailProperties
<1>4. todo[p][1] = Head(todo[p])  BY <1>1
<1>5. \A i \in 1 .. Len(Tail(todo[p])) : i + 1 \in 2 .. Len(todo[p])  BY <1>2, <1>3
<1>6. Tail(todo[p]) # <<>> => Len(Tail(todo[p])) \in Nat \ {0}  BY <1>3, EmptySeq
<1>7. Tail(todo[p]) # <<>> => 1 \in 1 .. Len(Tail(todo[p]))  BY <1>6
<1> QED BY <1>1, <1>2, <1>3, <1>4, <1>5, <1>7

\* The commands that set routes up leave the host route alone, and redirect
\* only when the list says so.
LEMMA AddFacts ==
  ASSUME OwnNets, NEW p \in Clients, NEW mode, NEW did, NEW g,
         NEW c \in AddCommands(p, mode, did, g)
  PROVE  /\ c.dest # Remote[p]
         /\ c.dest \in {"low", "default"} => did
         /\ c.op = "add" => c.gw = p
<1>1. Remote[p] \notin Nets /\ "low" \notin Nets /\ "default" \notin Nets
  BY DEF OwnNets, Hosts
<1> QED BY <1>1, DestsAre DEF AddCommands

\* Giving a command of the setting up keeps the invariant of the lone client.
LEMMA AddAlone ==
  ASSUME NEW p, Clients = {p}, OwnNets, RoutesTypeOK, AloneInv(p), Command(p),
         phase[p] = "adding"
  PROVE  AloneInv(p)'
<1> p \in Clients  OBVIOUS
<1> DEFINE c == Head(todo[p])
           A == AddCommands(p, rl[p].mode, rl[p].did_redirect, rl[p].gateway)
<1>0. /\ c.dest \in Dests /\ phase' = phase
      /\ \/ /\ c.op = "add"
            /\ table' = [table EXCEPT ![c.dest] = c.gw]
            /\ bare' = bare /\ spoiled' = spoiled
         \/ /\ c.op = "delete"
            /\ table' = [table EXCEPT ![c.dest] = IF @ = c.gw THEN NoRoute ELSE @]
            /\ bare' = bare /\ spoiled' = spoiled
         \/ table' = table /\ Refused(p, c)
  BY CommandSteps
<1>1. /\ rl'[p].mode = rl[p].mode /\ rl'[p].local = rl[p].local
      /\ rl'[p].gateway = rl[p].gateway /\ rl'[p].did_local = rl[p].did_local
      /\ rl'[p].did_redirect = rl[p].did_redirect
  BY CommandKeepsList
<1>2. /\ Len(todo[p]) \in Nat \ {0} /\ todo[p][1] = c
      /\ \A i \in 1 .. Len(todo'[p]) : i + 1 \in 2 .. Len(todo[p]) /\ todo'[p][i] = todo[p][i + 1]
      /\ todo'[p] # <<>> => 1 \in 1 .. Len(todo'[p])
  BY CommandTail
<1>3. /\ \A i \in 1 .. Len(todo[p]) :
            todo[p][i] \in A \/ (i = 1 /\ rl[p].did_local /\ HostFirst(todo[p], p, rl[p].gateway))
  BY DEF AloneInv, TodoOk
<1>4. table \in [Dests -> Gateways \cup {NoRoute}]  BY DEF RoutesTypeOK
<1> HIDE DEF A, c
<1>5. \A i \in 1 .. Len(todo'[p]) : todo'[p][i] \in A  BY <1>2, <1>3
<1>6. ListOk(p)'  BY <1>1 DEF AloneInv, ListOk
<1>7. TodoOk(p)'  BY <1>0, <1>1, <1>5 DEF TodoOk, A
<1>8. ~HostFirst(todo'[p], p, rl'[p].gateway)
  <2>1. \A k \in A : k.dest # Remote[p]  BY AddFacts DEF A
  <2> QED BY <1>2, <1>5, <2>1 DEF HostFirst
<1>9. CASE c \in A
  <2>1. /\ c.dest # Remote[p]
        /\ c.dest \in {"low", "default"} => rl[p].did_redirect
    BY <1>9, AddFacts DEF A
  <2>0. \A d \in Dests \ {c.dest} : table'[d] = table[d]  BY <1>0, <1>4
  <2>2. table'[Remote[p]] = table[Remote[p]]  BY <2>0, <2>1, DestsAre
  <2>3. ~rl[p].did_redirect => table'["low"] = table["low"] /\ table'["default"] = table["default"]
    BY <2>0, <2>1, DestsAre
  <2>4. rl[p].did_local /\ p \notin bare => table[Remote[p]] = Lan
    BY <1>2, <2>1 DEF AloneInv, WayOk, HostFirst
  <2>6. bare' = bare  BY <1>0, <2>1 DEF Refused
  <2>5. WayOk(p)'
    BY <1>0, <1>1, <1>8, <2>2, <2>3, <2>4, <2>6 DEF AloneInv, WayOk
  <2> QED BY <1>6, <1>7, <2>5 DEF AloneInv
<1>10. CASE rl[p].did_local /\ HostFirst(todo[p], p, rl[p].gateway)
  <2>1. c.op = "add" /\ c.dest = Remote[p] /\ c.gw = Lan
    BY <1>2, <1>10 DEF HostFirst, AloneInv, ListOk
  <2>2. \/ table' = [table EXCEPT ![Remote[p]] = Lan]
        \/ table' = table /\ p \in bare'
    BY <1>0, <2>1, DestsAre DEF Refused
  <2>3. /\ table'[Remote[p]] = Lan \/ (table'[Remote[p]] = table[Remote[p]] /\ p \in bare')
        /\ table'["low"] = table["low"] /\ table'["default"] = table["default"]
    BY <1>4, <2>2, DestsAre
  <2>4. table["low"] # p /\ table["default"] # p /\ table[Remote[p]] # p
    BY <1>10 DEF AloneInv, WayOk
  <2>5. WayOk(p)'
    BY <1>0, <1>1, <1>8, <2>3, <2>4, DestsAre DEF WayOk
  <2> QED BY <1>6, <1>7, <2>5 DEF AloneInv
<1> QED BY <1>2, <1>3, <1>9, <1>10

\* Giving a command of the taking away keeps it.
LEMMA DeleteAlone ==
  ASSUME NEW p, Clients = {p}, RoutesTypeOK, AloneInv(p), Command(p),
         phase[p] = "deleting"
  PROVE  AloneInv(p)'
<1> p \in Clients  OBVIOUS
<1> DEFINE c == Head(todo[p])
           D == DeleteCommands(p, rl[p].gateway)
<1>0. /\ c.dest \in Dests /\ phase' = phase
      /\ \/ /\ c.op = "add"
            /\ table' = [table EXCEPT ![c.dest] = c.gw]
            /\ bare' = bare /\ spoiled' = spoiled
         \/ /\ c.op = "delete"
            /\ table' = [table EXCEPT ![c.dest] = IF @ = c.gw THEN NoRoute ELSE @]
            /\ bare' = bare /\ spoiled' = spoiled
         \/ table' = table /\ Refused(p, c)
  BY CommandSteps
<1>1. /\ rl'[p].mode = rl[p].mode /\ rl'[p].local = rl[p].local
      /\ rl'[p].gateway = rl[p].gateway /\ rl'[p].did_local = rl[p].did_local
      /\ rl'[p].did_redirect = rl[p].did_redirect
  BY CommandKeepsList
<1>2. /\ Len(todo[p]) \in Nat \ {0} /\ todo[p][1] = c
      /\ \A i \in 1 .. Len(todo'[p]) : i + 1 \in 2 .. Len(todo[p]) /\ todo'[p][i] = todo[p][i + 1]
  BY CommandTail
<1>3. \A i \in 1 .. Len(todo[p]) : todo[p][i] \in D
  BY DEF AloneInv, TodoOk
<1>4. table \in [Dests -> Gateways \cup {NoRoute}]  BY DEF RoutesTypeOK
<1> HIDE DEF D, c
<1>5. \A i \in 1 .. Len(todo'[p]) : todo'[p][i] \in D  BY <1>2, <1>3
<1>6. ListOk(p)'  BY <1>1 DEF AloneInv, ListOk
<1>7. TodoOk(p)'  BY <1>0, <1>1, <1>5 DEF TodoOk, D
<1>8. c \in D  BY <1>2, <1>3
<1>9. c.op = "add" => c.dest = "default" /\ c.gw # p
  BY <1>8 DEF D, DeleteCommands, AloneInv, ListOk
<1>10. \A d \in Dests : table[d] # p => table'[d] # p
  BY <1>0, <1>4, <1>9, DestsAre
<1>11. WayOk(p)'
  BY <1>0, <1>1, <1>10, DestsAre DEF AloneInv, WayOk
<1> QED BY <1>6, <1>7, <1>11 DEF AloneInv

\* The commands that take the routes away are all of DeleteCommands.
LEMMA CloseSteps ==
  ASSUME RoutesTypeOK, NEW p \in Clients, Close(p)
  PROVE  /\ phase[p] \in {"up", "kept"} /\ phase'[p] = "deleting"
         /\ table' = table /\ rl' = rl
         /\ todo'[p] = Unpush(p) \o If(rl[p].did_redirect, UndoRedirect(p))
         /\ UndoRedirect(p) \in Seq(DeleteCommands(p, rl[p].gateway))
         /\ todo'[p] \in Seq(DeleteCommands(p, rl[p].gateway))
<1> DEFINE g == rl[p].gateway
           D == DeleteCommands(p, g)
           s == If(rl[p].did_local, <<delete_route(Remote[p], g)>>)
           t == If(rl[p].mode = "def1", <<delete_route("low", p), delete_route("high", p)>>)
           u == If(rl[p].mode = "replace", <<delete_route("default", p)>>)
           v == If(rl[p].mode = "replace" /\ g # NoRoute, <<add_route("default", g)>>)
<1>1. rl[p] \in RouteLists  BY RoutesTypeParts
<1>2. g \in Gateways \cup {NoRoute} /\ rl[p].added \in SUBSET Nets
  BY <1>1 DEF RouteLists
<1>3. /\ delete_route(Remote[p], g) \in RouteCommands
      /\ \A d \in Dests : delete_route(d, p) \in RouteCommands
      /\ add_route("default", g) \in RouteCommands
  BY <1>2, DestsAre, CommandType
<1>4. /\ delete_route(Remote[p], g) \in D
      /\ \A d \in Dests : delete_route(d, p) \in D
      /\ g # NoRoute => add_route("default", g) \in D
  BY <1>3 DEF DeleteCommands, delete_route, add_route
<1> HIDE DEF D, g
<1>5. s \in Seq(D)  BY <1>4, IfType, ShortSeqs
<1>6. t \in Seq(D)
  <2>1. delete_route("low", p) \in D /\ delete_route("high", p) \in D  BY <1>4, DestsAre
  <2> QED BY <2>1, IfType, ShortSeqs
<1>7. u \in Seq(D)
  <2>1. delete_route("default", p) \in D  BY <1>4, DestsAre
  <2> QED BY <2>1, IfType, ShortSeqs
<1>8. v \in Seq(D)  BY <1>4, IfType, ShortSeqs
<1>9. UndoRedirect(p) = s \o t \o u \o v  BY DEF UndoRedirect, g
<1> HIDE DEF s, t, u, v
<1>10. UndoRedirect(p) \in Seq(D)  BY <1>5, <1>6, <1>7, <1>8, <1>9, FourParts
<1>11. Unpush(p) \in Seq(D)
  <2>1. {delete_route(d, p) : d \in Nets} \subseteq D  BY <1>4, DestsAre
  <2> QED BY <1>2, <2>1, UnpushType, SeqMonotonic
<1>12. If(rl[p].did_redirect, UndoRedirect(p)) \in Seq(D)  BY <1>10, IfType
<1>13. todo'[p] = Unpush(p) \o If(rl[p].did_redirect, UndoRedirect(p))
  BY DEF Close, RoutesTypeOK
<1>14. todo'[p] \in Seq(D)  BY <1>11, <1>12, <1>13, ConcatProperties
<1> QED BY <1>10, <1>13, <1>14 DEF Close, RoutesTypeOK, D, g

\* Close keeps the invariant of the lone client.
LEMMA CloseAlone ==
  ASSUME NEW p, Clients = {p}, RoutesTypeOK, AloneInv(p), Close(p)
  PROVE  AloneInv(p)'
<1> p \in Clients  OBVIOUS
<1>1. /\ phase[p] \in {"up", "kept"} /\ phase'[p] = "deleting"
      /\ table' = table /\ rl' = rl
      /\ todo'[p] \in Seq(DeleteCommands(p, rl[p].gateway))
  BY CloseSteps
<1>2. \A i \in 1 .. Len(todo'[p]) : todo'[p][i] \in DeleteCommands(p, rl[p].gateway)
  BY <1>1, ElementOfSeq
<1>3. ListOk(p)'  BY <1>1 DEF AloneInv, ListOk
<1>4. TodoOk(p)'  BY <1>1, <1>2 DEF TodoOk
<1>5. WayOk(p)'  BY <1>1 DEF AloneInv, WayOk
<1> QED BY <1>3, <1>4, <1>5 DEF AloneInv

\* Every step keeps the invariant of the lone client.
LEMMA AloneNext ==
  ASSUME NEW p, Clients = {p}, OwnNets, RoutesTypeOK, AloneInv(p), [RoutesNext]_routesVars
  PROVE  AloneInv(p)'
<1> p \in Clients  OBVIOUS
<1>1. CASE UNCHANGED routesVars
  BY <1>1 DEF routesVars, AloneInv, ListOk, TodoOk, WayOk
<1>2. CASE Open(p)  BY <1>2, OpenAlone
<1>3. CASE Command(p)
  <2>1. phase[p] \in {"adding", "deleting"}
    BY <1>3 DEF Command, AloneInv, TodoOk, RoutesTypeOK
  <2> QED BY <1>3, <2>1, AddAlone, DeleteAlone
<1>4. CASE Opened(p) \/ Keep(p) \/ Resume(p)
  <2>1. /\ table' = table /\ todo' = todo /\ rl' = rl
        /\ phase'[p] \in {"up", "kept"} /\ todo[p] = <<>>
        /\ phase[p] \in {"adding", "up", "kept"} /\ bare' = bare
    BY <1>4 DEF Opened, Keep, Resume, AloneInv, TodoOk, RoutesTypeOK
  <2>2. ~HostFirst(todo[p], p, rl[p].gateway)  BY <2>1 DEF HostFirst
  <2>3. ListOk(p)'  BY <2>1 DEF AloneInv, ListOk
  <2>4. TodoOk(p)'  BY <2>1 DEF TodoOk
  <2>5. WayOk(p)'  BY <2>1, <2>2 DEF AloneInv, WayOk
  <2> QED BY <2>3, <2>4, <2>5 DEF AloneInv
<1>5. CASE Close(p)  BY <1>5, CloseAlone
<1>6. CASE Closed(p)
  <2>1. /\ phase'[p] = "down" /\ todo' = todo /\ todo[p] = <<>> /\ rl'[p] = NoList
        /\ \A d \in Dests : table'[d] = IF table[d] = p THEN NoRoute ELSE table[d]
    BY <1>6 DEF Closed, RoutesTypeOK
  <2>2. \A d \in Dests : table'[d] # p  BY <2>1, DestsAre
  <2>3. ListOk(p)'  BY <2>1, DestsAre DEF ListOk, NoList
  <2>4. TodoOk(p)'  BY <2>1 DEF TodoOk
  <2>5. WayOk(p)'  BY <2>1, <2>2, DestsAre DEF WayOk
  <2> QED BY <2>3, <2>4, <2>5 DEF AloneInv
<1> QED BY <1>1, <1>2, <1>3, <1>4, <1>5, <1>6 DEF RoutesNext

\* The invariant of the lone client holds initially.
LEMMA AloneInit ==
  ASSUME NEW p \in Clients, RoutesInit
  PROVE  AloneInv(p)
<1>1. phase[p] = "down" /\ todo[p] = <<>> /\ rl[p] = NoList /\ table = Table0
  BY DEF RoutesInit
<1>2. \A d \in Dests : table[d] # p  BY <1>1, DestsAre DEF Table0
<1> QED BY <1>1, <1>2, DestsAre DEF AloneInv, ListOk, TodoOk, WayOk, NoList

\* A lone client never sends its packets to the server into its own tunnel
\* while it sets its routes up or runs: the host route is in place before the
\* default route is covered or replaced.  Any command may fail; only the failure
\* of the host route's own add is excepted (it does give the loop).
THEOREM LoneClientNoLoop ==
  ASSUME NEW p, Clients = {p}, OwnNets
  PROVE  RoutesSpec => []RouteInv
<1> p \in Clients  OBVIOUS
<1>1. RoutesInit => AloneInv(p)  BY AloneInit
<1>2. RoutesTypeOK /\ AloneInv(p) /\ [RoutesNext]_routesVars => AloneInv(p)'
  BY AloneNext
<1>3. RoutesTypeOK /\ AloneInv(p) => RouteInv  BY AloneNoLoop
<1> QED BY <1>1, <1>2, <1>3, RoutesTypes, PTL DEF RoutesSpec

-----------------------------------------------------------------------------
(* And on a machine that routed nothing but its default route.              *)
CleanTable == UserRoutes \subseteq {"default"}

\* A command is still to come.
Waits(s, op, d, g) == \E i \in 1 .. Len(s) : s[i].op = op /\ s[i].dest = d /\ s[i].gw = g

\* Where the table may differ from the one before, and what will mend it, or has
\* failed to.
HomeOk(p) ==
  /\ phase[p] # "down" /\ "default" \notin spoiled => rl[p].gateway = Table0["default"]
  /\ \A d \in Dests \ {"default", Remote[p]} : table[d] \in {NoRoute, p}
  /\ table[Remote[p]] # NoRoute /\ Remote[p] \notin spoiled =>
       /\ table[Remote[p]] = Lan /\ rl[p].did_local /\ phase[p] # "down"
       /\ phase[p] = "deleting" => Waits(todo[p], "delete", Remote[p], Lan)
  /\ table["default"] # Table0["default"] /\ "default" \notin spoiled =>
       /\ table["default"] \in {NoRoute, p} /\ phase[p] # "down"
       /\ rl[p].did_redirect /\ rl[p].mode = "replace"
       /\ phase[p] = "deleting" /\ rl[p].gateway # NoRoute =>
            Waits(todo[p], "add", "default", rl[p].gateway)

\* In the table before, only the default route may be there.
LEMMA CleanFacts ==
  ASSUME CleanTable, NEW p \in Clients
  PROVE  /\ Table0["default"] \in {Lan, NoRoute}
         /\ \A d \in Dests \ {"default"} : Table0[d] = NoRoute
BY DestsAre DEF CleanTable, Table0

\* A tunnel that is down has left the table as it was.
LEMMA HomeRestored ==
  ASSUME NEW p, Clients = {p}, CleanTable, RoutesTypeOK, AloneInv(p), HomeOk(p)
  PROVE  Restored
<1> p \in Clients  OBVIOUS
<1>1. ASSUME phase[p] = "down", NEW d \in Dests \ spoiled PROVE table[d] = Table0[d]
  <2>1. table[d] # p  BY <1>1 DEF AloneInv, WayOk
  <2> QED BY <1>1, <2>1, CleanFacts DEF HomeOk
<1> QED BY <1>1 DEF Restored

\* A command that waits in a part waits in the whole.
LEMMA WaitsConcat ==
  ASSUME NEW A, NEW s \in Seq(A), NEW t \in Seq(A), NEW op, NEW d, NEW g,
         Waits(s, op, d, g) \/ Waits(t, op, d, g)
  PROVE  Waits(s \o t, op, d, g)
<1>1. Len(s) \in Nat /\ Len(t) \in Nat  BY LenProperties
<1>2. /\ Len(s \o t) = Len(s) + Len(t)
      /\ \A i \in 1 .. Len(s) + Len(t) : (s \o t)[i] =
            IF i <= Len(s) THEN s[i] ELSE t[i - Len(s)]
  BY ConcatProperties, Zenon
<1>3. CASE Waits(s, op, d, g)
  <2>1. PICK i \in 1 .. Len(s) : s[i].op = op /\ s[i].dest = d /\ s[i].gw = g
    BY <1>3 DEF Waits
  <2>2. i \in 1 .. Len(s \o t) /\ (s \o t)[i] = s[i]  BY <1>1, <1>2
  <2> QED BY <2>1, <2>2 DEF Waits
<1>4. CASE Waits(t, op, d, g)
  <2>1. PICK i \in 1 .. Len(t) : t[i].op = op /\ t[i].dest = d /\ t[i].gw = g
    BY <1>4 DEF Waits
  <2>2. i + Len(s) \in 1 .. Len(s \o t) /\ (s \o t)[i + Len(s)] = t[i]
    <3>1. i + Len(s) \in 1 .. Len(s) + Len(t) /\ ~(i + Len(s) <= Len(s))
            /\ (i + Len(s)) - Len(s) = i
      BY <1>1
    <3> QED BY <1>2, <3>1
  <2> QED BY <2>1, <2>2 DEF Waits
<1> QED BY <1>3, <1>4

\* A command that waits is the next one or waits in the rest.
LEMMA WaitsTail ==
  ASSUME RoutesTypeOK, NEW p \in Clients, Command(p), NEW op, NEW d, NEW g,
         Waits(todo[p], op, d, g)
  PROVE  LET c == Head(todo[p])
         IN  (c.op = op /\ c.dest = d /\ c.gw = g) \/ Waits(todo'[p], op, d, g)
<1>1. PICK i \in 1 .. Len(todo[p]) :
        todo[p][i].op = op /\ todo[p][i].dest = d /\ todo[p][i].gw = g
  BY DEF Waits
<1>2. /\ Len(todo[p]) \in Nat \ {0} /\ Len(todo'[p]) = Len(todo[p]) - 1
      /\ todo[p][1] = Head(todo[p])
      /\ \A j \in 1 .. Len(todo'[p]) : todo'[p][j] = todo[p][j + 1]
  BY CommandTail
<1>3. CASE i = 1  BY <1>1, <1>2, <1>3
<1>4. CASE i # 1
  <2>1. i - 1 \in 1 .. Len(todo'[p]) /\ (i - 1) + 1 = i  BY <1>2, <1>4
  <2>2. todo'[p][i - 1] = todo[p][i]  BY <1>2, <2>1
  <2> QED BY <1>1, <2>1, <2>2 DEF Waits
<1> QED BY <1>3, <1>4

\* Open keeps HomeOk.
LEMMA OpenHome ==
  ASSUME NEW p, Clients = {p}, CleanTable, RoutesTypeOK, AloneInv(p), HomeOk(p), Open(p)
  PROVE  HomeOk(p)'
<1> p \in Clients  OBVIOUS
<1>1. /\ phase[p] = "down" /\ phase'[p] = "adding" /\ table' = table
      /\ rl'[p].gateway = table["default"] /\ spoiled' = spoiled
  BY OpenSteps DEF Open
<1>2. /\ "default" \notin spoiled => table["default"] = Table0["default"]
      /\ Remote[p] \notin spoiled => table[Remote[p]] = NoRoute
  BY <1>1 DEF HomeOk
<1>3. \A d \in Dests \ {"default", Remote[p]} : table[d] \in {NoRoute, p}
  BY DEF HomeOk
<1> QED BY <1>1, <1>2, <1>3 DEF HomeOk, Table0

\* Giving a command of the setting up keeps HomeOk.
LEMMA AddHome ==
  ASSUME NEW p, Clients = {p}, OwnNets, CleanTable, RoutesTypeOK, AloneInv(p), HomeOk(p),
         Command(p), phase[p] = "adding"
  PROVE  HomeOk(p)'
<1> p \in Clients  OBVIOUS
<1> DEFINE c == Head(todo[p])
           A == AddCommands(p, rl[p].mode, rl[p].did_redirect, rl[p].gateway)
<1>0. /\ c.dest \in Dests /\ phase' = phase
      /\ \/ /\ c.op = "add"
            /\ table' = [table EXCEPT ![c.dest] = c.gw]
            /\ bare' = bare /\ spoiled' = spoiled
         \/ /\ c.op = "delete"
            /\ table' = [table EXCEPT ![c.dest] = IF @ = c.gw THEN NoRoute ELSE @]
            /\ bare' = bare /\ spoiled' = spoiled
         \/ table' = table /\ Refused(p, c)
  BY CommandSteps
<1>1. /\ rl'[p].mode = rl[p].mode /\ rl'[p].gateway = rl[p].gateway
      /\ rl'[p].did_local = rl[p].did_local /\ rl'[p].did_redirect = rl[p].did_redirect
  BY CommandKeepsList
<1>2. /\ Len(todo[p]) \in Nat \ {0} /\ todo[p][1] = c
  BY CommandTail
<1>3. c \in A \/ (rl[p].did_local /\ HostFirst(todo[p], p, rl[p].gateway))
  BY <1>2 DEF AloneInv, TodoOk
<1>4. table \in [Dests -> Gateways \cup {NoRoute}]  BY DEF RoutesTypeOK
<1>5. /\ table'[c.dest] \in {c.gw, NoRoute, table[c.dest]}
      /\ c.op = "add" => table'[c.dest] \in {c.gw, table[c.dest]}
      /\ c.op = "delete" => table'[c.dest] \in {NoRoute, table[c.dest]}
      /\ \A d \in Dests \ {c.dest} : table'[d] = table[d]
  <2> HIDE DEF c
  <2> QED BY <1>0, <1>4
<1>6. spoiled' = spoiled  BY <1>0 DEF Refused
<1> HIDE DEF A, c
<1>7. CASE c \in A
  <2>1. c.dest # Remote[p] /\ c.op \in {"add", "delete"} /\ (c.op = "add" => c.gw = p)
    <3>1. c.dest # Remote[p] /\ (c.op = "add" => c.gw = p)  BY <1>7, AddFacts DEF A
    <3>2. c.op \in {"add", "delete"}  BY <1>7 DEF A, AddCommands
    <3> QED BY <3>1, <3>2
  <2>2. c.dest = "default" => rl[p].did_redirect /\ rl[p].mode = "replace"
    <3>1. "default" \notin Nets  BY DEF OwnNets
    <3> QED BY <1>7, <3>1 DEF A, AddCommands
  <2>3. table'[c.dest] \in {p, NoRoute, table[c.dest]}  BY <1>5, <2>1
  <2>4. \A d \in Dests \ {"default", Remote[p]} : table'[d] \in {NoRoute, p}
    BY <1>5, <2>3 DEF HomeOk
  <2>5. table'[Remote[p]] = table[Remote[p]]  BY <1>5, <2>1, DestsAre
  <2>6. CASE c.dest = "default"
    <3>1. table'["default"] \in {p, NoRoute, table["default"]}  BY <2>3, <2>6
    <3>2. table'["default"] # Table0["default"] /\ "default" \notin spoiled =>
            table'["default"] \in {NoRoute, p}
      BY <3>1 DEF HomeOk
    <3> QED BY <1>0, <1>1, <1>6, <2>2, <2>4, <2>5, <2>6, <3>2 DEF HomeOk, Table0
  <2>7. CASE c.dest # "default"
    <3>1. table'["default"] = table["default"]  BY <1>5, <2>7, DestsAre
    <3> QED BY <1>0, <1>1, <1>6, <2>4, <2>5, <3>1 DEF HomeOk, Table0
  <2> QED BY <2>6, <2>7
<1>8. CASE rl[p].did_local /\ HostFirst(todo[p], p, rl[p].gateway)
  <2>1. c.op = "add" /\ c.dest = Remote[p] /\ c.gw = Lan
    BY <1>2, <1>8 DEF HostFirst, AloneInv, ListOk
  <2>2. table'[Remote[p]] \in {Lan, table[Remote[p]]}  BY <1>5, <2>1
  <2>3. \A d \in Dests \ {Remote[p]} : table'[d] = table[d]  BY <1>5, <2>1
  <2>4. table'["default"] = table["default"]  BY <2>3, DestsAre
  <2>5. \A d \in Dests \ {"default", Remote[p]} : table'[d] \in {NoRoute, p}
    BY <2>3 DEF HomeOk
  <2> QED BY <1>0, <1>1, <1>6, <1>8, <2>2, <2>4, <2>5 DEF HomeOk, Table0
<1> QED BY <1>3, <1>7, <1>8

\* Giving a command of the taking away keeps HomeOk: a delete of the tunnel's
\* routes mends, the two other commands are waited for until they come, and when
\* one of them fails its destination is spoiled.
LEMMA DeleteHome ==
  ASSUME NEW p, Clients = {p}, CleanTable, RoutesTypeOK, AloneInv(p), HomeOk(p),
         Command(p), phase[p] = "deleting"
  PROVE  HomeOk(p)'
<1> p \in Clients  OBVIOUS
<1> DEFINE c == Head(todo[p])
           g == rl[p].gateway
<1>0. /\ c.dest \in Dests /\ phase' = phase
      /\ \/ /\ c.op = "add"
            /\ table' = [table EXCEPT ![c.dest] = c.gw]
            /\ bare' = bare /\ spoiled' = spoiled
         \/ /\ c.op = "delete"
            /\ table' = [table EXCEPT ![c.dest] = IF @ = c.gw THEN NoRoute ELSE @]
            /\ bare' = bare /\ spoiled' = spoiled
         \/ table' = table /\ Refused(p, c)
  BY CommandSteps
<1>1. /\ rl'[p].mode = rl[p].mode /\ rl'[p].gateway = g
      /\ rl'[p].did_local = rl[p].did_local /\ rl'[p].did_redirect = rl[p].did_redirect
  BY CommandKeepsList
<1>2. /\ Len(todo[p]) \in Nat \ {0} /\ todo[p][1] = c
  BY CommandTail
<1>3. c \in DeleteCommands(p, g)
  BY <1>2 DEF AloneInv, TodoOk
<1>4. table \in [Dests -> Gateways \cup {NoRoute}]  BY DEF RoutesTypeOK
<1>5. /\ g \in {Lan, NoRoute}
      /\ "default" \notin spoiled => g = Table0["default"]
  <2>1. g \in Gateways \cup {NoRoute} /\ g # p
    BY RoutesTypeParts DEF RouteLists, AloneInv, ListOk
  <2> QED BY <2>1 DEF Gateways, HomeOk
<1>6. /\ \A op, d, k : Waits(todo[p], op, d, k) =>
            (c.op = op /\ c.dest = d /\ c.gw = k) \/ Waits(todo'[p], op, d, k)
  BY WaitsTail
<1> HIDE DEF c, g
<1>7. \/ c.op = "delete" /\ c.gw = p
      \/ c.op = "delete" /\ c.gw = g /\ c.dest = Remote[p]
      \/ c.op = "add" /\ c.gw = Lan /\ c.gw = g /\ c.dest = "default"
  BY <1>3, <1>5 DEF DeleteCommands
<1>8. \A d \in Dests \ {c.dest} : table'[d] = table[d]  BY <1>0, <1>4
<1>9. c.op = "delete" =>
        table'[c.dest] \in {IF table[c.dest] = c.gw THEN NoRoute ELSE table[c.dest], table[c.dest]}
  BY <1>0, <1>4
<1>14. /\ spoiled \subseteq spoiled'
       /\ c.gw # p /\ c.dest \notin spoiled' =>
            /\ c.op = "add" => table'[c.dest] = c.gw
            /\ c.op = "delete" => table'[c.dest] # c.gw \/ c.gw = NoRoute
  BY <1>0, <1>4 DEF Refused
<1>10. c.op = "add" /\ "default" \notin spoiled' =>
         table'["default"] = Table0["default"] /\ c.dest = "default"
  BY <1>5, <1>7, <1>14, DestsAre
<1>11. \A d \in Dests \ {"default", Remote[p]} : table'[d] \in {NoRoute, p}
  <2> TAKE d \in Dests \ {"default", Remote[p]}
  <2>1. table[d] \in {NoRoute, p}  BY DEF HomeOk
  <2>2. CASE c.dest # d  BY <1>8, <2>1, <2>2
  <2>3. CASE c.dest = d  BY <1>7, <1>9, <2>1, <2>3
  <2> QED BY <2>2, <2>3
<1>12. table'[Remote[p]] # NoRoute /\ Remote[p] \notin spoiled' =>
         /\ table'[Remote[p]] = Lan /\ rl[p].did_local
         /\ Waits(todo'[p], "delete", Remote[p], Lan)
  <2> SUFFICES ASSUME table'[Remote[p]] # NoRoute, Remote[p] \notin spoiled'
               PROVE  /\ table'[Remote[p]] = Lan /\ rl[p].did_local
                      /\ Waits(todo'[p], "delete", Remote[p], Lan)
    OBVIOUS
  <2>1. table[Remote[p]] = table'[Remote[p]]
    <3>1. CASE c.dest # Remote[p]  BY <1>8, <3>1, DestsAre
    <3>2. CASE c.dest = Remote[p]  BY <1>7, <1>9, <3>2, DestsAre
    <3> QED BY <3>1, <3>2
  <2>2. table[Remote[p]] = Lan /\ rl[p].did_local /\ Waits(todo[p], "delete", Remote[p], Lan)
    BY <1>14, <2>1 DEF HomeOk
  <2>3. ~(c.op = "delete" /\ c.dest = Remote[p] /\ c.gw = Lan)
    BY <1>14, <2>1, <2>2, DestsAre
  <2> QED BY <1>6, <2>1, <2>2, <2>3
<1>13. table'["default"] # Table0["default"] /\ "default" \notin spoiled' =>
         /\ table'["default"] \in {NoRoute, p}
         /\ rl[p].did_redirect /\ rl[p].mode = "replace"
         /\ g # NoRoute => Waits(todo'[p], "add", "default", g)
  <2> SUFFICES ASSUME table'["default"] # Table0["default"], "default" \notin spoiled'
               PROVE  /\ table'["default"] \in {NoRoute, p}
                      /\ rl[p].did_redirect /\ rl[p].mode = "replace"
                      /\ g # NoRoute => Waits(todo'[p], "add", "default", g)
    OBVIOUS
  <2>0. "default" \notin spoiled  BY <1>14
  <2>1. c.op = "delete"  BY <1>7, <1>10
  <2>2. c.dest = "default" => c.gw = p  BY <1>7, <2>1, DestsAre
  <2>3. table["default"] # p => table'["default"] = table["default"]
    BY <1>8, <1>9, <2>1, <2>2, DestsAre
  <2>4. table["default"] # Table0["default"]  BY <1>5, <2>0, <2>3, DestsAre
  <2>5. /\ table["default"] \in {NoRoute, p}
        /\ rl[p].did_redirect /\ rl[p].mode = "replace"
        /\ g # NoRoute => Waits(todo[p], "add", "default", g)
    BY <2>0, <2>4 DEF HomeOk, g
  <2>6. table'["default"] \in {NoRoute, p}
    BY <1>8, <1>9, <2>1, <2>2, <2>5, DestsAre
  <2> QED BY <1>6, <2>1, <2>5, <2>6
<1> QED BY <1>0, <1>1, <1>5, <1>11, <1>12, <1>13, <1>14 DEF HomeOk, Table0, g

\* A sequence of one command waits with it.
LEMMA WaitsOne ==
  ASSUME NEW c
  PROVE  Waits(<<c>>, c.op, c.dest, c.gw)
BY DEF Waits

\* What undoes a redirection deletes the host route and brings the default
\* route back.
LEMMA UndoWaits ==
  ASSUME RoutesTypeOK, NEW p \in Clients, rl[p].did_redirect, Close(p)
  PROVE  /\ rl[p].did_local => Waits(todo'[p], "delete", Remote[p], rl[p].gateway)
         /\ rl[p].mode = "replace" /\ rl[p].gateway # NoRoute =>
              Waits(todo'[p], "add", "default", rl[p].gateway)
<1> DEFINE g == rl[p].gateway
           s == If(rl[p].did_local, <<delete_route(Remote[p], g)>>)
           t == If(rl[p].mode = "def1", <<delete_route("low", p), delete_route("high", p)>>)
           u == If(rl[p].mode = "replace", <<delete_route("default", p)>>)
           v == If(rl[p].mode = "replace" /\ g # NoRoute, <<add_route("default", g)>>)
<1>1. rl[p] \in RouteLists  BY RoutesTypeParts
<1>2. g \in Gateways \cup {NoRoute} /\ rl[p].added \in SUBSET Nets
  BY <1>1 DEF RouteLists
<1>3. /\ delete_route(Remote[p], g) \in RouteCommands
      /\ \A d \in Dests : delete_route(d, p) \in RouteCommands
      /\ add_route("default", g) \in RouteCommands
  BY <1>2, DestsAre, CommandType
<1>4. s \in Seq(RouteCommands)  BY <1>3, IfType, ShortSeqs
<1>5. t \in Seq(RouteCommands)  BY <1>3, IfType, ShortSeqs, DestsAre
<1>6. u \in Seq(RouteCommands)  BY <1>3, IfType, ShortSeqs, DestsAre
<1>7. v \in Seq(RouteCommands)  BY <1>3, IfType, ShortSeqs
<1>8. rl[p].did_local => Waits(s, "delete", Remote[p], g)
  BY WaitsOne DEF If, delete_route
<1>9. rl[p].mode = "replace" /\ g # NoRoute => Waits(v, "add", "default", g)
  BY WaitsOne DEF If, add_route
<1>10. todo'[p] = Unpush(p) \o (s \o t \o u \o v)
  BY CloseSteps DEF UndoRedirect, If
<1>11. Unpush(p) \in Seq(RouteCommands)
  <2>1. {delete_route(d, p) : d \in Nets} \subseteq RouteCommands  BY <1>3, DestsAre
  <2> QED BY <1>2, <2>1, UnpushType, SeqMonotonic
<1> HIDE DEF g, s, t, u, v
<1>12. s \o t \in Seq(RouteCommands)  BY <1>4, <1>5, ConcatProperties
<1>13. s \o t \o u \in Seq(RouteCommands)  BY <1>6, <1>12, ConcatProperties
<1>14. s \o t \o u \o v \in Seq(RouteCommands)  BY <1>7, <1>13, ConcatProperties
<1>15. ASSUME rl[p].did_local PROVE Waits(todo'[p], "delete", Remote[p], g)
  <2>1. Waits(s \o t, "delete", Remote[p], g)  BY <1>4, <1>5, <1>8, <1>15, WaitsConcat
  <2>2. Waits(s \o t \o u, "delete", Remote[p], g)  BY <1>6, <1>12, <2>1, WaitsConcat
  <2>3. Waits(s \o t \o u \o v, "delete", Remote[p], g)  BY <1>7, <1>13, <2>2, WaitsConcat
  <2> QED BY <1>10, <1>11, <1>14, <2>3, WaitsConcat
<1>16. ASSUME rl[p].mode = "replace", g # NoRoute PROVE Waits(todo'[p], "add", "default", g)
  <2>1. Waits(s \o t \o u \o v, "add", "default", g)
    BY <1>7, <1>9, <1>13, <1>16, WaitsConcat
  <2> QED BY <1>10, <1>11, <1>14, <2>1, WaitsConcat
<1> QED BY <1>15, <1>16 DEF g

\* Every step keeps HomeOk.
LEMMA HomeNext ==
  ASSUME NEW p, Clients = {p}, OwnNets, CleanTable, RoutesTypeOK, AloneInv(p), HomeOk(p),
         [RoutesNext]_routesVars
  PROVE  HomeOk(p)'
<1> p \in Clients  OBVIOUS
<1>1. CASE UNCHANGED routesVars
  BY <1>1 DEF routesVars, HomeOk, Table0
<1>2. CASE Open(p)  BY <1>2, OpenHome
<1>3. CASE Command(p)
  <2>1. phase[p] \in {"adding", "deleting"}
    BY <1>3 DEF Command, AloneInv, TodoOk, RoutesTypeOK
  <2> QED BY <1>3, <2>1, AddHome, DeleteHome
<1>4. CASE Opened(p) \/ Keep(p) \/ Resume(p)
  <2>1. /\ table' = table /\ todo' = todo /\ rl' = rl /\ spoiled' = spoiled
        /\ phase'[p] \in {"up", "kept"} /\ phase[p] \in {"adding", "up", "kept"}
    BY <1>4 DEF Opened, Keep, Resume, RoutesTypeOK
  <2> QED BY <2>1 DEF HomeOk, Table0
<1>5. CASE Close(p)
  <2>1. /\ phase[p] \in {"up", "kept"} /\ phase'[p] = "deleting"
        /\ table' = table /\ rl' = rl /\ spoiled' = spoiled
    BY <1>5, CloseSteps DEF Close
  <2>2. rl[p].did_local => rl[p].gateway = Lan /\ rl[p].did_redirect
    BY DEF AloneInv, ListOk
  <2>3. rl[p].did_local => Waits(todo'[p], "delete", Remote[p], Lan)
    BY <1>5, <2>2, UndoWaits
  <2>4. rl[p].did_redirect /\ rl[p].mode = "replace" /\ rl[p].gateway # NoRoute =>
          Waits(todo'[p], "add", "default", rl[p].gateway)
    BY <1>5, UndoWaits
  <2> QED BY <2>1, <2>3, <2>4 DEF HomeOk, Table0
<1>6. CASE Closed(p)
  <2>1. /\ phase[p] = "deleting" /\ phase'[p] = "down" /\ todo[p] = <<>> /\ spoiled' = spoiled
        /\ \A d \in Dests : table'[d] = IF table[d] = p THEN NoRoute ELSE table[d]
    BY <1>6 DEF Closed, RoutesTypeOK
  <2>2. \A op, d, g : ~Waits(todo[p], op, d, g)  BY <2>1 DEF Waits
  <2>3. Remote[p] \notin spoiled => table'[Remote[p]] = NoRoute
    BY <2>1, <2>2, DestsAre DEF HomeOk
  <2>4. ASSUME "default" \notin spoiled PROVE table'["default"] = Table0["default"]
    <3>1. rl[p].gateway = Table0["default"] /\ Table0["default"] # p
      BY <2>1, <2>4, CleanFacts, DestsAre DEF HomeOk
    <3>2. CASE table["default"] = Table0["default"]  BY <2>1, <3>1, <3>2, DestsAre
    <3>3. CASE table["default"] # Table0["default"]
      <4>1. table["default"] \in {NoRoute, p} /\ rl[p].gateway = NoRoute
        BY <2>1, <2>2, <2>4, <3>3 DEF HomeOk
      <4> QED BY <2>1, <3>1, <4>1, DestsAre
    <3> QED BY <3>2, <3>3
  <2>5. \A d \in Dests \ {"default", Remote[p]} : table'[d] \in {NoRoute, p}
    BY <2>1 DEF HomeOk
  <2> QED BY <2>1, <2>3, <2>4, <2>5 DEF HomeOk, Table0
<1> QED BY <1>1, <1>2, <1>3, <1>4, <1>5, <1>6 DEF RoutesNext

\* Whenever the tunnel of a lone client is down every route is the one before the
\* client first ran, if the table held no route of the user's but the default
\* one.  Any command may fail in any session; only the failure of the delete of
\* the host route, or of the add that restores the default route, leaves a mark,
\* and only on its own destination.
THEOREM LoneClientRestores ==
  ASSUME NEW p, Clients = {p}, OwnNets, CleanTable
  PROVE  RoutesSpec => []Restored
<1> p \in Clients  OBVIOUS
<1>1. RoutesInit => AloneInv(p)  BY AloneInit
<1>2. RoutesInit => HomeOk(p)
  <2> SUFFICES ASSUME RoutesInit PROVE HomeOk(p)  OBVIOUS
  <2>1. phase[p] = "down" /\ table = Table0 /\ spoiled = {}  BY DEF RoutesInit
  <2>2. table["default"] = Table0["default"] /\ \A d \in Dests \ {"default"} : table[d] = NoRoute
    BY <2>1, CleanFacts
  <2> QED BY <2>1, <2>2, DestsAre DEF HomeOk
<1>3. RoutesTypeOK /\ AloneInv(p) /\ [RoutesNext]_routesVars => AloneInv(p)'
  BY AloneNext
<1>4. RoutesTypeOK /\ AloneInv(p) /\ HomeOk(p) /\ [RoutesNext]_routesVars => HomeOk(p)'
  BY HomeNext
<1>5. RoutesTypeOK /\ AloneInv(p) /\ HomeOk(p) => Restored  BY HomeRestored
<1> QED BY <1>1, <1>2, <1>3, <1>4, <1>5, RoutesTypes, PTL DEF RoutesSpec

=============================================================================
