------------------------------ MODULE PidFile ------------------------------
(***************************************************************************)
(* The file last_ovpn_pid and the processes it names, over crashes and     *)
(* restarts of the client.                                                 *)
(*                                                                         *)
(* Writers of the file: the connect_ovpn tasks, which record a pid, and    *)
(* the two threads that may run kill_openvpn, which clear it: the one that *)
(* disconnects ("stop") and the startup reaper ("reaper").  They share no  *)
(* lock: the mutex under which a task records is its own ProcessInfo's.    *)
(*                                                                         *)
(* A pid names a slot of the kernel's process table; a slot that is free   *)
(* may be taken by a process that has nothing to do with the client.       *)
(***************************************************************************)
EXTENDS Naturals

CONSTANTS
  Pids,         \* what spawn may return, and what may stand in the file
  NoPid,        \* an empty file, or one that does not parse
  Short,        \* pids with fewer digits than the others
  Tasks,        \* connect_ovpn tasks of one run of the client
  Escalations,  \* how connect_ovpn becomes root: "pkexec", "sudo" or either
  PsOutcomes,   \* what ps may do: "prints", "silent" or "fails"
  Refusals      \* whether the user may refuse the privileged kill

ASSUME PidAssumption ==
  /\ NoPid \notin Pids
  /\ Short \subseteq Pids
  /\ Escalations \subseteq {"pkexec", "sudo"}
  /\ PsOutcomes \subseteq {"prints", "silent", "fails"}
  /\ Refusals \in BOOLEAN

Killers == {"stop", "reaper"}

VARIABLES
  up,       \* the client runs
  file,     \* what read_last_pid returns
  table,    \* the process under each pid; "termed" is an OpenVPN with a SIGTERM
  tpc,      \* where each connect_ovpn task is
  child,    \* the pid of each task's Child
  info,     \* ProcessInfo.pid of each task
  dropped,  \* tasks whose JoinHandle was aborted
  kpc,      \* where each thread that may run kill_openvpn is
  kpid,     \* its argument
  same      \* ghost: during the kill, the process under kpid is still the one
            \* that ps looked at

taskVars == <<tpc, child, info, dropped>>
killVars == <<kpc, kpid, same>>
vars == <<up, file, table, taskVars, killVars>>

Init ==
  /\ up = FALSE /\ file = NoPid
  /\ table = [p \in Pids |-> "free"]
  /\ tpc = [t \in Tasks |-> "none"]
  /\ child = [t \in Tasks |-> NoPid] /\ info = [t \in Tasks |-> NoPid]
  /\ dropped = {}
  /\ kpc = [k \in Killers |-> "idle"]
  /\ kpid = [k \in Killers |-> NoPid]
  /\ same = [k \in Killers |-> TRUE]

-----------------------------------------------------------------------------
(* The file.                                                               *)

\* set_len(0) by whoever writes; for save_last_pid(None) nothing follows.
Cleared == NoPid

\* write! at the offset of a handle opened before: what another task wrote
\* since the truncation, if it is longer, shows behind the new digits.
Overlay(new, old) ==
  IF old # NoPid /\ new \in Short /\ old \notin Short THEN Pids \ {new} ELSE {new}

-----------------------------------------------------------------------------
(* The client starts, and dies without a word.                             *)

\* main and initialize_app: a pid on record is killed five seconds later, by a
\* thread of its own.
Start ==
  /\ ~up /\ up' = TRUE
  /\ IF file = NoPid
     THEN UNCHANGED <<kpc, kpid>>
     ELSE /\ kpc' = [kpc EXCEPT !["reaper"] = "sleep"]
          /\ kpid' = [kpid EXCEPT !["reaper"] = file]
  /\ UNCHANGED <<file, table, taskVars, same>>

\* The threads and the tasks are gone, no destructor runs, the processes and
\* the file stay.
Crash ==
  /\ up /\ up' = FALSE
  /\ tpc' = [t \in Tasks |-> "none"]
  /\ child' = [t \in Tasks |-> NoPid] /\ info' = [t \in Tasks |-> NoPid]
  /\ dropped' = {}
  /\ kpc' = [k \in Killers |-> "idle"]
  /\ kpid' = [k \in Killers |-> NoPid]
  /\ same' = [k \in Killers |-> TRUE]
  /\ UNCHANGED <<file, table>>

-----------------------------------------------------------------------------
(* connect_ovpn.                                                           *)

Spawn(t) ==
  /\ up /\ tpc[t] = "none"
  /\ \E p \in Pids :
       /\ table[p] = "free"
       /\ table' = [table EXCEPT ![p] = "prompt"]
       /\ child' = [child EXCEPT ![t] = p]
  /\ tpc' = [tpc EXCEPT ![t] = "spawned"]
  /\ UNCHANGED <<up, file, info, dropped, killVars>>

\* The pid is stored under the lock of ProcessInfo, and the file truncated ...
RecordTruncate(t) ==
  /\ up /\ tpc[t] = "spawned"
  /\ info' = [info EXCEPT ![t] = child[t]]
  /\ file' = Cleared
  /\ tpc' = [tpc EXCEPT ![t] = "truncated"]
  /\ UNCHANGED <<up, table, child, dropped, killVars>>

\* Mutant: the two halves of save_last_pid : nothing is written at the end.
RecordWriteEarly(t) ==
  /\ up /\ tpc[t] = "truncated"
  /\ file' = Cleared
  /\ tpc' = [tpc EXCEPT ![t] = "reading"]
  /\ UNCHANGED <<up, table, child, info, dropped, killVars>>

\* ... and then written.
RecordWrite(t) ==
  /\ up /\ tpc[t] = "truncated"
  /\ file' \in Overlay(child[t], file)
  /\ tpc' = [tpc EXCEPT ![t] = "reading"]
  /\ UNCHANGED <<up, table, child, info, dropped, killVars>>

\* The abort takes effect at the await: Child is dropped and SIGKILL sent,
\* which a process that has become root does not get.
DropChild(t) ==
  /\ up /\ tpc[t] = "reading" /\ t \in dropped
  /\ tpc' = [tpc EXCEPT ![t] = "gone"]
  /\ table' = IF table[child[t]] = "prompt"
              THEN [table EXCEPT ![child[t]] = "free"] ELSE table
  /\ UNCHANGED <<up, file, child, info, dropped, killVars>>

\* The output of OpenVPN ends and the status is collected.  The pid stays in
\* the file.
Reap(t) ==
  /\ up /\ tpc[t] = "reading" /\ table[child[t]] = "exited"
  /\ tpc' = [tpc EXCEPT ![t] = "gone"]
  /\ table' = [table EXCEPT ![child[t]] = "free"]
  /\ UNCHANGED <<up, file, child, info, dropped, killVars>>

-----------------------------------------------------------------------------
(* OavcProcessTask::abort and kill_openvpn.                                *)

\* abort marks the task and then locks ProcessInfo for the pid: until the task
\* has it recorded there is none, and while the task records it waits.
Abort(t) ==
  /\ up /\ kpc["stop"] = "idle"
  /\ tpc[t] \in {"spawned", "reading", "gone"} /\ t \notin dropped
  /\ dropped' = dropped \cup {t}
  /\ IF info[t] = NoPid
     THEN UNCHANGED <<kpc, kpid>>
     ELSE /\ kpc' = [kpc EXCEPT !["stop"] = "ps"]
          /\ kpid' = [kpid EXCEPT !["stop"] = info[t]]
  /\ UNCHANGED <<up, file, table, tpc, child, info, same>>

\* The reaper wakes up.
Wake ==
  /\ up /\ kpc["reaper"] = "sleep"
  /\ kpc' = [kpc EXCEPT !["reaper"] = "ps"]
  /\ UNCHANGED <<up, file, table, taskVars, kpid, same>>

\* Mutant: any process under the pid will do.
RecognisedAny(p) == table[p] \notin {"free", "exited"}

\* Mutant: the test fits the command line of sudo only.
RecognisedSudo(p) == table[p] = "sudo"

\* What ps -o cmd shows for a pid passes the three tests on the command line
\* and begins with a slash.  pkexec shows itself until the user has agreed and
\* then executes OpenVPN in its place; sudo shows itself as long as it runs.
Recognised(p) == table[p] \in {"openvpn", "termed"}

Ps(k) ==
  /\ up /\ kpc[k] = "ps"
  /\ \E o \in PsOutcomes :
       \/ /\ o = "silent"                           \* no line: the pid is kept
          /\ kpc' = [kpc EXCEPT ![k] = "vain"]
          /\ UNCHANGED file
       \/ /\ o = "fails"
          /\ kpc' = [kpc EXCEPT ![k] = "vain"]
          /\ file' = Cleared
       \/ /\ o = "prints" /\ ~Recognised(kpid[k])
          /\ kpc' = [kpc EXCEPT ![k] = "over"]
          /\ file' = Cleared
       \/ /\ o = "prints" /\ Recognised(kpid[k])
          /\ kpc' = [kpc EXCEPT ![k] = "kill"]
          /\ UNCHANGED file
  /\ UNCHANGED <<up, table, taskVars, kpid, same>>

\* p.wait() comes back when the privileged kill has sent its SIGTERM, or was
\* refused: the result is thrown away.  An OpenVPN ends later, in its own time.
\* A kill that cannot be spawned panics; the thread is gone, the record stays.
Kill(k) ==
  /\ up /\ kpc[k] = "kill"
  /\ \/ /\ kpc' = [kpc EXCEPT ![k] = "clear"]
        /\ table' = IF table[kpid[k]] = "openvpn"
                    THEN [table EXCEPT ![kpid[k]] = "termed"] ELSE table
     \/ /\ Refusals
        /\ kpc' = [kpc EXCEPT ![k] = "clearRefused"]
        /\ UNCHANGED table
     \/ /\ kpc' = [kpc EXCEPT ![k] = "panicked"]
        /\ UNCHANGED table
  /\ same' = [same EXCEPT ![k] = TRUE]
  /\ UNCHANGED <<up, file, taskVars, kpid>>

\* save_last_pid(None), whatever stands in the file by now.
Clear(k) ==
  /\ up /\ kpc[k] \in {"clear", "clearRefused"}
  /\ file' = Cleared
  /\ kpc' = [kpc EXCEPT ![k] = IF kpc[k] = "clear" THEN "over" ELSE "vain"]
  /\ UNCHANGED <<up, table, taskVars, kpid, same>>

\* Mutant: the argument of the last kill stays behind.
RestKeepsPid ==
  /\ up /\ kpc["stop"] \in {"over", "vain"}
  /\ kpc' = [kpc EXCEPT !["stop"] = "idle"]
  /\ UNCHANGED <<up, file, table, taskVars, kpid, same>>

\* The thread that disconnected may disconnect again.
Rest ==
  /\ up /\ kpc["stop"] \in {"over", "vain"}
  /\ kpc' = [kpc EXCEPT !["stop"] = "idle"]
  /\ kpid' = [kpid EXCEPT !["stop"] = NoPid]
  /\ UNCHANGED <<up, file, table, taskVars, same>>

-----------------------------------------------------------------------------
(* The processes.  A child that has exited keeps its pid until its parent  *)
(* collects the status; without a parent init does.                        *)

\* The user agrees: pkexec becomes OpenVPN, sudo starts it under another pid.
Authorise(p) ==
  /\ table[p] = "prompt"
  /\ \E e \in Escalations :
       table' = [table EXCEPT ![p] = IF e = "pkexec" THEN "openvpn" ELSE "sudo"]
  /\ UNCHANGED <<up, file, taskVars, killVars>>

Owned(p) == \E t \in Tasks : child[t] = p /\ tpc[t] \in {"spawned", "truncated", "reading"}

Exit(p) ==
  /\ table[p] \in {"prompt", "openvpn", "termed", "sudo", "other"}
  /\ table' = [table EXCEPT ![p] = "exited"]
  /\ UNCHANGED <<up, file, taskVars, killVars>>

Collect(p) ==
  /\ table[p] = "exited" /\ ~Owned(p)
  /\ table' = [table EXCEPT ![p] = "free"]
  /\ UNCHANGED <<up, file, taskVars, killVars>>

Reuse(p) ==
  /\ table[p] = "free"
  /\ table' = [table EXCEPT ![p] = "other"]
  /\ same' = [k \in Killers |-> same[k] /\ (kpc[k] = "kill" => kpid[k] # p)]
  /\ UNCHANGED <<up, file, taskVars, kpc, kpid>>

-----------------------------------------------------------------------------
TaskStep(t) == RecordTruncate(t) \/ RecordWrite(t) \/ DropChild(t) \/ Reap(t)
KillerStep(k) == Ps(k) \/ Kill(k) \/ Clear(k)

Next ==
  \/ Start \/ Crash \/ Rest
  \/ \E t \in Tasks : Spawn(t) \/ Abort(t) \/ TaskStep(t)
  \/ Wake
  \/ \E k \in Killers : KillerStep(k)
  \/ \E p \in Pids : Authorise(p) \/ Exit(p) \/ Collect(p) \/ Reuse(p)

Spec == Init /\ [][Next]_vars

(* A thread inside kill_openvpn is scheduled, ps ends, and the user answers *)
(* the request for the privileged kill.                                    *)
FairSpec == Spec /\ \A k \in Killers : WF_vars(KillerStep(k))

-----------------------------------------------------------------------------
(* Properties.                                                             *)

\* Every variable has its type, and a thread has a pid in hand exactly while
\* it runs kill_openvpn or is about to.
TypeOK ==
  /\ up \in BOOLEAN /\ file \in Pids \cup {NoPid}
  /\ table \in [Pids -> {"free", "prompt", "openvpn", "termed", "sudo", "exited", "other"}]
  /\ tpc \in [Tasks -> {"none", "spawned", "truncated", "reading", "gone"}]
  /\ child \in [Tasks -> Pids \cup {NoPid}] /\ info \in [Tasks -> Pids \cup {NoPid}]
  /\ dropped \subseteq Tasks
  /\ kpc \in [Killers -> {"idle", "sleep", "ps", "kill", "clear", "clearRefused",
                          "over", "vain", "panicked"}]
  /\ kpid \in [Killers -> Pids \cup {NoPid}]
  /\ same \in [Killers -> BOOLEAN]
  /\ \A k \in Killers : kpid[k] = NoPid <=> kpc[k] = "idle"

\* A process that is not ours is never sent a SIGTERM unless it took the pid
\* after ps had looked: neither a stale record, nor a torn one, nor a reused pid
\* does that to a stranger (the tests of kill_openvpn on the command line).
StrangersSpared ==
  [][\A k \in Killers :
       kpc[k] = "kill" /\ kpc'[k] = "clear" /\ table[kpid[k]] = "other" => ~same[k]]_vars

\* The only session of a client that found no pid at startup is on record from
\* the moment it reads OpenVPN's output until it is aborted, and so it is at
\* every crash in between (connect_ovpn and save_last_pid).
SoleSessionOnRecord ==
  \A t \in Tasks :
    /\ tpc[t] = "reading" /\ t \notin dropped
    /\ \A u \in Tasks \ {t} : tpc[u] = "none"
    /\ kpc["reaper"] = "idle"
    => file = child[t]

\* A kill_openvpn that starts on the pid of a running OpenVPN sends it a SIGTERM,
\* unless ps shows nothing, the user refuses, the kill cannot be spawned or the
\* client dies first: "Killing it in 5 seconds" (main.rs), and the abort of a
\* connected session.  Under sudo the pid is not OpenVPN's, and nothing is said.
KillTakesEffect ==
  \A k \in Killers, p \in Pids :
    kpc[k] = "ps" /\ kpid[k] = p /\ table[p] = "openvpn"
      ~> table[p] # "openvpn" \/ kpc[k] \in {"vain", "panicked"} \/ ~up

\* The invariant of the pid file: types, and save_last_pid's record of a lone
\* session.
RecordInv == TypeOK /\ SoleSessionOnRecord

=============================================================================
