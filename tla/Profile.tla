------------------------------ MODULE Profile ------------------------------
(***************************************************************************)
(* The configuration that openaws_connect leaves for the session: config   *)
(* (the cleaned .ovpn file), remote (host and port) and addresses (what    *)
(* the host resolves to), each behind a mutex of its own.                  *)
(*                                                                         *)
(* Writers are the threads inside openaws_connect, before they lock the    *)
(* connection manager; readers are ConnectionManager::connect and the      *)
(* consumer thread of the SAML server, in different orders.                *)
(***************************************************************************)
EXTENDS Naturals

CONSTANTS
  Callers,    \* threads that call openaws_connect
  Stems,      \* how many different file stems the profiles have
  NoCaller,   \* "no holder" of a lock
  MaxCalls    \* bound: calls of openaws_connect

ASSUME ProfileAssumption ==
  /\ Stems \in Nat \ {0}
  /\ MaxCalls \in Nat
  /\ NoCaller \notin Callers

VARIABLES
  up,         \* the process runs
  calls,      \* calls so far
  prof,       \* the profile each caller was given: that of the k-th call is k
  pc,         \* where each caller is
  host,       \* the remote that resolve_addresses has cloned
  disk,       \* the text of the cleaned file under each path
  linked,     \* callers that have created a file which is still under its path
  config,     \* Config.config, a path, 0 for None
  remote,     \* Config.remote, 0 for None
  addresses,  \* Config.addresses, 0 for None
  cfgLock,    \* holder of the mutex of config across steps
  mgr,        \* holder of connection_manager
  got,        \* what the caller inside connect has read
  cpc,        \* where the consumer is
  cgot,       \* what the consumer has read
  mixed       \* ghost: the last call that overlapped another one, 0 for none

vars == <<up, calls, prof, pc, host, disk, linked, config, remote, addresses,
          cfgLock, mgr, got, cpc, cgot, mixed>>

Nothing == [config |-> 0, remote |-> 0, addresses |-> 0]

\* The cleaned file goes to the data directory under the stem of the original:
\* profiles of one stem share a path.
Paths == 1 .. Stems
PathOf(p) == IF p = 0 THEN 0 ELSE 1 + (p % Stems)

\* A file has the text of a profile, is not there, is created but not written, or
\* is written by two callers at once, one over the other.
Missing == 0
Blank == MaxCalls + 1
Torn == MaxCalls + 2

Views == [config : 0 .. Stems, remote : 0 .. MaxCalls, addresses : 0 .. MaxCalls]

Saving == {"exists", "remove", "create", "write", "setConfig", "setRemote"}
Places == Saving \cup {"idle", "lookup", "resolved", "lock", "readConfig", "readRemote",
                      "readAddresses", "launch"}

Init ==
  /\ up = TRUE /\ calls = 0
  /\ prof = [c \in Callers |-> 0] /\ pc = [c \in Callers |-> "idle"]
  /\ host = [c \in Callers |-> 0]
  /\ disk = [f \in Paths |-> Missing] /\ linked = {} /\ config = 0 /\ remote = 0 /\ addresses = 0
  /\ cfgLock = NoCaller /\ mgr = NoCaller
  /\ got = Nothing /\ cpc = "recv" /\ cgot = Nothing
  /\ mixed = 0

Goto(c, from, to) == up /\ pc[c] = from /\ pc' = [pc EXCEPT ![c] = to]

-----------------------------------------------------------------------------
(* openaws_connect: save_config and resolve_addresses.                     *)

Call(c) ==
  /\ Goto(c, "idle", "exists")
  /\ calls < MaxCalls /\ calls' = calls + 1
  /\ prof' = [prof EXCEPT ![c] = calls + 1]
  /\ mixed' = IF \E d \in Callers \ {c} : pc[d] # "idle" THEN calls + 1 ELSE mixed
  /\ UNCHANGED <<up, host, disk, linked, config, remote, addresses, cfgLock, mgr, got, cpc, cgot>>

\* The original is read and cleaned; if the target exists it is removed first.
SaveExists(c) ==
  /\ Goto(c, "exists", IF disk[PathOf(prof[c])] # Missing THEN "remove" ELSE "create")
  /\ UNCHANGED <<up, calls, prof, host, disk, linked, config, remote, addresses, cfgLock, mgr,
                 got, cpc, cgot, mixed>>

\* remove_file of a file that is gone by now is an unwrap on an error.  A caller
\* that has the file open keeps it without a name.
SaveRemove(c) ==
  /\ up /\ pc[c] = "remove"
  /\ IF disk[PathOf(prof[c])] # Missing
     THEN /\ Goto(c, "remove", "create")
          /\ disk' = [disk EXCEPT ![PathOf(prof[c])] = Missing]
          /\ linked' = {d \in linked : PathOf(prof[d]) # PathOf(prof[c])}
          /\ UNCHANGED up
     ELSE up' = FALSE /\ UNCHANGED <<pc, disk, linked>>
  /\ UNCHANGED <<calls, prof, host, config, remote, addresses, cfgLock, mgr, got, cpc, cgot, mixed>>

\* File::create makes the file or empties the one that is there ...
SaveCreate(c) ==
  /\ Goto(c, "create", "write")
  /\ disk' = [disk EXCEPT ![PathOf(prof[c])] = Blank]
  /\ linked' = linked \cup {c}
  /\ UNCHANGED <<up, calls, prof, host, config, remote, addresses, cfgLock, mgr, got,
                 cpc, cgot, mixed>>

\* ... and write! fills it, from the start of the file, whoever has written there.
SaveWrite(c) ==
  /\ Goto(c, "write", "setConfig")
  /\ \E text \in IF disk[PathOf(prof[c])] = Blank THEN {prof[c]} ELSE {prof[c], Torn} :
       disk' = IF c \in linked THEN [disk EXCEPT ![PathOf(prof[c])] = text] ELSE disk
  /\ linked' = linked \ {c}
  /\ UNCHANGED <<up, calls, prof, host, config, remote, addresses, cfgLock, mgr, got,
                 cpc, cgot, mixed>>

\* Mutant: the guard of config is a temporary.
SaveSetConfigUnguarded(c) ==
  /\ Goto(c, "setConfig", "setRemote")
  /\ cfgLock = NoCaller
  /\ config' = PathOf(prof[c])
  /\ UNCHANGED <<up, calls, prof, host, disk, linked, remote, addresses, cfgLock, mgr, got,
                 cpc, cgot, mixed>>

\* The guard of config lives to the end of save_config ...
SaveSetConfig(c) ==
  /\ Goto(c, "setConfig", "setRemote")
  /\ cfgLock = NoCaller /\ cfgLock' = c
  /\ config' = PathOf(prof[c])
  /\ UNCHANGED <<up, calls, prof, host, disk, linked, remote, addresses, mgr, got, cpc, cgot, mixed>>

\* Mutant: the remote is stored only the first time.
SaveSetRemoteOnce(c) ==
  /\ Goto(c, "setRemote", "lookup")
  /\ remote' = IF remote = 0 THEN prof[c] ELSE remote
  /\ cfgLock' = NoCaller
  /\ UNCHANGED <<up, calls, prof, host, disk, linked, config, addresses, mgr, got, cpc, cgot, mixed>>

\* ... over the write of remote.
SaveSetRemote(c) ==
  /\ Goto(c, "setRemote", "lookup")
  /\ remote' = prof[c]
  /\ cfgLock' = NoCaller
  /\ UNCHANGED <<up, calls, prof, host, disk, linked, config, addresses, mgr, got, cpc, cgot, mixed>>

\* resolve_addresses looks up what it finds in remote ...
Lookup(c) ==
  /\ Goto(c, "lookup", "resolved")
  /\ host' = [host EXCEPT ![c] = remote]
  /\ UNCHANGED <<up, calls, prof, disk, linked, config, remote, addresses, cfgLock, mgr, got,
                 cpc, cgot, mixed>>

\* Mutant: the addresses are stored only the first time.
ResolvedOnce(c) ==
  /\ Goto(c, "resolved", "lock")
  /\ addresses' = IF addresses = 0 THEN host[c] ELSE addresses
  /\ UNCHANGED <<up, calls, prof, host, disk, linked, config, remote, cfgLock, mgr, got, cpc, cgot, mixed>>

\* ... and stores what comes back, after one lookup or two.
Resolved(c) ==
  /\ Goto(c, "resolved", "lock")
  /\ addresses' = host[c]
  /\ UNCHANGED <<up, calls, prof, host, disk, linked, config, remote, cfgLock, mgr, got, cpc, cgot, mixed>>

-----------------------------------------------------------------------------
(* ConnectionManager::connect: config, remote, addresses, in this order.   *)

Lock(c) ==
  /\ Goto(c, "lock", "readConfig")
  /\ mgr = NoCaller /\ mgr' = c
  /\ UNCHANGED <<up, calls, prof, host, disk, linked, config, remote, addresses, cfgLock, got,
                 cpc, cgot, mixed>>

ReadConfig(c) ==
  /\ Goto(c, "readConfig", "readRemote")
  /\ cfgLock = NoCaller
  /\ got' = [got EXCEPT !.config = config]
  /\ UNCHANGED <<up, calls, prof, host, disk, linked, config, remote, addresses, cfgLock, mgr,
                 cpc, cgot, mixed>>

ReadRemote(c) ==
  /\ Goto(c, "readRemote", "readAddresses")
  /\ got' = [got EXCEPT !.remote = remote]
  /\ UNCHANGED <<up, calls, prof, host, disk, linked, config, remote, addresses, cfgLock, mgr,
                 cpc, cgot, mixed>>

ReadAddresses(c) ==
  /\ Goto(c, "readAddresses", "launch")
  /\ got' = [got EXCEPT !.addresses = addresses]
  /\ UNCHANGED <<up, calls, prof, host, disk, linked, config, remote, addresses, cfgLock, mgr,
                 cpc, cgot, mixed>>

\* run_ovpn is spawned with what was read, and the call returns.
Launch(c) ==
  /\ Goto(c, "launch", "idle")
  /\ mgr' = NoCaller /\ got' = Nothing
  /\ UNCHANGED <<up, calls, prof, host, disk, linked, config, remote, addresses, cfgLock, cpc, cgot, mixed>>

-----------------------------------------------------------------------------
(* The consumer: addresses, config, port (of remote), in this order.  What  *)
(* it reads of config is the path; OpenVPN opens the file later.           *)

ConsumerReadAddresses ==
  /\ up /\ cpc = "recv" /\ addresses # 0
  /\ cpc' = "readConfig" /\ cgot' = [Nothing EXCEPT !.addresses = addresses]
  /\ UNCHANGED <<up, calls, prof, pc, host, disk, linked, config, remote, addresses, cfgLock,
                 mgr, got, mixed>>

ConsumerReadConfig ==
  /\ up /\ cpc = "readConfig" /\ cfgLock = NoCaller
  /\ cpc' = "readPort" /\ cgot' = [cgot EXCEPT !.config = config]
  /\ UNCHANGED <<up, calls, prof, pc, host, disk, linked, config, remote, addresses, cfgLock,
                 mgr, got, mixed>>

\* Mutant: the addresses are read last.
ConsumerReadPortThenAddresses ==
  /\ up /\ cpc = "readPort"
  /\ cpc' = "launch" /\ cgot' = [cgot EXCEPT !.remote = remote, !.addresses = addresses]
  /\ UNCHANGED <<up, calls, prof, pc, host, disk, linked, config, remote, addresses, cfgLock,
                 mgr, got, mixed>>

ConsumerReadPort ==
  /\ up /\ cpc = "readPort"
  /\ cpc' = "launch" /\ cgot' = [cgot EXCEPT !.remote = remote]
  /\ UNCHANGED <<up, calls, prof, pc, host, disk, linked, config, remote, addresses, cfgLock,
                 mgr, got, mixed>>

\* OpenVPN is started, and has opened the file when this round is over: what the
\* next round reads makes no difference to it.
ConsumerLaunch ==
  /\ up /\ cpc = "launch"
  /\ cpc' = "recv" /\ cgot' = Nothing
  /\ UNCHANGED <<up, calls, prof, pc, host, disk, linked, config, remote, addresses, cfgLock,
                 mgr, got, mixed>>

-----------------------------------------------------------------------------
Next ==
  \/ \E c \in Callers :
       \/ Call(c) \/ SaveExists(c) \/ SaveRemove(c) \/ SaveCreate(c) \/ SaveWrite(c)
       \/ SaveSetConfig(c) \/ SaveSetRemote(c) \/ Lookup(c) \/ Resolved(c)
       \/ Lock(c) \/ ReadConfig(c) \/ ReadRemote(c) \/ ReadAddresses(c) \/ Launch(c)
  \/ ConsumerReadAddresses \/ ConsumerReadConfig \/ ConsumerReadPort \/ ConsumerLaunch

Spec == Init /\ [][Next]_vars

-----------------------------------------------------------------------------
(* Properties.                                                             *)

\* Once nobody is inside save_config's critical section, config is the path of
\* the profile that remote is from, whatever callers overlap: the mutexes are
\* nested there.  A file is there under that path unless somebody is about to
\* create it.  What the file says is another matter: it is rewritten before config
\* and remote are set, by any call of the same stem.  It is the text of remote's
\* profile once a call that overlapped no other has left save_config.
PairFromOneFile ==
  /\ cfgLock = NoCaller => config = PathOf(remote)
  /\ (\A c \in Callers : pc[c] # "create") /\ config # 0 => disk[config] # Missing
  /\ (\A c \in Callers : pc[c] \notin Saving) /\ calls > mixed => disk[config] = remote

\* Every variable has its type, and the mutex of config is held exactly by the
\* thread that is between the two assignments of save_config.
TypeOK ==
  /\ up \in BOOLEAN /\ calls \in 0 .. MaxCalls /\ mixed \in 0 .. calls
  /\ prof \in [Callers -> 0 .. MaxCalls] /\ host \in [Callers -> 0 .. MaxCalls]
  /\ pc \in [Callers -> Places]
  /\ disk \in [Paths -> 0 .. MaxCalls + 2] /\ linked \subseteq Callers
  /\ config \in 0 .. Stems /\ remote \in 0 .. MaxCalls /\ addresses \in 0 .. MaxCalls
  /\ cfgLock \in Callers \cup {NoCaller} /\ mgr \in Callers \cup {NoCaller}
  /\ got \in Views /\ cgot \in Views
  /\ cpc \in {"recv", "readConfig", "readPort", "launch"}
  /\ \A c \in Callers : pc[c] = "setRemote" <=> cfgLock = c

\* A call that no other call overlaps starts run_ovpn with the profile it was
\* given: path, port and address, and under the path the text of that profile,
\* whatever earlier calls left behind and the consumer reads meanwhile
\* (openaws_connect and connect).
ConnectUsesProfile ==
  \A c \in Callers :
    pc[c] = "launch" /\ prof[c] > mixed =>
      /\ got = [config |-> PathOf(prof[c]), remote |-> prof[c], addresses |-> prof[c]]
      /\ disk[got.config] = prof[c]

\* As long as no calls overlap, what the consumer launches OpenVPN with may come
\* from two calls, but the address is the oldest of it: neither the port nor the
\* text that OpenVPN finds under the path is of an earlier profile (the consumer
\* reads addresses first, saml_server.rs, and they are written last).  Port and
\* text are in no order: a path is rewritten before remote is set.
ConsumerReadsForward ==
  cpc = "launch" /\ mixed = 0 =>
    /\ cgot.addresses <= cgot.remote
    /\ disk[cgot.config] # Missing => cgot.addresses <= disk[cgot.config]

\* The invariant of the configuration: types, the holder of config's mutex, and
\* a path, a text and a remote that belong together once save_config is over.
ProfileInv == TypeOK /\ PairFromOneFile

=============================================================================
