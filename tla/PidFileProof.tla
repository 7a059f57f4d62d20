---------------------------- MODULE PidFileProof ----------------------------
(***************************************************************************)
(* Proofs about PidFile, for any number of pids and of tasks, both ways to *)
(* become root, and any behaviour of ps, of kill and of the user.          *)
(***************************************************************************)
EXTENDS PidFile, TLAPS

\* The steps, with one disjunct for each.
Steps ==
  \/ Start \/ Crash \/ Rest \/ Wake
  \/ \E t \in Tasks : \/ Spawn(t) \/ Abort(t) \/ RecordTruncate(t) \/ RecordWrite(t)
                      \/ DropChild(t) \/ Reap(t)
  \/ \E k \in Killers : Ps(k) \/ Kill(k) \/ Clear(k)
  \/ \E p \in Pids : Authorise(p) \/ Exit(p) \/ Collect(p) \/ Reuse(p)
  \/ UNCHANGED vars

\* Every step of the specification is one of these.
LEMMA StepCases == [Next]_vars => Steps
BY Zenon DEF Next, KillerStep, TaskStep, Steps

-----------------------------------------------------------------------------
(* Types                                                                   *)

Entries == {"free", "prompt", "openvpn", "termed", "sudo", "exited", "other"}
TaskPlaces == {"none", "spawned", "truncated", "reading", "gone"}
KillPlaces == {"idle", "sleep", "ps", "kill", "clear", "clearRefused", "over", "vain",
               "panicked"}

\* The types in two parts: what tasks and processes keep, what killers keep.
TaskType ==
  /\ up \in BOOLEAN /\ file \in Pids \cup {NoPid}
  /\ table \in [Pids -> Entries]
  /\ tpc \in [Tasks -> TaskPlaces]
  /\ child \in [Tasks -> Pids \cup {NoPid}] /\ info \in [Tasks -> Pids \cup {NoPid}]
  /\ dropped \subseteq Tasks

KillType ==
  /\ kpc \in [Killers -> KillPlaces]
  /\ kpid \in [Killers -> Pids \cup {NoPid}]
  /\ same \in [Killers -> BOOLEAN]
  /\ \A k \in Killers : kpid[k] = NoPid <=> kpc[k] = "idle"

\* The two parts are the type invariant.
LEMMA TypeParts == TypeOK <=> TaskType /\ KillType
BY Zenon DEF TypeOK, TaskType, KillType, Entries, TaskPlaces, KillPlaces

\* The names of killers and places.
LEMMA Names ==
  /\ "stop" \in Killers /\ "reaper" \in Killers
  /\ {"idle", "sleep", "ps", "kill", "clear", "clearRefused", "over", "vain", "panicked"}
       \subseteq KillPlaces
  /\ {"none", "spawned", "truncated", "reading", "gone"} \subseteq TaskPlaces
  /\ {"free", "prompt", "openvpn", "termed", "sudo", "exited", "other"} \subseteq Entries
BY DEF Killers, KillPlaces, TaskPlaces, Entries

\* What a torn write leaves is a pid: a writer has one.
LEMMA OverlayType ==
  ASSUME NEW new \in Pids \cup {NoPid}, NEW old, NEW f \in Overlay(new, old)
  PROVE  f \in Pids \cup {NoPid}
BY DEF Overlay

\* Steps keep the types of the tasks, the file and the processes.
LEMMA TaskTypeStep ==
  ASSUME TaskType, Steps
  PROVE  TaskType'
<1> USE DEF TaskType, Cleared
<1>1. CASE Start BY <1>1 DEF Start, taskVars
<1>2. CASE Crash BY <1>2, Names DEF Crash
<1>3. CASE Rest \/ Wake BY <1>3 DEF Rest, Wake, taskVars
<1>4. CASE \E t \in Tasks : Spawn(t) BY <1>4, Names DEF Spawn
<1>5. CASE \E t \in Tasks : Abort(t) BY <1>5 DEF Abort
<1>6. CASE \E t \in Tasks : RecordTruncate(t) BY <1>6, Names DEF RecordTruncate
<1>7. CASE \E t \in Tasks : RecordWrite(t)
  <2>1. PICK t \in Tasks : RecordWrite(t) BY <1>7
  <2>2. file' \in Pids \cup {NoPid} BY <2>1, OverlayType DEF RecordWrite
  <2>3. QED BY <2>1, <2>2, Names DEF RecordWrite
<1>8. CASE \E t \in Tasks : DropChild(t) \/ Reap(t)
  <2>1. PICK t \in Tasks : DropChild(t) \/ Reap(t) BY <1>8
  <2>2. /\ tpc' = [tpc EXCEPT ![t] = "gone"]
        /\ table' = table \/ table' = [table EXCEPT ![child[t]] = "free"]
        /\ UNCHANGED <<up, file, child, info, dropped>>
    BY <2>1, Zenon DEF DropChild, Reap
  <2>3. table' \in [Pids -> Entries] BY <2>2, Names
  <2>4. tpc' \in [Tasks -> TaskPlaces] BY <2>2, Names
  <2>5. QED BY <2>2, <2>3, <2>4
<1>10. CASE \E k \in Killers : Ps(k)
  <2>1. PICK k \in Killers : Ps(k) BY <1>10
  <2>2. file' = file \/ file' = NoPid BY <2>1, Zenon DEF Ps
  <2>3. QED BY <2>1, <2>2 DEF Ps, taskVars
<1>11. CASE \E k \in Killers : Kill(k) BY <1>11, Names DEF Kill, taskVars
<1>12. CASE \E k \in Killers : Clear(k) BY <1>12 DEF Clear, taskVars
<1>13. CASE \E p \in Pids : Authorise(p) \/ Exit(p) \/ Collect(p) \/ Reuse(p)
  BY <1>13, Names DEF Authorise, Exit, Collect, Reuse, taskVars
<1>14. CASE UNCHANGED vars BY <1>14 DEF vars, taskVars
<1> QED BY <1>1, <1>2, <1>3, <1>4, <1>5, <1>6, <1>7, <1>8, <1>10, <1>11, <1>12,
           <1>13, <1>14 DEF Steps

\* The killers keep their types when they are left alone.
LEMMA KillFrame ==
  ASSUME KillType, UNCHANGED <<kpc, kpid, same>>
  PROVE  KillType'
BY DEF KillType

\* A killer that goes on with the pid it has keeps the types.
LEMMA KillMove ==
  ASSUME KillType, NEW k \in Killers, kpc[k] # "idle",
         NEW q \in KillPlaces, q # "idle", kpc' = [kpc EXCEPT ![k] = q], kpid' = kpid,
         same' \in [Killers -> BOOLEAN]
  PROVE  KillType'
BY DEF KillType

\* Steps keep the types of the killers; one has a pid exactly while it is busy.
LEMMA KillTypeStep ==
  ASSUME TaskType, KillType, Steps
  PROVE  KillType'
<1>1. CASE Start
  <2>1. CASE file = NoPid BY <1>1, <2>1, KillFrame DEF Start
  <2>2. CASE file # NoPid
    <3>1. /\ kpc' = [kpc EXCEPT !["reaper"] = "sleep"]
          /\ kpid' = [kpid EXCEPT !["reaper"] = file] /\ same' = same
      BY <1>1, <2>2 DEF Start
    <3>2. QED BY <2>2, <3>1, Names DEF KillType, TaskType
  <2>3. QED BY <2>1, <2>2
<1>2. CASE Crash BY <1>2, Names DEF Crash, KillType
<1>3. CASE Rest BY <1>3, Names DEF Rest, KillType
<1>4. CASE Wake BY <1>4, Names, KillMove DEF Wake, KillType
<1>5. CASE \E t \in Tasks : Abort(t)
  <2>1. PICK t \in Tasks : Abort(t) BY <1>5
  <2>2. CASE info[t] = NoPid BY <2>1, <2>2, KillFrame DEF Abort
  <2>3. CASE info[t] # NoPid
    <3>1. /\ kpc' = [kpc EXCEPT !["stop"] = "ps"]
          /\ kpid' = [kpid EXCEPT !["stop"] = info[t]] /\ same' = same
      BY <2>1, <2>3 DEF Abort
    <3>2. info[t] \in Pids \cup {NoPid} BY DEF TaskType
    <3>3. QED BY <2>3, <3>1, <3>2, Names DEF KillType
  <2>4. QED BY <2>2, <2>3
<1>6. CASE \E t \in Tasks : \/ Spawn(t) \/ RecordTruncate(t) \/ RecordWrite(t)
                            \/ DropChild(t) \/ Reap(t)
  BY <1>6, KillFrame, Zenon DEF Spawn, RecordTruncate, RecordWrite, DropChild, Reap, killVars
<1>7. CASE \E k \in Killers : Ps(k)
  <2>1. PICK k \in Killers : Ps(k) BY <1>7
  <2>2. PICK q \in {"vain", "over", "kill"} : kpc' = [kpc EXCEPT ![k] = q]
    BY <2>1, Zenon DEF Ps
  <2>3. kpc[k] = "ps" /\ kpid' = kpid /\ same' = same BY <2>1 DEF Ps
  <2>4. QED BY <2>2, <2>3, KillMove, Names DEF KillType
<1>8. CASE \E k \in Killers : Kill(k)
  <2>1. PICK k \in Killers : Kill(k) BY <1>8
  <2>2. PICK q \in {"clear", "clearRefused", "panicked"} : kpc' = [kpc EXCEPT ![k] = q]
    BY <2>1, Zenon DEF Kill
  <2>3. kpc[k] = "kill" /\ kpid' = kpid BY <2>1 DEF Kill
  <2>4. same' \in [Killers -> BOOLEAN] BY <2>1 DEF Kill, KillType
  <2>5. QED BY <2>2, <2>3, <2>4, KillMove, Names
<1>9. CASE \E k \in Killers : Clear(k)
  <2>1. PICK k \in Killers : Clear(k) BY <1>9
  <2>2. PICK q \in {"over", "vain"} : kpc' = [kpc EXCEPT ![k] = q]
    BY <2>1, Zenon DEF Clear
  <2>3. kpc[k] # "idle" /\ kpid' = kpid /\ same' = same BY <2>1 DEF Clear
  <2>4. QED BY <2>2, <2>3, KillMove, Names DEF KillType
<1>10. CASE \E p \in Pids : Authorise(p) \/ Exit(p) \/ Collect(p)
  BY <1>10, KillFrame, Zenon DEF Authorise, Exit, Collect, killVars
<1>11. CASE \E p \in Pids : Reuse(p)
  <2>1. UNCHANGED <<kpc, kpid>> BY <1>11, Zenon DEF Reuse
  <2>2. same' \in [Killers -> BOOLEAN]
    <3>1. PICK p \in Pids : Reuse(p) BY <1>11
    <3>2. \A k \in Killers : (same[k] /\ (kpc[k] = "kill" => kpid[k] # p)) \in BOOLEAN
      BY Zenon
    <3>3. same' = [k \in Killers |-> same[k] /\ (kpc[k] = "kill" => kpid[k] # p)]
      BY <3>1, Zenon DEF Reuse
    <3>4. QED BY <3>2, <3>3, Zenon
  <2>3. QED BY <2>1, <2>2 DEF KillType
<1>12. CASE UNCHANGED vars BY <1>12, KillFrame DEF vars, killVars
<1> QED BY <1>1, <1>2, <1>3, <1>4, <1>5, <1>6, <1>7, <1>8, <1>9, <1>10, <1>11, <1>12
        DEF Steps

-----------------------------------------------------------------------------
(* The record of a session that is alone                                   *)

\* Nobody but t has run since the client started, and it started with no pid.
Alone(t) == (\A u \in Tasks \ {t} : tpc[u] = "none") /\ kpc["reaper"] = "idle"

\* The file of a lone task is empty between its truncation and its write, its
\* own after that, and nobody is about to clear it before the task is aborted.
LoneOf(t) ==
  /\ tpc[t] = "truncated" => file = NoPid
  /\ t \notin dropped => kpc["stop"] = "idle"
  /\ tpc[t] = "reading" /\ t \notin dropped => file = child[t]

LoneInv == \A t \in Tasks : Alone(t) => LoneOf(t)

\* A task that is alone after a step was alone before it, but for a crash.
LEMMA AloneBefore ==
  ASSUME TaskType, KillType, Steps, ~ Crash, NEW t \in Tasks, Alone(t)'
  PROVE  Alone(t)
<1>1. \A u \in Tasks : tpc'[u] = "none" => tpc[u] = "none"
  <2>1. CASE tpc' = tpc BY <2>1
  <2>2. CASE \E u \in Tasks : \/ Spawn(u) \/ RecordTruncate(u) \/ RecordWrite(u)
                              \/ DropChild(u) \/ Reap(u)
    <3>1. PICK u \in Tasks, q \in {"spawned", "truncated", "reading", "gone"} :
            tpc' = [tpc EXCEPT ![u] = q]
      BY <2>2 DEF Spawn, RecordTruncate, RecordWrite, DropChild, Reap
    <3>2. QED BY <3>1 DEF TaskType
  <2>3. QED
    BY <2>1, <2>2, Zenon DEF Steps, Start, Rest, Wake, Abort, Ps, Kill, Clear, Authorise, Exit,
       Collect, Reuse, vars, taskVars
<1>2. kpc'["reaper"] = "idle" => kpc["reaper"] = "idle"
  <2>1. CASE kpc' = kpc BY <2>1
  <2>2. CASE \E q \in KillPlaces : kpc' = [kpc EXCEPT !["stop"] = q]
    BY <2>2, Names DEF KillType
  <2>3. CASE Start BY <2>3, Names DEF Start, KillType
  <2>4. CASE Wake BY <2>4, Names DEF Wake, KillType
  <2>5. CASE \E k \in Killers : Ps(k) \/ Kill(k) \/ Clear(k)
    <3>1. PICK k \in Killers : Ps(k) \/ Kill(k) \/ Clear(k) BY <2>5
    <3>2. kpc[k] # "idle" BY <3>1 DEF Ps, Kill, Clear
    <3>3. PICK q \in KillPlaces \ {"idle"} : kpc' = [kpc EXCEPT ![k] = q]
      <4>1. PICK q \in {"vain", "over", "kill", "clear", "clearRefused", "panicked"} :
              kpc' = [kpc EXCEPT ![k] = q]
        BY <3>1, Zenon DEF Ps, Kill, Clear
      <4>2. QED BY <4>1, Names
    <3>4. QED BY <3>2, <3>3, Names DEF KillType
  <2>6. Rest => \E q \in KillPlaces : kpc' = [kpc EXCEPT !["stop"] = q]
    BY Names DEF Rest
  <2>7. ASSUME NEW u \in Tasks, Abort(u)
        PROVE  kpc' = kpc \/ \E q \in KillPlaces : kpc' = [kpc EXCEPT !["stop"] = q]
    BY <2>7, Names DEF Abort
  <2>8. QED
    BY <2>1, <2>2, <2>3, <2>4, <2>5, <2>6, <2>7, Zenon
    DEF Steps, Spawn, RecordTruncate, RecordWrite, DropChild, Reap, Authorise, Exit, Collect,
        Reuse, vars, killVars
<1>3. QED BY <1>1, <1>2, Zenon DEF Alone

\* Steps that change nothing LoneOf speaks of.
LEMMA LoneFrame ==
  ASSUME NEW t \in Tasks, LoneOf(t), UNCHANGED <<tpc, file, dropped, child, kpc>>
  PROVE  LoneOf(t)'
BY Zenon DEF LoneOf

\* The record of a lone task survives every step.
LEMMA LoneStep ==
  ASSUME TaskType, KillType, LoneInv, Steps
  PROVE  LoneInv'
<1> SUFFICES ASSUME NEW t \in Tasks, Alone(t)' PROVE LoneOf(t)' BY DEF LoneInv
<1>1. CASE Crash
  <2>1. tpc'[t] = "none" /\ kpc'["stop"] = "idle" BY <1>1, Names DEF Crash
  <2>2. QED BY <2>1 DEF LoneOf
<1> SUFFICES ASSUME ~ Crash PROVE LoneOf(t)' BY <1>1
<1>a. Alone(t) /\ LoneOf(t) BY AloneBefore DEF LoneInv
<1>b. \A u \in Tasks : u # t => tpc[u] = "none" /\ tpc'[u] = "none" BY <1>a DEF Alone
<1>c. kpc["reaper"] = "idle" /\ kpc'["reaper"] = "idle" BY <1>a DEF Alone
<1>2. CASE Start
  <2>1. kpc' = kpc BY <1>2, <1>c, Names DEF Start, KillType
  <2>2. QED BY <1>2, <1>a, <2>1, LoneFrame DEF Start, taskVars
<1>3. CASE Rest
  <2>1. kpc["stop"] # "idle" BY <1>3 DEF Rest
  <2>2. t \in dropped BY <1>a, <2>1 DEF LoneOf
  <2>3. UNCHANGED <<file, tpc, dropped>> BY <1>3 DEF Rest, taskVars
  <2>4. QED BY <1>a, <2>2, <2>3, Zenon DEF LoneOf
<1>4. CASE Wake BY <1>4, <1>c DEF Wake
<1>5. ASSUME NEW u \in Tasks, Spawn(u) PROVE LoneOf(t)'
  <2>1. u = t BY <1>5, <1>b, Names DEF Spawn, TaskType
  <2>2. tpc' = [tpc EXCEPT ![t] = "spawned"] /\ UNCHANGED <<kpc, dropped>>
    BY <1>5, <2>1 DEF Spawn, killVars
  <2>3. tpc'[t] = "spawned" BY <2>2 DEF TaskType
  <2>4. QED BY <1>a, <2>2, <2>3 DEF LoneOf
<1>6. ASSUME NEW u \in Tasks, Abort(u) PROVE LoneOf(t)'
  <2>1. u = t BY <1>6, <1>b DEF Abort
  <2>2. t \in dropped' /\ UNCHANGED <<tpc, file>> BY <1>6, <2>1 DEF Abort
  <2>3. QED BY <1>a, <2>2, Zenon DEF LoneOf
<1>7. ASSUME NEW u \in Tasks, RecordTruncate(u) PROVE LoneOf(t)'
  <2>1. u = t BY <1>7, <1>b DEF RecordTruncate
  <2>2. /\ file' = NoPid /\ UNCHANGED <<kpc, dropped>>
        /\ tpc' = [tpc EXCEPT ![t] = "truncated"]
    BY <1>7, <2>1 DEF RecordTruncate, Cleared, killVars
  <2>3. tpc'[t] = "truncated" BY <2>2 DEF TaskType
  <2>4. QED BY <1>a, <2>2, <2>3 DEF LoneOf
<1>8. ASSUME NEW u \in Tasks, RecordWrite(u) PROVE LoneOf(t)'
  <2>1. u = t BY <1>8, <1>b DEF RecordWrite
  <2>2. file = NoPid BY <1>8, <1>a, <2>1 DEF RecordWrite, LoneOf
  <2>3. file' = child[t] BY <1>8, <2>1, <2>2 DEF RecordWrite, Overlay
  <2>4. tpc' = [tpc EXCEPT ![t] = "reading"] /\ UNCHANGED <<kpc, dropped, child>>
    BY <1>8, <2>1 DEF RecordWrite, killVars
  <2>5. tpc'[t] = "reading" BY <2>4 DEF TaskType
  <2>6. QED BY <1>a, <2>3, <2>4, <2>5 DEF LoneOf
<1>9. ASSUME NEW u \in Tasks, DropChild(u) \/ Reap(u) PROVE LoneOf(t)'
  <2>1. u = t BY <1>9, <1>b DEF DropChild, Reap
  <2>2. tpc' = [tpc EXCEPT ![t] = "gone"] /\ UNCHANGED <<kpc, dropped>>
    BY <1>9, <2>1, Zenon DEF DropChild, Reap, killVars
  <2>3. tpc'[t] = "gone" BY <2>2 DEF TaskType
  <2>4. QED BY <1>a, <2>2, <2>3 DEF LoneOf
<1>10. ASSUME NEW k \in Killers, Ps(k) \/ Kill(k) \/ Clear(k) PROVE LoneOf(t)'
  <2>1. kpc[k] # "idle" BY <1>10 DEF Ps, Kill, Clear
  <2>2. k = "stop" BY <1>c, <2>1 DEF Killers
  <2>3. t \in dropped BY <1>a, <2>1, <2>2 DEF LoneOf
  <2>4. file' = file \/ file' = NoPid BY <1>10, Zenon DEF Ps, Kill, Clear, Cleared
  <2>5. UNCHANGED <<tpc, dropped>> BY <1>10, Zenon DEF Ps, Kill, Clear, taskVars
  <2>6. QED BY <1>a, <2>3, <2>4, <2>5, Zenon DEF LoneOf
<1>11. ASSUME NEW p \in Pids, Authorise(p) \/ Exit(p) \/ Collect(p) \/ Reuse(p)
       PROVE  LoneOf(t)'
  BY <1>11, <1>a, LoneFrame, Zenon DEF Authorise, Exit, Collect, Reuse, taskVars, killVars
<1>12. CASE UNCHANGED vars BY <1>12, <1>a, LoneFrame, Zenon DEF vars, taskVars, killVars
<1> QED BY <1>1, <1>2, <1>3, <1>4, <1>5, <1>6, <1>7, <1>8, <1>9, <1>10, <1>11, <1>12, Zenon
        DEF Steps

-----------------------------------------------------------------------------
(* Strangers                                                               *)

\* While a kill is under way the pid is no stranger's, unless it changed hands
\* since ps looked at it.
SpareInv == \A k \in Killers : kpc[k] = "kill" /\ same[k] => table[kpid[k]] # "other"

\* A step that makes no stranger and starts no kill keeps the invariant.
LEMMA SpareFrame ==
  ASSUME SpareInv, KillType, UNCHANGED <<kpid, same>>,
         \A k \in Killers : kpc'[k] = "kill" => kpc[k] = "kill",
         \A p \in Pids : table'[p] = "other" => table[p] = "other"
  PROVE  SpareInv'
<1> SUFFICES ASSUME NEW k \in Killers, kpc'[k] = "kill", same'[k], table'[kpid'[k]] = "other"
             PROVE  FALSE
  BY Zenon DEF SpareInv
<1>1. kpc[k] = "kill" /\ same[k] BY Zenon
<1>2. kpid[k] \in Pids BY <1>1 DEF KillType
<1>3. table[kpid[k]] = "other" BY <1>2
<1>4. QED BY <1>1, <1>3, Zenon DEF SpareInv

\* No step but Reuse makes a stranger of a pid.
LEMMA NoNewStranger ==
  ASSUME TaskType, Steps, ~ (\E p \in Pids : Reuse(p))
  PROVE  \A p \in Pids : table'[p] = "other" => table[p] = "other"
<1>1. CASE table' = table BY <1>1
<1>2. CASE \E p, q : q # "other" /\ table' = [table EXCEPT ![p] = q]
  BY <1>2 DEF TaskType
<1>3. ASSUME NEW t \in Tasks, Spawn(t) \/ DropChild(t) \/ Reap(t)
      PROVE  table' = table \/ \E p, q : q # "other" /\ table' = [table EXCEPT ![p] = q]
  BY <1>3 DEF Spawn, DropChild, Reap
<1>4. ASSUME NEW k \in Killers, Kill(k)
      PROVE  table' = table \/ \E p, q : q # "other" /\ table' = [table EXCEPT ![p] = q]
  BY <1>4 DEF Kill
<1>5. ASSUME NEW p \in Pids, Authorise(p) \/ Exit(p) \/ Collect(p)
      PROVE  table' = table \/ \E r, q : q # "other" /\ table' = [table EXCEPT ![r] = q]
  BY <1>5 DEF Authorise, Exit, Collect
<1>6. QED
  BY <1>1, <1>2, <1>3, <1>4, <1>5, Zenon
  DEF Steps, Start, Crash, Rest, Wake, Abort, RecordTruncate, RecordWrite, Ps, Clear, vars

\* ps looks before every kill, and whoever takes the pid after that is marked.
LEMMA SpareStep ==
  ASSUME TaskType, KillType, SpareInv, Steps
  PROVE  SpareInv'
<1>1. CASE \E p \in Pids : Reuse(p)
  <2>1. PICK p \in Pids : Reuse(p) BY <1>1
  <2>2. UNCHANGED <<kpc, kpid>> BY <2>1, Zenon DEF Reuse
  <2>3. SUFFICES ASSUME NEW k \in Killers, kpc[k] = "kill", same'[k]
                 PROVE  table'[kpid[k]] # "other"
    BY <2>2, Zenon DEF SpareInv
  <2>4. same[k] /\ kpid[k] # p BY <2>1, <2>3, Zenon DEF Reuse
  <2>5. table'[kpid[k]] = table[kpid[k]] BY <2>1, <2>3, <2>4 DEF Reuse, TaskType, KillType
  <2>6. QED BY <2>3, <2>4, <2>5, Zenon DEF SpareInv
<1> SUFFICES ASSUME ~ (\E p \in Pids : Reuse(p)) PROVE SpareInv' BY <1>1
<1>a. \A p \in Pids : table'[p] = "other" => table[p] = "other" BY NoNewStranger
<1>2. CASE Crash
  <2>1. \A k \in Killers : kpc'[k] = "idle" BY <1>2 DEF Crash
  <2>2. QED BY <2>1 DEF SpareInv
<1>3. CASE UNCHANGED <<kpc, kpid, same>> BY <1>3, <1>a, SpareFrame
<1>4. CASE Start
  <2>1. CASE file = NoPid BY <1>4, <2>1, <1>3, Zenon DEF Start
  <2>2. CASE file # NoPid
    <3>1. /\ kpc' = [kpc EXCEPT !["reaper"] = "sleep"] /\ UNCHANGED <<same, table>>
          /\ kpid' = [kpid EXCEPT !["reaper"] = file]
      BY <1>4, <2>2, Zenon DEF Start
    <3>2. QED BY <3>1 DEF SpareInv, KillType
  <2>3. QED BY <2>1, <2>2
<1>5. CASE Rest
  <2>1. /\ kpc' = [kpc EXCEPT !["stop"] = "idle"] /\ UNCHANGED <<same, table>>
        /\ kpid' = [kpid EXCEPT !["stop"] = NoPid]
    BY <1>5, Zenon DEF Rest
  <2>2. QED BY <2>1 DEF SpareInv, KillType
<1>6. CASE Wake
  <2>1. kpc' = [kpc EXCEPT !["reaper"] = "ps"] /\ UNCHANGED <<same, kpid>>
    BY <1>6, Zenon DEF Wake
  <2>2. \A k \in Killers : kpc'[k] = "kill" => kpc[k] = "kill" BY <2>1 DEF KillType
  <2>3. QED BY <1>a, <2>1, <2>2, SpareFrame
<1>7. ASSUME NEW t \in Tasks, Abort(t) PROVE SpareInv'
  <2>1. CASE info[t] = NoPid BY <1>7, <2>1, <1>3, Zenon DEF Abort
  <2>2. CASE info[t] # NoPid
    <3>1. /\ kpc' = [kpc EXCEPT !["stop"] = "ps"] /\ UNCHANGED <<same, table>>
          /\ kpid' = [kpid EXCEPT !["stop"] = info[t]]
      BY <1>7, <2>2, Zenon DEF Abort
    <3>2. QED BY <3>1 DEF SpareInv, KillType
  <2>3. QED BY <2>1, <2>2
<1>8. ASSUME NEW k \in Killers, Ps(k) PROVE SpareInv'
  <2>1. UNCHANGED <<kpid, same, table>> BY <1>8, Zenon DEF Ps
  <2>2. CASE \E q \in {"vain", "over"} : kpc' = [kpc EXCEPT ![k] = q]
    <3>1. \A j \in Killers : kpc'[j] = "kill" => kpc[j] = "kill" BY <2>2 DEF KillType
    <3>2. QED BY <1>a, <2>1, <3>1, SpareFrame
  <2>3. CASE kpc' = [kpc EXCEPT ![k] = "kill"] /\ Recognised(kpid[k])
    <3>1. table[kpid[k]] # "other" BY <2>3 DEF Recognised
    <3>2. \A j \in Killers : j # k => kpc'[j] = kpc[j] BY <2>3 DEF KillType
    <3>3. SUFFICES ASSUME NEW j \in Killers, kpc'[j] = "kill", same[j]
                   PROVE  table[kpid[j]] # "other"
      BY <2>1, Zenon DEF SpareInv
    <3>4. QED BY <3>1, <3>2, <3>3, Zenon DEF SpareInv
  <2>4. QED BY <1>8, <2>2, <2>3, Zenon DEF Ps
<1>9. ASSUME NEW k \in Killers, Kill(k) PROVE SpareInv'
  <2>1. PICK q \in {"clear", "clearRefused", "panicked"} : kpc' = [kpc EXCEPT ![k] = q]
    BY <1>9, Zenon DEF Kill
  <2>2. kpid' = kpid /\ same' = [same EXCEPT ![k] = TRUE] BY <1>9, Zenon DEF Kill
  <2>3. SUFFICES ASSUME NEW j \in Killers, kpc'[j] = "kill", same'[j],
                        table'[kpid[j]] = "other"
                 PROVE  FALSE
    BY <2>2, Zenon DEF SpareInv
  <2>4. j # k BY <2>1, <2>3 DEF KillType
  <2>5. kpc[j] = "kill" BY <2>1, <2>3, <2>4 DEF KillType
  <2>6. same[j] BY <2>2, <2>3, <2>4, Zenon DEF KillType
  <2>7. kpid[j] \in Pids BY <2>5 DEF KillType
  <2>8. QED BY <1>a, <2>3, <2>5, <2>6, <2>7, Zenon DEF SpareInv
<1>10. ASSUME NEW k \in Killers, Clear(k) PROVE SpareInv'
  <2>1. PICK q \in {"over", "vain"} : kpc' = [kpc EXCEPT ![k] = q]
    BY <1>10, Zenon DEF Clear
  <2>2. UNCHANGED <<kpid, same>> BY <1>10, Zenon DEF Clear
  <2>3. \A j \in Killers : kpc'[j] = "kill" => kpc[j] = "kill" BY <2>1 DEF KillType
  <2>4. QED BY <1>a, <2>2, <2>3, SpareFrame
<1>11. QED
  BY <1>2, <1>3, <1>4, <1>5, <1>6, <1>7, <1>8, <1>9, <1>10, Zenon
  DEF Steps, Spawn, RecordTruncate, RecordWrite, DropChild, Reap, Authorise, Exit, Collect,
      vars, killVars

-----------------------------------------------------------------------------
(* Theorems                                                                *)

IInv == TaskType /\ KillType /\ LoneInv /\ SpareInv

\* No client, no process, no record.
LEMMA InitIInv == Init => IInv
<1> SUFFICES ASSUME Init PROVE IInv OBVIOUS
<1>1. TaskType BY Names DEF Init, TaskType
<1>2. KillType BY Names DEF Init, KillType
<1>3. LoneInv BY Names DEF Init, LoneInv, LoneOf
<1>4. SpareInv BY DEF Init, SpareInv
<1>5. QED BY <1>1, <1>2, <1>3, <1>4 DEF IInv

(* The inductive invariant holds in every state, over any number of        *)
(* crashes and restarts of the client.                                     *)
THEOREM PidFileInv == Spec => []IInv
<1>1. IInv /\ [Next]_vars => IInv'
  <2> SUFFICES ASSUME IInv, Steps PROVE IInv' BY StepCases
  <2>1. TaskType' /\ KillType' BY TaskTypeStep, KillTypeStep DEF IInv
  <2>2. LoneInv' /\ SpareInv' BY LoneStep, SpareStep DEF IInv
  <2>3. QED BY <2>1, <2>2 DEF IInv
<1>2. QED BY <1>1, InitIInv, PTL DEF Spec

(* The only session of a client that found no pid at startup is on record  *)
(* from connect_ovpn's save_last_pid until its abort, whatever writers of  *)
(* the file, processes and crashes do, for any set of pids and of tasks.   *)
THEOREM SessionRecorded == Spec => []RecordInv
<1>1. IInv => RecordInv
  <2> SUFFICES ASSUME IInv PROVE RecordInv OBVIOUS
  <2>1. TypeOK BY TypeParts DEF IInv
  <2>2. SoleSessionOnRecord BY Zenon DEF IInv, LoneInv, LoneOf, Alone, SoleSessionOnRecord
  <2>3. QED BY <2>1, <2>2 DEF RecordInv
<1>2. QED BY <1>1, PidFileInv, PTL

(* kill_openvpn sends no SIGTERM to a process that is not OpenVPN unless it *)
(* took the pid after ps had looked: no stale, torn or reused record does. *)
THEOREM KillSparesStrangers == Spec => StrangersSpared
<1>1. IInv =>
        [\A k \in Killers :
           kpc[k] = "kill" /\ kpc'[k] = "clear" /\ table[kpid[k]] = "other" => ~same[k]]_vars
  BY Zenon DEF IInv, SpareInv
<1>2. QED BY <1>1, PidFileInv, PTL DEF StrangersSpared

=============================================================================
