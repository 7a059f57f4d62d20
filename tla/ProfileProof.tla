---------------------------- MODULE ProfileProof ---------------------------
(***************************************************************************)
(* Proofs about Profile, for any set of callers, any number of stems and   *)
(* any number of calls.                                                    *)
(***************************************************************************)
EXTENDS Profile, TLAPS

\* The steps of one caller, and those of the consumer.
CallerStep(c) ==
  \/ Call(c) \/ SaveExists(c) \/ SaveRemove(c) \/ SaveCreate(c) \/ SaveWrite(c)
  \/ SaveSetConfig(c) \/ SaveSetRemote(c) \/ Lookup(c) \/ Resolved(c)
  \/ Lock(c) \/ ReadConfig(c) \/ ReadRemote(c) \/ ReadAddresses(c) \/ Launch(c)

ConsumerStep ==
  ConsumerReadAddresses \/ ConsumerReadConfig \/ ConsumerReadPort \/ ConsumerLaunch

\* A profile has a path, and the absence of one has none.
LEMMA PathIsPath ==
  ASSUME NEW p \in 0 .. MaxCalls
  PROVE  PathOf(p) \in 0 .. Stems /\ (p # 0 => PathOf(p) \in Paths)
BY ProfileAssumption, SMT DEF PathOf, Paths

\* An empty file, and one that two callers have written, are no profile's.
LEMMA Texts ==
  /\ Missing = 0 /\ Blank # Missing /\ Torn # Missing
  /\ Blank > MaxCalls /\ Torn > MaxCalls
  /\ Missing \in 0 .. MaxCalls + 2 /\ Blank \in 0 .. MaxCalls + 2 /\ Torn \in 0 .. MaxCalls + 2
  /\ 0 .. MaxCalls \subseteq 0 .. MaxCalls + 2
BY ProfileAssumption, SMT DEF Missing, Blank, Torn

-----------------------------------------------------------------------------
(* Types                                                                   *)

\* An empty view, and one with a field replaced, are views.
LEMMA ViewIsMade ==
  /\ Nothing \in Views
  /\ \A v \in Views, f \in 0 .. Stems : [v EXCEPT !.config = f] \in Views
  /\ \A v \in Views, p \in 0 .. MaxCalls :
       /\ [v EXCEPT !.remote = p] \in Views
       /\ [v EXCEPT !.addresses = p] \in Views
BY ProfileAssumption, SMT DEF Nothing, Views

\* A file that gets a text leaves the others as they are.
LEMMA DiskSet ==
  ASSUME NEW g \in [Paths -> 0 .. MaxCalls + 2], NEW f, NEW t \in 0 .. MaxCalls + 2
  PROVE  [g EXCEPT ![f] = t] \in [Paths -> 0 .. MaxCalls + 2]
<1> DEFINE R == 0 .. MaxCalls + 2
<1>1. g \in [Paths -> R] /\ t \in R OBVIOUS
<1> HIDE DEF R
<1>2. [g EXCEPT ![f] = t] \in [Paths -> R] BY <1>1
<1>3. QED BY <1>2 DEF R

\* A caller that goes to a place leaves the others where they are.
LEMMA GotoMoves ==
  ASSUME pc \in [Callers -> Places], NEW c \in Callers, NEW from, NEW to \in Places,
         Goto(c, from, to)
  PROVE  /\ up /\ pc[c] = from
         /\ pc' \in [Callers -> Places]
         /\ pc'[c] = to
         /\ \A d \in Callers \ {c} : pc'[d] = pc[d]
BY SMT DEF Goto

\* The initial state is well typed.
LEMMA TypeInit == Init => TypeOK
BY ProfileAssumption, ViewIsMade, Texts, SMT DEF Init, TypeOK, Places

\* A step of a caller keeps the types, and the mutex of config with the thread
\* that is between the two assignments of save_config.
LEMMA CallerType ==
  ASSUME TypeOK, NEW c \in Callers, CallerStep(c)
  PROVE  TypeOK'
<1> USE ProfileAssumption
<1>t. TypeOK /\ pc \in [Callers -> Places] /\ prof[c] \in 0 .. MaxCalls /\ host[c] \in 0 .. MaxCalls
  BY DEF TypeOK
<1>1. CASE Call(c)
  <2>1. "exists" \in Places BY DEF Places, Saving
  <2>2. QED BY <1>1, <1>t, <2>1, GotoMoves, SMT DEF TypeOK, Call
<1>2. CASE SaveExists(c)
  <2>1. PICK to \in {"remove", "create"} : Goto(c, "exists", to)
    BY <1>2, Zenon DEF SaveExists
  <2>2. to \in Places /\ to # "setRemote" BY DEF Places, Saving
  <2>3. QED BY <1>2, <1>t, <2>1, <2>2, GotoMoves, SMT DEF TypeOK, SaveExists
<1>3. CASE SaveRemove(c)
  <2>1. up' \in BOOLEAN /\ linked' \subseteq Callers
    <3>1. up' = up \/ up' = FALSE BY <1>3, Zenon DEF SaveRemove
    <3>2. \/ linked' = {d \in linked : PathOf(prof[d]) # PathOf(prof[c])}
          \/ linked' = linked
      BY <1>3, Zenon DEF SaveRemove
    <3>3. QED BY <3>1, <3>2, Zenon DEF TypeOK
  <2>2. Goto(c, "remove", "create") \/ pc' = pc
    BY <1>3, Zenon DEF SaveRemove
  <2>3. disk' \in [Paths -> 0 .. MaxCalls + 2]
    <3>1. disk' = disk \/ disk' = [disk EXCEPT ![PathOf(prof[c])] = Missing]
      BY <1>3, Zenon DEF SaveRemove
    <3>2. QED BY <3>1, Texts, DiskSet, Zenon DEF TypeOK
  <2>4. /\ pc' \in [Callers -> Places]
        /\ \A d \in Callers : pc'[d] = "setRemote" <=> pc[d] = "setRemote"
    <3>1. CASE pc' = pc BY <1>t, <3>1
    <3>2. CASE Goto(c, "remove", "create")
      <4>1. "create" \in Places BY DEF Places, Saving
      <4>2. QED BY <1>t, <3>2, <4>1, GotoMoves, Zenon
    <3>3. QED BY <2>2, <3>1, <3>2
  <2>5. QED BY <1>3, <2>1, <2>3, <2>4, SMT DEF TypeOK, SaveRemove
<1>14. CASE SaveCreate(c)
  <2>1. disk' \in [Paths -> 0 .. MaxCalls + 2] /\ linked' \subseteq Callers
    BY <1>14, Texts, DiskSet, Zenon DEF TypeOK, SaveCreate
  <2>2. "write" \in Places BY DEF Places, Saving
  <2>3. QED BY <1>14, <1>t, <2>1, <2>2, GotoMoves, SMT DEF TypeOK, SaveCreate
<1>4. CASE SaveWrite(c)
  <2>1. PICK text \in {prof[c], Torn} :
          disk' = IF c \in linked THEN [disk EXCEPT ![PathOf(prof[c])] = text] ELSE disk
    BY <1>4, Zenon DEF SaveWrite
  <2>2. text \in 0 .. MaxCalls + 2 BY <1>t, <2>1, Texts, SMT
  <2>3. disk' \in [Paths -> 0 .. MaxCalls + 2] /\ linked' \subseteq Callers
    BY <1>4, <2>1, <2>2, DiskSet, Zenon DEF TypeOK, SaveWrite
  <2>4. "setConfig" \in Places BY DEF Places, Saving
  <2>5. QED BY <1>4, <1>t, <2>3, <2>4, GotoMoves, SMT DEF TypeOK, SaveWrite
<1>5. CASE SaveSetConfig(c)
  <2>1. "setRemote" \in Places BY DEF Places, Saving
  <2>2. PathOf(prof[c]) \in 0 .. Stems BY <1>t, PathIsPath
  <2>3. QED BY <1>5, <1>t, <2>1, <2>2, GotoMoves, SMT DEF TypeOK, SaveSetConfig
<1>6. CASE SaveSetRemote(c)
  <2>1. "lookup" \in Places BY DEF Places, Saving
  <2>2. QED BY <1>6, <1>t, <2>1, GotoMoves, SMT DEF TypeOK, SaveSetRemote
<1>7. CASE Lookup(c)
  <2>1. "resolved" \in Places BY DEF Places, Saving
  <2>2. QED BY <1>7, <1>t, <2>1, GotoMoves, SMT DEF TypeOK, Lookup
<1>8. CASE Resolved(c)
  <2>1. "lock" \in Places BY DEF Places, Saving
  <2>2. QED BY <1>8, <1>t, <2>1, GotoMoves, SMT DEF TypeOK, Resolved
<1>9. CASE Lock(c)
  <2>1. "readConfig" \in Places BY DEF Places, Saving
  <2>2. QED BY <1>9, <1>t, <2>1, GotoMoves, SMT DEF TypeOK, Lock
<1>10. CASE ReadConfig(c)
  <2>1. "readRemote" \in Places BY DEF Places, Saving
  <2>2. got' \in Views BY <1>10, ViewIsMade, Zenon DEF TypeOK, ReadConfig
  <2>3. QED BY <1>10, <1>t, <2>1, <2>2, GotoMoves, SMT DEF TypeOK, ReadConfig
<1>11. CASE ReadRemote(c)
  <2>1. "readAddresses" \in Places BY DEF Places, Saving
  <2>2. got' \in Views BY <1>11, ViewIsMade, Zenon DEF TypeOK, ReadRemote
  <2>3. QED BY <1>11, <1>t, <2>1, <2>2, GotoMoves, SMT DEF TypeOK, ReadRemote
<1>12. CASE ReadAddresses(c)
  <2>1. "launch" \in Places BY DEF Places, Saving
  <2>2. got' \in Views BY <1>12, ViewIsMade, Zenon DEF TypeOK, ReadAddresses
  <2>3. QED BY <1>12, <1>t, <2>1, <2>2, GotoMoves, SMT DEF TypeOK, ReadAddresses
<1>13. CASE Launch(c)
  <2>1. "idle" \in Places BY DEF Places, Saving
  <2>2. QED BY <1>13, <1>t, <2>1, GotoMoves, ViewIsMade, SMT DEF TypeOK, Launch
<1> QED BY <1>1, <1>2, <1>3, <1>4, <1>5, <1>6, <1>7, <1>8, <1>9, <1>10, <1>11, <1>12,
           <1>13, <1>14 DEF CallerStep

\* A step of the consumer keeps the types.
LEMMA ConsumerType == TypeOK /\ ConsumerStep => TypeOK'
<1> SUFFICES ASSUME TypeOK, ConsumerStep PROVE TypeOK' OBVIOUS
<1>1. CASE ConsumerReadAddresses
  <2>1. cgot' \in Views BY <1>1, ViewIsMade, Zenon DEF TypeOK, ConsumerReadAddresses
  <2>2. QED BY <1>1, <2>1, SMT DEF TypeOK, ConsumerReadAddresses
<1>2. CASE ConsumerReadConfig
  <2>1. cgot' \in Views BY <1>2, ViewIsMade, Zenon DEF TypeOK, ConsumerReadConfig
  <2>2. QED BY <1>2, <2>1, SMT DEF TypeOK, ConsumerReadConfig
<1>3. CASE ConsumerReadPort
  <2>1. cgot' \in Views BY <1>3, ViewIsMade, Zenon DEF TypeOK, ConsumerReadPort
  <2>2. QED BY <1>3, <2>1, SMT DEF TypeOK, ConsumerReadPort
<1>4. CASE ConsumerLaunch BY <1>4, ViewIsMade, SMT DEF TypeOK, ConsumerLaunch
<1> QED BY <1>1, <1>2, <1>3, <1>4 DEF ConsumerStep

\* Next is a step of a caller or of the consumer.
LEMMA NextCases == Next <=> (\E c \in Callers : CallerStep(c)) \/ ConsumerStep
BY Zenon DEF Next, CallerStep, ConsumerStep

-----------------------------------------------------------------------------
(* Files and remotes                                                       *)

\* A file is under the path f, or a caller is about to create one.
PathSafe(f) ==
  disk[f] # Missing \/ \E d \in Callers : pc[d] = "create" /\ PathOf(prof[d]) = f

\* What the pair of path and remote rests on: save_config sets both for one
\* profile, after it has created the file, and whoever removes a file creates it
\* again.
PairInv ==
  /\ \A c \in Callers : pc[c] # "idle" => prof[c] # 0
  /\ cfgLock = NoCaller => config = PathOf(remote)
  /\ \A c \in Callers : pc[c] = "setRemote" => config = PathOf(prof[c])
  /\ config # 0 => PathSafe(config)
  /\ \A c \in Callers : pc[c] \in {"write", "setConfig"} => PathSafe(PathOf(prof[c]))

\* The files are safe in the initial state: there is no profile yet.
LEMMA PairInit == Init => PairInv
BY ProfileAssumption, SMT DEF Init, PairInv, PathOf

\* PathSafe of the next state, for a path of this one.
SafeNext(f) ==
  disk'[f] # Missing \/ \E d \in Callers : pc'[d] = "create" /\ PathOf(prof'[d]) = f

\* PairInv stays in a step that leaves the configuration alone, keeps what is
\* safe and brings no caller to the assignments.
LEMMA PairFrame ==
  ASSUME PairInv, UNCHANGED <<config, remote, cfgLock>>,
         \A f : PathSafe(f) => SafeNext(f),
         \A d \in Callers : pc'[d] # "idle" => prof'[d] # 0,
         \A d \in Callers : pc'[d] = "setRemote" => pc[d] = "setRemote" /\ prof'[d] = prof[d],
         \A d \in Callers : pc'[d] \in {"write", "setConfig"} =>
            \/ SafeNext(PathOf(prof'[d]))
            \/ pc[d] \in {"write", "setConfig"} /\ prof'[d] = prof[d]
  PROVE  PairInv'
<1>1. config' # 0 => SafeNext(config') BY Zenon DEF PairInv
<1>2. \A d \in Callers : pc'[d] \in {"write", "setConfig"} => SafeNext(PathOf(prof'[d]))
  <2> SUFFICES ASSUME NEW d \in Callers, pc'[d] \in {"write", "setConfig"},
                      pc[d] \in {"write", "setConfig"}, prof'[d] = prof[d]
               PROVE  SafeNext(PathOf(prof'[d]))
    BY Zenon
  <2>1. PathSafe(PathOf(prof[d])) BY Zenon DEF PairInv
  <2>2. QED BY <2>1, Zenon
<1>3. (cfgLock = NoCaller => config = PathOf(remote))' BY DEF PairInv
<1>4. \A d \in Callers : pc'[d] = "setRemote" => config' = PathOf(prof'[d])
  BY Zenon DEF PairInv
<1> QED BY <1>1, <1>2, <1>3, <1>4, Zenon DEF PairInv, PathSafe, SafeNext

\* What is safe stays so when no file changes and nobody gives up a creation.
LEMMA SafeFrame ==
  ASSUME UNCHANGED disk,
         \A d \in Callers : pc[d] = "create" => pc'[d] = "create" /\ prof'[d] = prof[d]
  PROVE  \A f : PathSafe(f) => SafeNext(f)
BY Zenon DEF PathSafe, SafeNext

\* A caller that moves outside of the part of save_config from the creation to the
\* assignments keeps PairInv.
LEMMA PairMove ==
  ASSUME TypeOK, PairInv, NEW c \in Callers, NEW from, NEW to \in Places,
         Goto(c, from, to), from # "create", to \notin {"write", "setConfig", "setRemote"},
         UNCHANGED <<disk, config, remote, cfgLock>>,
         \A d \in Callers \ {c} : prof'[d] = prof[d],
         to # "idle" => prof'[c] # 0
  PROVE  PairInv'
<1>1. /\ pc[c] = from /\ pc'[c] = to /\ \A d \in Callers \ {c} : pc'[d] = pc[d]
  BY GotoMoves DEF TypeOK
<1>2. \A f : PathSafe(f) => SafeNext(f)
  <2>1. \A d \in Callers : pc[d] = "create" => pc'[d] = "create" /\ prof'[d] = prof[d]
    BY <1>1, Zenon
  <2>2. QED BY <2>1, SafeFrame
<1>3. \A d \in Callers : pc'[d] # "idle" => prof'[d] # 0
  BY <1>1, Zenon DEF PairInv
<1>4. \A d \in Callers : pc'[d] = "setRemote" => pc[d] = "setRemote" /\ prof'[d] = prof[d]
  BY <1>1, SMT
<1>5. \A d \in Callers : pc'[d] \in {"write", "setConfig"} =>
         pc[d] \in {"write", "setConfig"} /\ prof'[d] = prof[d]
  BY <1>1, SMT
<1>6. QED BY <1>2, <1>3, <1>4, <1>5, PairFrame, Zenon

\* A step of a caller keeps PairInv.
LEMMA PairCaller ==
  ASSUME TypeOK, PairInv, NEW c \in Callers, CallerStep(c)
  PROVE  PairInv'
<1> USE ProfileAssumption
<1>t. /\ pc \in [Callers -> Places] /\ prof \in [Callers -> 0 .. MaxCalls]
      /\ prof[c] \in 0 .. MaxCalls /\ disk \in [Paths -> 0 .. MaxCalls + 2] /\ calls \in Nat
  BY DEF TypeOK
<1>p. pc[c] # "idle" => prof[c] # 0 /\ PathOf(prof[c]) \in Paths
  BY <1>t, PathIsPath DEF PairInv
<1>1. CASE Call(c)
  <2>1. "exists" \in Places BY DEF Places, Saving
  <2>2. /\ Goto(c, "idle", "exists") /\ UNCHANGED <<disk, config, remote, cfgLock>>
        /\ \A d \in Callers \ {c} : prof'[d] = prof[d]
        /\ prof'[c] # 0
    BY <1>1, <1>t, SMT DEF Call
  <2>3. QED BY <2>1, <2>2, PairMove, SMT
<1>2. CASE SaveExists(c)
  <2>1. PICK to \in {"remove", "create"} : Goto(c, "exists", to)
    BY <1>2, Zenon DEF SaveExists
  <2>2. to \in Places /\ to \notin {"write", "setConfig", "setRemote"} BY DEF Places, Saving
  <2>3. UNCHANGED <<disk, config, remote, cfgLock, prof>> BY <1>2 DEF SaveExists
  <2>4. prof[c] # 0 BY <1>p, <2>1 DEF Goto
  <2>5. QED BY <2>1, <2>2, <2>3, <2>4, PairMove, SMT
<1>3. CASE SaveRemove(c)
  <2>1. CASE disk[PathOf(prof[c])] = Missing
    <3>1. UNCHANGED <<pc, prof, disk, config, remote, cfgLock>>
      BY <1>3, <2>1 DEF SaveRemove
    <3>2. QED BY <3>1, Zenon DEF PairInv, PathSafe
  <2>2. CASE disk[PathOf(prof[c])] # Missing
    <3>1. "create" \in Places BY DEF Places, Saving
    <3>2. /\ Goto(c, "remove", "create")
          /\ disk' = [disk EXCEPT ![PathOf(prof[c])] = Missing]
          /\ UNCHANGED <<config, remote, cfgLock, prof>>
      BY <1>3, <2>2, Zenon DEF SaveRemove
    <3>3. /\ pc[c] = "remove" /\ pc'[c] = "create"
          /\ \A d \in Callers \ {c} : pc'[d] = pc[d]
      BY <1>t, <3>1, <3>2, GotoMoves, Zenon
    <3>4. ASSUME NEW f, PathSafe(f) PROVE SafeNext(f)
      <4>1. CASE f = PathOf(prof[c]) BY <3>2, <3>3, <4>1, Zenon DEF SafeNext
      <4>2. CASE f # PathOf(prof[c])
        <5>1. disk'[f] = disk[f] BY <1>t, <3>2, <4>2, SMT
        <5>2. \A d \in Callers : pc[d] = "create" => pc'[d] = "create" /\ prof'[d] = prof[d]
          BY <3>2, <3>3, SMT
        <5>3. QED BY <3>4, <5>1, <5>2, Zenon DEF PathSafe, SafeNext
      <4>3. QED BY <4>1, <4>2
    <3>5. /\ \A d \in Callers : pc'[d] # "idle" => prof'[d] # 0
          /\ \A d \in Callers : pc'[d] = "setRemote" => pc[d] = "setRemote" /\ prof'[d] = prof[d]
          /\ \A d \in Callers : pc'[d] \in {"write", "setConfig"} =>
                pc[d] \in {"write", "setConfig"} /\ prof'[d] = prof[d]
      BY <1>p, <3>2, <3>3, SMT DEF PairInv
    <3>6. QED BY <3>2, <3>4, <3>5, PairFrame, Zenon
  <2>3. QED BY <2>1, <2>2
<1>14. CASE SaveCreate(c)
  <2>1. "write" \in Places BY DEF Places, Saving
  <2>2. /\ pc[c] = "create" /\ pc'[c] = "write"
        /\ \A d \in Callers \ {c} : pc'[d] = pc[d]
    BY <1>14, <1>t, <2>1, GotoMoves, Zenon DEF SaveCreate
  <2>3. /\ disk' = [disk EXCEPT ![PathOf(prof[c])] = Blank]
        /\ UNCHANGED <<config, remote, cfgLock, prof>>
    BY <1>14 DEF SaveCreate
  <2>4. disk'[PathOf(prof[c])] # Missing BY <1>p, <1>t, <2>2, <2>3, Texts, SMT
  <2>5. SafeNext(PathOf(prof'[c])) BY <2>3, <2>4, Zenon DEF SafeNext
  <2>6. ASSUME NEW f, PathSafe(f) PROVE SafeNext(f)
    <3>1. CASE f = PathOf(prof[c]) BY <2>4, <3>1, Zenon DEF SafeNext
    <3>2. CASE f # PathOf(prof[c])
      <4>1. disk'[f] = disk[f] BY <1>t, <2>3, <3>2, SMT
      <4>2. QED BY <2>2, <2>3, <2>6, <3>2, <4>1, Zenon DEF PathSafe, SafeNext
    <3>3. QED BY <3>1, <3>2
  <2>7. /\ \A d \in Callers : pc'[d] # "idle" => prof'[d] # 0
        /\ \A d \in Callers : pc'[d] = "setRemote" => pc[d] = "setRemote" /\ prof'[d] = prof[d]
        /\ \A d \in Callers \ {c} : pc'[d] \in {"write", "setConfig"} =>
              pc[d] \in {"write", "setConfig"} /\ prof'[d] = prof[d]
    BY <1>p, <2>2, <2>3, SMT DEF PairInv
  <2>8. QED BY <2>3, <2>5, <2>6, <2>7, PairFrame, Zenon
<1>4. CASE SaveWrite(c)
  <2>1. "setConfig" \in Places BY DEF Places, Saving
  <2>2. /\ pc[c] = "write" /\ pc'[c] = "setConfig"
        /\ \A d \in Callers \ {c} : pc'[d] = pc[d]
    BY <1>4, <1>t, <2>1, GotoMoves, Zenon DEF SaveWrite
  <2>3. PICK text \in {prof[c], Torn} :
          disk' = IF c \in linked THEN [disk EXCEPT ![PathOf(prof[c])] = text] ELSE disk
    BY <1>4, Zenon DEF SaveWrite
  <2>4. UNCHANGED <<config, remote, cfgLock, prof>> BY <1>4 DEF SaveWrite
  <2>5. text # Missing BY <1>p, <2>2, Texts, SMT
  <2>6. \A f : disk[f] # Missing => disk'[f] # Missing
    BY <1>t, <2>3, <2>5, SMT
  <2>7. ASSUME NEW f, PathSafe(f) PROVE SafeNext(f)
    <3>1. \A d \in Callers : pc[d] = "create" => pc'[d] = "create" /\ prof'[d] = prof[d]
      BY <2>2, <2>4, SMT
    <3>2. QED BY <2>6, <2>7, <3>1, Zenon DEF PathSafe, SafeNext
  <2>8. /\ \A d \in Callers : pc'[d] # "idle" => prof'[d] # 0
        /\ \A d \in Callers : pc'[d] = "setRemote" => pc[d] = "setRemote" /\ prof'[d] = prof[d]
        /\ \A d \in Callers : pc'[d] \in {"write", "setConfig"} =>
              pc[d] \in {"write", "setConfig"} /\ prof'[d] = prof[d]
    BY <1>p, <2>2, <2>4, SMT DEF PairInv
  <2>9. QED BY <2>4, <2>7, <2>8, PairFrame, Zenon
<1>5. CASE SaveSetConfig(c)
  <2>1. "setRemote" \in Places BY DEF Places, Saving
  <2>2. /\ pc[c] = "setConfig" /\ pc'[c] = "setRemote"
        /\ \A d \in Callers \ {c} : pc'[d] = pc[d]
    BY <1>5, <1>t, <2>1, GotoMoves, Zenon DEF SaveSetConfig
  <2>3. /\ cfgLock = NoCaller /\ cfgLock' = c /\ config' = PathOf(prof[c])
        /\ UNCHANGED <<disk, remote, prof>>
    BY <1>5 DEF SaveSetConfig
  <2>4. \A f : PathSafe(f) => SafeNext(f)
    <3>1. \A d \in Callers : pc[d] = "create" => pc'[d] = "create" /\ prof'[d] = prof[d]
      BY <2>2, <2>3, SMT
    <3>2. QED BY <2>3, <3>1, SafeFrame
  <2>5. SafeNext(config') BY <2>2, <2>3, <2>4, Zenon DEF PairInv
  <2>6. \A d \in Callers : pc'[d] \in {"write", "setConfig"} => SafeNext(PathOf(prof'[d]))
    <3>1. \A d \in Callers : pc'[d] \in {"write", "setConfig"} =>
             pc[d] \in {"write", "setConfig"} /\ prof'[d] = prof[d]
      BY <2>2, <2>3, SMT
    <3>2. QED BY <2>4, <3>1, Zenon DEF PairInv
  <2>7. \A d \in Callers : pc'[d] = "setRemote" => config' = PathOf(prof'[d])
    BY <2>2, <2>3, SMT DEF TypeOK
  <2>8. (cfgLock = NoCaller => config = PathOf(remote))' BY <2>3
  <2>9. \A d \in Callers : pc'[d] # "idle" => prof'[d] # 0
    BY <1>p, <2>2, <2>3, SMT DEF PairInv
  <2>10. QED BY <2>5, <2>6, <2>7, <2>8, <2>9, Zenon DEF PairInv, PathSafe, SafeNext
<1>6. CASE SaveSetRemote(c)
  <2>1. "lookup" \in Places BY DEF Places, Saving
  <2>2. /\ pc[c] = "setRemote" /\ pc'[c] = "lookup"
        /\ \A d \in Callers \ {c} : pc'[d] = pc[d]
    BY <1>6, <1>t, <2>1, GotoMoves, Zenon DEF SaveSetRemote
  <2>3. /\ cfgLock' = NoCaller /\ remote' = prof[c]
        /\ UNCHANGED <<disk, config, prof>>
    BY <1>6 DEF SaveSetRemote
  <2>4. \A f : PathSafe(f) => SafeNext(f)
    <3>1. \A d \in Callers : pc[d] = "create" => pc'[d] = "create" /\ prof'[d] = prof[d]
      BY <2>2, <2>3, SMT
    <3>2. QED BY <2>3, <3>1, SafeFrame
  <2>5. config' # 0 => SafeNext(config') BY <2>3, <2>4, Zenon DEF PairInv
  <2>6. \A d \in Callers : pc'[d] \in {"write", "setConfig"} => SafeNext(PathOf(prof'[d]))
    <3>1. \A d \in Callers : pc'[d] \in {"write", "setConfig"} =>
             pc[d] \in {"write", "setConfig"} /\ prof'[d] = prof[d]
      BY <2>2, <2>3, SMT
    <3>2. QED BY <2>4, <3>1, Zenon DEF PairInv
  <2>7. \A d \in Callers : pc'[d] = "setRemote" => config' = PathOf(prof'[d])
    BY <2>2, <2>3, SMT DEF PairInv
  <2>8. (cfgLock = NoCaller => config = PathOf(remote))' BY <2>2, <2>3 DEF PairInv
  <2>9. \A d \in Callers : pc'[d] # "idle" => prof'[d] # 0
    BY <1>p, <2>2, <2>3, SMT DEF PairInv
  <2>10. QED BY <2>5, <2>6, <2>7, <2>8, <2>9, Zenon DEF PairInv, PathSafe, SafeNext
<1>7. CASE Lookup(c)
  <2>1. "resolved" \in Places BY DEF Places
  <2>2. /\ Goto(c, "lookup", "resolved")
        /\ UNCHANGED <<disk, config, remote, cfgLock, prof>>
    BY <1>7 DEF Lookup
  <2>3. prof[c] # 0 BY <1>p, <2>2 DEF Goto
  <2>4. QED BY <2>1, <2>2, <2>3, PairMove, SMT
<1>8. CASE Resolved(c)
  <2>1. "lock" \in Places BY DEF Places
  <2>2. /\ Goto(c, "resolved", "lock")
        /\ UNCHANGED <<disk, config, remote, cfgLock, prof>>
    BY <1>8 DEF Resolved
  <2>3. prof[c] # 0 BY <1>p, <2>2 DEF Goto
  <2>4. QED BY <2>1, <2>2, <2>3, PairMove, SMT
<1>9. CASE Lock(c)
  <2>1. "readConfig" \in Places BY DEF Places
  <2>2. /\ Goto(c, "lock", "readConfig")
        /\ UNCHANGED <<disk, config, remote, cfgLock, prof>>
    BY <1>9 DEF Lock
  <2>3. prof[c] # 0 BY <1>p, <2>2 DEF Goto
  <2>4. QED BY <2>1, <2>2, <2>3, PairMove, SMT
<1>10. CASE ReadConfig(c)
  <2>1. "readRemote" \in Places BY DEF Places
  <2>2. /\ Goto(c, "readConfig", "readRemote")
        /\ UNCHANGED <<disk, config, remote, cfgLock, prof>>
    BY <1>10 DEF ReadConfig
  <2>3. prof[c] # 0 BY <1>p, <2>2 DEF Goto
  <2>4. QED BY <2>1, <2>2, <2>3, PairMove, SMT
<1>11. CASE ReadRemote(c)
  <2>1. "readAddresses" \in Places BY DEF Places
  <2>2. /\ Goto(c, "readRemote", "readAddresses")
        /\ UNCHANGED <<disk, config, remote, cfgLock, prof>>
    BY <1>11 DEF ReadRemote
  <2>3. prof[c] # 0 BY <1>p, <2>2 DEF Goto
  <2>4. QED BY <2>1, <2>2, <2>3, PairMove, SMT
<1>12. CASE ReadAddresses(c)
  <2>1. "launch" \in Places BY DEF Places
  <2>2. /\ Goto(c, "readAddresses", "launch")
        /\ UNCHANGED <<disk, config, remote, cfgLock, prof>>
    BY <1>12 DEF ReadAddresses
  <2>3. prof[c] # 0 BY <1>p, <2>2 DEF Goto
  <2>4. QED BY <2>1, <2>2, <2>3, PairMove, SMT
<1>13. CASE Launch(c)
  <2>1. "idle" \in Places BY DEF Places
  <2>2. /\ Goto(c, "launch", "idle")
        /\ UNCHANGED <<disk, config, remote, cfgLock, prof>>
    BY <1>13 DEF Launch
  <2>3. prof[c] # 0 BY <1>p, <2>2 DEF Goto
  <2>4. QED BY <2>1, <2>2, <2>3, PairMove, SMT
<1> QED BY <1>1, <1>2, <1>3, <1>4, <1>5, <1>6, <1>7, <1>8, <1>9, <1>10, <1>11, <1>12,
           <1>13, <1>14 DEF CallerStep

\* Whatever touches neither the configuration nor the callers keeps PairInv.
LEMMA PairStutter ==
  ASSUME PairInv, UNCHANGED <<config, remote, cfgLock, disk, pc, prof>>
  PROVE  PairInv'
BY Zenon DEF PairInv, PathSafe

\* Types and PairInv are an invariant.
THEOREM ProfilePairInv == Spec => [](TypeOK /\ PairInv)
<1>1. Init => TypeOK /\ PairInv BY TypeInit, PairInit
<1>2. TypeOK /\ PairInv /\ [Next]_vars => (TypeOK /\ PairInv)'
  <2> SUFFICES ASSUME TypeOK, PairInv, [Next]_vars PROVE TypeOK' /\ PairInv' OBVIOUS
  <2>1. CASE \E c \in Callers : CallerStep(c) BY <2>1, CallerType, PairCaller
  <2>2. CASE ConsumerStep
    <3>1. UNCHANGED <<config, remote, cfgLock, disk, pc, prof>>
      BY <2>2 DEF ConsumerStep, ConsumerReadAddresses, ConsumerReadConfig,
                  ConsumerReadPort, ConsumerLaunch
    <3>2. QED BY <2>2, <3>1, ConsumerType, PairStutter
  <2>3. CASE UNCHANGED vars
    <3>1. TypeOK' BY <2>3 DEF vars, TypeOK
    <3>2. PairInv' BY <2>3, PairStutter DEF vars
    <3>3. QED BY <3>1, <3>2
  <2>4. QED BY <2>1, <2>2, <2>3, NextCases
<1>3. QED BY <1>1, <1>2, PTL DEF Spec

-----------------------------------------------------------------------------
(* Calls that overlap no other                                             *)

\* A call above the ghost "mixed" is alone, and it is the last one.
LoneInv ==
  \A c \in Callers :
    /\ prof[c] <= calls
    /\ pc[c] # "idle" => prof[c] > 0
    /\ pc[c] # "idle" /\ prof[c] > mixed => \A d \in Callers \ {c} : pc[d] = "idle"
    /\ pc[c] # "idle" /\ calls > mixed => prof[c] = calls

\* The places behind save_config.
Saved == {"lookup", "resolved", "lock", "readConfig", "readRemote", "readAddresses", "launch"}

\* What a caller that is alone has left in the configuration and has read back.
OwnOf(c) ==
  /\ pc[c] = "write" => c \in linked /\ disk[PathOf(prof[c])] = Blank
  /\ pc[c] \in Saved \cup {"setConfig", "setRemote"} => disk[PathOf(prof[c])] = prof[c]
  /\ pc[c] \in Saved => config = PathOf(prof[c]) /\ remote = prof[c]
  /\ pc[c] = "resolved" => host[c] = prof[c]
  /\ pc[c] \in {"lock", "readConfig", "readRemote", "readAddresses", "launch"}
       => addresses = prof[c]
  /\ pc[c] \in {"readRemote", "readAddresses", "launch"} => got.config = PathOf(prof[c])
  /\ pc[c] \in {"readAddresses", "launch"} => got.remote = prof[c]
  /\ pc[c] = "launch" => got.addresses = prof[c]

OwnInv == \A c \in Callers : pc[c] # "idle" /\ prof[c] > mixed => OwnOf(c)

\* What the last call has left when it overlapped no other and save_config is over.
DoneInv ==
  calls > mixed /\ (\A c \in Callers : pc[c] \notin Saving) =>
    config = PathOf(calls) /\ remote = calls /\ disk[PathOf(calls)] = calls

\* A step of a caller is a call, or it leaves the calls as they are; the other
\* callers stay where they are.
LEMMA CallerFrame ==
  ASSUME TypeOK, NEW c \in Callers, CallerStep(c)
  PROVE  /\ \A d \in Callers \ {c} : pc'[d] = pc[d] /\ prof'[d] = prof[d]
         /\ \/ Call(c)
            \/ pc[c] # "idle" /\ UNCHANGED <<calls, prof, mixed>>
<1>t. pc \in [Callers -> Places] /\ prof \in [Callers -> 0 .. MaxCalls] BY DEF TypeOK
<1>1. CASE Call(c)
  <2>1. "exists" \in Places BY DEF Places, Saving
  <2>2. QED BY <1>1, <1>t, <2>1, GotoMoves, SMT DEF Call
<1>2. CASE SaveExists(c)
  <2>1. PICK to \in {"remove", "create"} : Goto(c, "exists", to)
    BY <1>2, Zenon DEF SaveExists
  <2>2. to \in Places BY DEF Places, Saving
  <2>3. QED BY <1>2, <1>t, <2>1, <2>2, GotoMoves, SMT DEF SaveExists
<1>3. CASE SaveRemove(c)
  <2>1. "create" \in Places BY DEF Places, Saving
  <2>2. pc[c] = "remove" /\ (Goto(c, "remove", "create") \/ pc' = pc)
    BY <1>3, Zenon DEF SaveRemove, Goto
  <2>3. \A d \in Callers \ {c} : pc'[d] = pc[d]
    BY <1>t, <2>1, <2>2, GotoMoves, Zenon
  <2>4. QED BY <1>3, <2>2, <2>3, SMT DEF SaveRemove
<1>14. CASE SaveCreate(c)
  <2>1. "write" \in Places BY DEF Places, Saving
  <2>2. QED BY <1>14, <1>t, <2>1, GotoMoves, SMT DEF SaveCreate
<1>4. CASE SaveWrite(c)
  <2>1. "setConfig" \in Places BY DEF Places, Saving
  <2>2. QED BY <1>4, <1>t, <2>1, GotoMoves, SMT DEF SaveWrite
<1>5. CASE SaveSetConfig(c)
  <2>1. "setRemote" \in Places BY DEF Places, Saving
  <2>2. QED BY <1>5, <1>t, <2>1, GotoMoves, SMT DEF SaveSetConfig
<1>6. CASE SaveSetRemote(c)
  <2>1. "lookup" \in Places BY DEF Places, Saving
  <2>2. QED BY <1>6, <1>t, <2>1, GotoMoves, SMT DEF SaveSetRemote
<1>7. CASE Lookup(c)
  <2>1. "resolved" \in Places BY DEF Places, Saving
  <2>2. QED BY <1>7, <1>t, <2>1, GotoMoves, SMT DEF Lookup
<1>8. CASE Resolved(c)
  <2>1. "lock" \in Places BY DEF Places, Saving
  <2>2. QED BY <1>8, <1>t, <2>1, GotoMoves, SMT DEF Resolved
<1>9. CASE Lock(c)
  <2>1. "readConfig" \in Places BY DEF Places, Saving
  <2>2. QED BY <1>9, <1>t, <2>1, GotoMoves, SMT DEF Lock
<1>10. CASE ReadConfig(c)
  <2>1. "readRemote" \in Places BY DEF Places, Saving
  <2>2. QED BY <1>10, <1>t, <2>1, GotoMoves, SMT DEF ReadConfig
<1>11. CASE ReadRemote(c)
  <2>1. "readAddresses" \in Places BY DEF Places, Saving
  <2>2. QED BY <1>11, <1>t, <2>1, GotoMoves, SMT DEF ReadRemote
<1>12. CASE ReadAddresses(c)
  <2>1. "launch" \in Places BY DEF Places, Saving
  <2>2. QED BY <1>12, <1>t, <2>1, GotoMoves, SMT DEF ReadAddresses
<1>13. CASE Launch(c)
  <2>1. "idle" \in Places BY DEF Places, Saving
  <2>2. QED BY <1>13, <1>t, <2>1, GotoMoves, SMT DEF Launch
<1> QED BY <1>1, <1>2, <1>3, <1>4, <1>5, <1>6, <1>7, <1>8, <1>9, <1>10, <1>11, <1>12,
           <1>13, <1>14 DEF CallerStep

\* After a step of one caller, no other that is inside a call is alone.
LEMMA OthersAreMixed ==
  ASSUME TypeOK, LoneInv, NEW c \in Callers, CallerStep(c)
  PROVE  \A d \in Callers \ {c} : pc'[d] # "idle" => ~ (prof'[d] > mixed')
<1> SUFFICES ASSUME NEW d \in Callers \ {c}, pc'[d] # "idle"
             PROVE  ~ (prof'[d] > mixed')
  OBVIOUS
<1>1. pc'[d] = pc[d] /\ prof'[d] = prof[d] BY CallerFrame
<1>2. CASE Call(c)
  <2>1. mixed' = calls + 1 BY <1>1, <1>2, Zenon DEF Call
  <2>2. prof[d] <= calls /\ prof[d] \in Nat /\ calls \in Nat
    BY SMT DEF LoneInv, TypeOK
  <2>3. QED BY <1>1, <2>1, <2>2, SMT
<1>3. CASE pc[c] # "idle" /\ UNCHANGED <<calls, prof, mixed>>
  BY <1>1, <1>3, Zenon DEF LoneInv
<1>4. QED BY <1>2, <1>3, CallerFrame

\* A step of a caller keeps LoneInv.
LEMMA LoneCaller ==
  ASSUME TypeOK, LoneInv, NEW c \in Callers, CallerStep(c)
  PROVE  LoneInv'
<1>1. \A d \in Callers \ {c} : pc'[d] # "idle" => ~ (prof'[d] > mixed')
  BY OthersAreMixed
<1>2. CASE Call(c)
  <2>1. /\ calls' = calls + 1 /\ prof' = [prof EXCEPT ![c] = calls + 1]
        /\ pc' = [pc EXCEPT ![c] = "exists"]
    BY <1>2 DEF Call, Goto
  <2>2. (\E d \in Callers \ {c} : pc[d] # "idle") => mixed' = calls + 1
    BY <1>2, Zenon DEF Call
  <2>3. \A d \in Callers : prof'[d] <= calls'
    BY <2>1, SMT DEF LoneInv, TypeOK
  <2>4. prof'[c] > mixed' => \A d \in Callers \ {c} : pc'[d] = "idle"
    BY <2>1, <2>2, SMT DEF TypeOK
  <2>5. \A d \in Callers : pc'[d] # "idle" => prof'[d] > 0
    BY <2>1, SMT DEF LoneInv, TypeOK
  <2>6. \A d \in Callers : pc'[d] # "idle" /\ calls' > mixed' => prof'[d] = calls'
    <3>1. CASE \E d \in Callers \ {c} : pc[d] # "idle" BY <2>1, <2>2, <3>1, SMT DEF TypeOK
    <3>2. CASE \A d \in Callers \ {c} : pc[d] = "idle" BY <2>1, <3>2, SMT DEF TypeOK
    <3>3. QED BY <3>1, <3>2
  <2>7. QED BY <1>1, <2>3, <2>4, <2>5, <2>6, Zenon DEF LoneInv
<1>3. CASE pc[c] # "idle" /\ UNCHANGED <<calls, prof, mixed>>
  <2>1. \A d \in Callers \ {c} : pc'[d] = pc[d] BY CallerFrame
  <2>2. QED BY <1>1, <1>3, <2>1, Zenon DEF LoneInv
<1>4. QED BY <1>2, <1>3, CallerFrame

\* A step of a caller keeps what it knows of the configuration.
LEMMA OwnCaller ==
  ASSUME TypeOK, PairInv, LoneInv, OwnInv, NEW c \in Callers, CallerStep(c)
  PROVE  OwnInv'
<1>t. pc \in [Callers -> Places] /\ prof \in [Callers -> 0 .. MaxCalls] /\ host \in [Callers -> 0 .. MaxCalls]
  BY DEF TypeOK
<1>s. SUFFICES ASSUME pc'[c] # "idle", prof'[c] > mixed' PROVE OwnOf(c)'
  <2>1. \A d \in Callers \ {c} : pc'[d] # "idle" => ~ (prof'[d] > mixed')
    BY OthersAreMixed
  <2>2. QED BY <2>1, Zenon DEF OwnInv
<1>g. got \in Views BY DEF TypeOK
<1>p. Call(c) \/ OwnOf(c)
  BY <1>s, CallerFrame, Zenon DEF OwnInv
<1>w. pc[c] # "idle" => prof[c] # 0 /\ PathOf(prof[c]) \in Paths
  BY <1>t, PathIsPath DEF PairInv
<1>d. disk \in [Paths -> 0 .. MaxCalls + 2] BY DEF TypeOK
<1>1. CASE Call(c)
  <2>1. pc'[c] = "exists" BY <1>1, <1>t DEF Call, Goto
  <2>2. QED BY <2>1, SMT DEF OwnOf, Saved
<1>2. CASE SaveExists(c)
  <2>1. pc'[c] \in {"remove", "create"} BY <1>2, <1>t, SMT DEF SaveExists, Goto
  <2>2. QED BY <2>1, SMT DEF OwnOf, Saved
<1>3. CASE SaveRemove(c)
  <2>1. pc[c] = "remove" /\ (pc' = pc \/ pc' = [pc EXCEPT ![c] = "create"])
    BY <1>3, Zenon DEF SaveRemove, Goto
  <2>2. QED BY <1>t, <2>1, SMT DEF OwnOf, Saved
<1>14. CASE SaveCreate(c)
  <2>1. pc[c] = "create" /\ pc'[c] = "write" BY <1>14, <1>t DEF SaveCreate, Goto
  <2>2. c \in linked' /\ prof' = prof BY <1>14 DEF SaveCreate
  <2>3. disk'[PathOf(prof[c])] = Blank BY <1>14, <1>d, <1>w, <2>1, SMT DEF SaveCreate
  <2>4. QED BY <2>1, <2>2, <2>3, SMT DEF OwnOf, Saved
<1>4. CASE SaveWrite(c)
  <2>1. pc[c] = "write" /\ pc'[c] = "setConfig" BY <1>4, <1>t DEF SaveWrite, Goto
  <2>2. OwnOf(c) BY <1>4, <1>p, <2>1, SMT DEF Call, Goto
  <2>3. c \in linked /\ disk[PathOf(prof[c])] = Blank BY <2>1, <2>2, Zenon DEF OwnOf
  <2>4. disk' = [disk EXCEPT ![PathOf(prof[c])] = prof[c]] /\ prof' = prof
    BY <1>4, <2>3, Zenon DEF SaveWrite
  <2>5. disk'[PathOf(prof[c])] = prof[c] BY <1>d, <1>w, <2>1, <2>4, SMT
  <2>6. QED BY <2>1, <2>4, <2>5, SMT DEF OwnOf, Saved
<1>5. CASE SaveSetConfig(c)
  <2>1. pc[c] = "setConfig" /\ pc'[c] = "setRemote" BY <1>5, <1>t DEF SaveSetConfig, Goto
  <2>2. OwnOf(c) BY <1>5, <1>p, <2>1, SMT DEF Call, Goto
  <2>3. UNCHANGED <<disk, prof>> BY <1>5 DEF SaveSetConfig
  <2>4. QED BY <2>1, <2>2, <2>3, SMT DEF OwnOf, Saved
<1>6. CASE SaveSetRemote(c)
  <2>1. pc[c] = "setRemote" /\ pc'[c] = "lookup" BY <1>6, <1>t DEF SaveSetRemote, Goto
  <2>2. OwnOf(c) BY <1>6, <1>p, <2>1, SMT DEF Call, Goto
  <2>3. QED BY <1>6, <1>t, <1>g, <2>1, <2>2, SMT DEF SaveSetRemote, OwnOf, Saved, PairInv
<1>7. CASE Lookup(c)
  <2>1. pc[c] = "lookup" /\ pc'[c] = "resolved" BY <1>7, <1>t DEF Lookup, Goto
  <2>2. OwnOf(c) BY <1>7, <1>p, <2>1, SMT DEF Call, Goto
  <2>3. QED BY <1>7, <1>t, <1>g, <2>1, <2>2, SMT DEF Lookup, OwnOf, Saved
<1>8. CASE Resolved(c)
  <2>1. pc[c] = "resolved" /\ pc'[c] = "lock" BY <1>8, <1>t DEF Resolved, Goto
  <2>2. OwnOf(c) BY <1>8, <1>p, <2>1, SMT DEF Call, Goto
  <2>3. QED BY <1>8, <1>t, <1>g, <2>1, <2>2, SMT DEF Resolved, OwnOf, Saved
<1>9. CASE Lock(c)
  <2>1. pc[c] = "lock" /\ pc'[c] = "readConfig" BY <1>9, <1>t DEF Lock, Goto
  <2>2. OwnOf(c) BY <1>9, <1>p, <2>1, SMT DEF Call, Goto
  <2>3. QED BY <1>9, <1>t, <1>g, <2>1, <2>2, SMT DEF Lock, OwnOf, Saved
<1>10. CASE ReadConfig(c)
  <2>1. pc[c] = "readConfig" /\ pc'[c] = "readRemote" BY <1>10, <1>t DEF ReadConfig, Goto
  <2>2. OwnOf(c) BY <1>10, <1>p, <2>1, SMT DEF Call, Goto
  <2>3. QED BY <1>10, <1>t, <1>g, <2>1, <2>2, SMT DEF ReadConfig, OwnOf, Saved, Views
<1>11. CASE ReadRemote(c)
  <2>1. pc[c] = "readRemote" /\ pc'[c] = "readAddresses" BY <1>11, <1>t DEF ReadRemote, Goto
  <2>2. OwnOf(c) BY <1>11, <1>p, <2>1, SMT DEF Call, Goto
  <2>3. QED BY <1>11, <1>t, <1>g, <2>1, <2>2, SMT DEF ReadRemote, OwnOf, Saved, Views
<1>12. CASE ReadAddresses(c)
  <2>1. pc[c] = "readAddresses" /\ pc'[c] = "launch" BY <1>12, <1>t DEF ReadAddresses, Goto
  <2>2. OwnOf(c) BY <1>12, <1>p, <2>1, SMT DEF Call, Goto
  <2>3. QED BY <1>12, <1>t, <1>g, <2>1, <2>2, SMT DEF ReadAddresses, OwnOf, Saved, Views
<1>13. CASE Launch(c) BY <1>13, <1>s, <1>t, SMT DEF Launch, Goto
<1> QED BY <1>1, <1>2, <1>3, <1>4, <1>5, <1>6, <1>7, <1>8, <1>9, <1>10, <1>11, <1>12,
           <1>13, <1>14 DEF CallerStep

\* A caller's step outside of save_config leaves the files alone.
LEMMA SavedStep ==
  ASSUME TypeOK, NEW c \in Callers, CallerStep(c), pc'[c] \notin Saving
  PROVE  \/ pc[c] \in Saving /\ pc'[c] \in Saved
         \/ pc[c] \in Saved /\ pc'[c] \in Saved
         \/ Launch(c)
<1>t. pc \in [Callers -> Places] BY DEF TypeOK
<1> USE DEF Goto, Saving, Saved
<1>1. CASE Call(c) \/ SaveRemove(c) \/ SaveCreate(c) \/ SaveWrite(c) \/ SaveSetConfig(c)
  <2>1. CASE SaveRemove(c)
    <3>1. pc[c] = "remove" /\ (pc' = pc \/ pc' = [pc EXCEPT ![c] = "create"])
      BY <2>1, Zenon DEF SaveRemove
    <3>2. QED BY <1>t, <3>1, SMT
  <2>2. CASE ~ SaveRemove(c)
    BY <1>1, <1>t, <2>2, SMT DEF Call, SaveCreate, SaveWrite, SaveSetConfig
  <2>3. QED BY <2>1, <2>2
<1>2. CASE SaveExists(c) BY <1>2, <1>t, SMT DEF SaveExists
<1>3. CASE SaveSetRemote(c) BY <1>3, <1>t, SMT DEF SaveSetRemote
<1>4. CASE Lookup(c) \/ Resolved(c) \/ Lock(c)
  BY <1>4, <1>t, SMT DEF Lookup, Resolved, Lock
<1>5. CASE ReadConfig(c) \/ ReadRemote(c) \/ ReadAddresses(c)
  BY <1>5, <1>t, SMT DEF ReadConfig, ReadRemote, ReadAddresses
<1> QED BY <1>1, <1>2, <1>3, <1>4, <1>5 DEF CallerStep

\* A step of a caller keeps what the last call has left.
LEMMA DoneCaller ==
  ASSUME TypeOK, LoneInv, OwnInv, OwnInv', NEW c \in Callers, CallerStep(c)
  PROVE  DoneInv'
<1> SUFFICES ASSUME calls' > mixed', pc'[c] \notin Saving
             PROVE  config' = PathOf(calls') /\ remote' = calls' /\ disk'[PathOf(calls')] = calls'
  BY Zenon DEF DoneInv
<1>t. pc \in [Callers -> Places] BY DEF TypeOK
<1>1. ~ Call(c)
  <2>1. Call(c) => pc'[c] = "exists" BY <1>t DEF Call, Goto
  <2>2. QED BY <2>1 DEF Saving
<1>2. pc[c] # "idle" /\ UNCHANGED <<calls, prof, mixed>> BY <1>1, CallerFrame
<1>3. prof[c] = calls /\ prof[c] > mixed /\ prof'[c] = calls' /\ prof'[c] > mixed'
  BY <1>2, Zenon DEF LoneInv
<1>4. CASE pc'[c] \in Saved
  <2>1. pc'[c] # "idle" BY <1>4 DEF Saved
  <2>2. OwnOf(c)' BY <1>3, <2>1, Zenon DEF OwnInv
  <2>3. QED BY <1>3, <1>4, <2>2, Zenon DEF OwnOf
<1>5. CASE Launch(c)
  <2>1. OwnOf(c) /\ pc[c] \in Saved BY <1>2, <1>3, <1>5, Zenon DEF OwnInv, Launch, Goto, Saved
  <2>2. UNCHANGED <<config, remote, disk>> BY <1>5 DEF Launch
  <2>3. QED BY <1>2, <1>3, <2>1, <2>2, Zenon DEF OwnOf
<1>6. QED BY <1>4, <1>5, SavedStep

\* All that is true of callers that are alone.
AloneInv == TypeOK /\ PairInv /\ LoneInv /\ OwnInv /\ DoneInv

(* A call that no other overlaps has left its own profile behind at every   *)
(* step of openaws_connect.                                                 *)
THEOREM ProfileAloneInv == Spec => []AloneInv
<1>1. Init => AloneInv
  BY TypeInit, PairInit, ProfileAssumption, SMT DEF Init, AloneInv, LoneInv, OwnInv, DoneInv
<1>2. AloneInv /\ TypeOK' /\ PairInv' /\ [Next]_vars => AloneInv'
  <2> SUFFICES ASSUME AloneInv, TypeOK', PairInv', [Next]_vars
               PROVE  LoneInv' /\ OwnInv' /\ DoneInv'
    BY DEF AloneInv
  <2>1. CASE \E c \in Callers : CallerStep(c)
    <3>1. PICK c \in Callers : CallerStep(c) BY <2>1
    <3>2. LoneInv' /\ OwnInv' BY <3>1, LoneCaller, OwnCaller DEF AloneInv
    <3>3. QED BY <3>1, <3>2, DoneCaller DEF AloneInv
  <2>2. CASE ConsumerStep \/ UNCHANGED vars
    <3>1. UNCHANGED <<calls, prof, pc, host, disk, linked, config, remote, addresses, got, mixed>>
      BY <2>2 DEF ConsumerStep, ConsumerReadAddresses, ConsumerReadConfig,
                  ConsumerReadPort, ConsumerLaunch, vars
    <3>2. QED BY <3>1, Zenon DEF AloneInv, LoneInv, OwnInv, OwnOf, DoneInv
  <2>3. QED BY <2>1, <2>2, NextCases
<1>3. QED BY <1>1, <1>2, ProfilePairInv, PTL DEF Spec

\* The types hold; whenever save_config is over, config is the path of the profile
\* that remote is from; a file is there under it unless one is about to be
\* created, and it has the text of that profile if the last call overlapped no
\* other: for any number of overlapping openaws_connect calls, stems and callers.
THEOREM ProfileSafe == Spec => []ProfileInv
<1>1. AloneInv => ProfileInv
  <2> SUFFICES ASSUME AloneInv PROVE ProfileInv OBVIOUS
  <2>1. (\A c \in Callers : pc[c] # "create") /\ config # 0 => disk[config] # Missing
    BY Zenon DEF AloneInv, PairInv, PathSafe
  <2>2. (\A c \in Callers : pc[c] \notin Saving) /\ calls > mixed => disk[config] = remote
    BY Zenon DEF AloneInv, DoneInv
  <2>3. QED BY <2>1, <2>2, Zenon DEF AloneInv, PairInv, ProfileInv, PairFromOneFile
<1>2. QED BY <1>1, ProfileAloneInv, PTL

\* A call of openaws_connect that no other call overlaps launches run_ovpn with
\* the path, the port and the address of its own profile, and with its text under
\* the path, for any number of callers and calls.
THEOREM ProfileOwn == Spec => []ConnectUsesProfile
<1>1. AloneInv => ConnectUsesProfile
  <2> SUFFICES ASSUME AloneInv, NEW c \in Callers, pc[c] = "launch", prof[c] > mixed
               PROVE  /\ got = [config |-> PathOf(prof[c]), remote |-> prof[c],
                                addresses |-> prof[c]]
                      /\ disk[got.config] = prof[c]
    BY DEF ConnectUsesProfile
  <2>1. got \in Views BY DEF AloneInv, TypeOK
  <2>2. /\ got.config = PathOf(prof[c]) /\ got.remote = prof[c] /\ got.addresses = prof[c]
        /\ disk[PathOf(prof[c])] = prof[c]
    BY SMT DEF AloneInv, OwnInv, OwnOf, Saved
  <2>3. QED BY <2>1, <2>2, SMT DEF Views
<1>2. QED BY <1>1, ProfileAloneInv, PTL

-----------------------------------------------------------------------------
(* The consumer                                                            *)

\* As long as no calls overlapped, the configuration moves forward: addresses
\* follow remote, remote follows the text under its path.
OrderInv ==
  /\ remote <= calls /\ addresses <= remote
  /\ \A c \in Callers : pc[c] = "resolved" => addresses <= host[c] /\ host[c] <= remote
  /\ remote # 0 /\ disk[PathOf(remote)] # Missing => remote <= disk[PathOf(remote)]

\* What the consumer has read is no newer than what is there now.
ReadInv ==
  /\ cpc \in {"readConfig", "readPort", "launch"}
       => cgot.addresses # 0 /\ cgot.addresses <= remote
  /\ cpc \in {"readPort", "launch"}
       => /\ cgot.config \in Paths
          /\ disk[cgot.config] # Missing => cgot.addresses <= disk[cgot.config]
  /\ cpc = "launch" => cgot.addresses <= cgot.remote

ForwardInv == mixed = 0 => OrderInv /\ ReadInv

\* The numbers that OrderInv compares.
LEMMA Numbers ==
  ASSUME TypeOK
  PROVE  /\ calls \in Nat /\ remote \in Nat /\ addresses \in Nat
         /\ mixed \in Nat
         /\ \A c \in Callers : prof[c] \in Nat /\ host[c] \in Nat
         /\ cgot.remote \in Nat /\ cgot.addresses \in Nat
         /\ \A f \in Paths : disk[f] \in Nat
BY ProfileAssumption, SMT DEF TypeOK, Views

\* A step of the last call replaces the text of a file by nothing or by a text that
\* is no older than any remote so far.
LEMMA DiskGrows ==
  ASSUME TypeOK, NEW c \in Callers, CallerStep(c), pc[c] # "idle" => prof[c] = calls
  PROVE  \A f \in Paths : disk'[f] = disk[f] \/ disk'[f] = Missing \/ calls <= disk'[f]
<1>t. /\ disk \in [Paths -> 0 .. MaxCalls + 2] /\ calls \in 0 .. MaxCalls /\ MaxCalls \in Nat
      /\ Blank \in Nat /\ Torn \in Nat
  BY Texts, ProfileAssumption, SMT DEF TypeOK
<1>1. CASE disk' = disk BY <1>1
<1>2. CASE SaveRemove(c)
  <2>1. disk' = disk \/ disk' = [disk EXCEPT ![PathOf(prof[c])] = Missing]
    BY <1>2, Zenon DEF SaveRemove
  <2>2. QED BY <1>t, <2>1, SMT
<1>3. CASE SaveCreate(c)
  <2>1. disk' = [disk EXCEPT ![PathOf(prof[c])] = Blank] BY <1>3 DEF SaveCreate
  <2>2. calls <= Blank BY <1>t, Texts, SMT
  <2>3. QED BY <1>t, <2>1, <2>2, SMT
<1>4. CASE SaveWrite(c)
  <2>1. PICK text \in {prof[c], Torn} :
          disk' = IF c \in linked THEN [disk EXCEPT ![PathOf(prof[c])] = text] ELSE disk
    BY <1>4, Zenon DEF SaveWrite
  <2>2. prof[c] = calls BY <1>4 DEF SaveWrite, Goto
  <2>3. calls <= text BY <1>t, <2>1, <2>2, Texts, SMT
  <2>4. QED BY <1>t, <2>1, <2>3, SMT
<1>5. QED
  BY <1>1, <1>2, <1>3, <1>4, Zenon
  DEF CallerStep, Call, SaveExists, SaveSetConfig, SaveSetRemote, Lookup, Resolved, Lock,
      ReadConfig, ReadRemote, ReadAddresses, Launch

\* Steps that only move configuration forward keep what the consumer has read.
LEMMA ReadStays ==
  ASSUME TypeOK, TypeOK', OrderInv, ReadInv, UNCHANGED <<cpc, cgot>>, remote <= remote',
         \A f \in Paths : disk'[f] = disk[f] \/ disk'[f] = Missing \/ calls <= disk'[f]
  PROVE  ReadInv'
<1>1. /\ remote \in Nat /\ remote' \in Nat /\ cgot.addresses \in Nat /\ calls \in Nat
      /\ \A f \in Paths : disk[f] \in Nat /\ disk'[f] \in Nat
  <2>1. remote' \in Nat BY ProfileAssumption, SMT DEF TypeOK
  <2>2. \A f \in Paths : disk'[f] \in Nat BY ProfileAssumption, SMT DEF TypeOK
  <2>3. QED BY <2>1, <2>2, Numbers
<1>2. cpc \in {"readConfig", "readPort", "launch"} =>
        cgot.addresses # 0 /\ cgot.addresses <= remote'
  BY <1>1, SMT DEF ReadInv
<1>3. ASSUME cpc \in {"readPort", "launch"}, disk'[cgot.config] # Missing
      PROVE  cgot.addresses <= disk'[cgot.config]
  <2>1. cgot.config \in Paths /\ cgot.addresses <= remote BY <1>3, SMT DEF ReadInv
  <2>2. disk[cgot.config] # Missing => cgot.addresses <= disk[cgot.config]
    BY <1>3, Zenon DEF ReadInv
  <2>3. remote <= calls BY DEF OrderInv
  <2>4. QED BY <1>1, <1>3, <2>1, <2>2, <2>3, SMT
<1>4. QED BY <1>2, <1>3, Zenon DEF ReadInv

\* The steps of a caller that touch neither remote nor addresses.
LEMMA QuietStep ==
  ASSUME TypeOK, NEW c \in Callers, CallerStep(c)
  PROVE  \/ SaveSetRemote(c) \/ Lookup(c) \/ Resolved(c)
         \/ UNCHANGED <<remote, addresses, host>> /\ pc'[c] # "resolved"
<1>t. pc \in [Callers -> Places] BY DEF TypeOK
<1> USE DEF Goto
<1>1. CASE Call(c) \/ SaveExists(c)
  BY <1>1, <1>t, SMT DEF Call, SaveExists
<1>2. CASE SaveRemove(c)
  <2>1. pc[c] = "remove" /\ (pc' = pc \/ pc' = [pc EXCEPT ![c] = "create"])
    BY <1>2, Zenon DEF SaveRemove
  <2>2. QED BY <1>2, <1>t, <2>1, SMT DEF SaveRemove
<1>3. CASE SaveCreate(c) \/ SaveSetConfig(c)
  BY <1>3, <1>t, SMT DEF SaveCreate, SaveSetConfig
<1>4. CASE SaveWrite(c)
  <2>1. pc' = [pc EXCEPT ![c] = "setConfig"] /\ UNCHANGED <<remote, addresses, host>>
    BY <1>4 DEF SaveWrite
  <2>2. QED BY <1>t, <2>1, SMT
<1>5. CASE Lock(c) \/ ReadConfig(c) \/ ReadRemote(c) \/ ReadAddresses(c) \/ Launch(c)
  BY <1>5, <1>t, SMT DEF Lock, ReadConfig, ReadRemote, ReadAddresses, Launch
<1> QED BY <1>1, <1>2, <1>3, <1>4, <1>5 DEF CallerStep

\* A step of a caller keeps ForwardInv.
LEMMA ForwardCaller ==
  ASSUME AloneInv, TypeOK', ForwardInv, NEW c \in Callers, CallerStep(c)
  PROVE  ForwardInv'
<1>t. TypeOK /\ PairInv /\ LoneInv BY DEF AloneInv
<1>n. /\ calls \in Nat /\ remote \in Nat /\ addresses \in Nat /\ mixed \in Nat
      /\ \A d \in Callers : prof[d] \in Nat /\ host[d] \in Nat
      /\ \A f \in Paths : disk[f] \in Nat
  BY <1>t, Numbers
<1>p. /\ pc \in [Callers -> Places] /\ prof \in [Callers -> 0 .. MaxCalls]
      /\ host \in [Callers -> 0 .. MaxCalls]
  BY <1>t DEF TypeOK
<1>s. SUFFICES ASSUME mixed' = 0 PROVE OrderInv' /\ ReadInv'
  BY DEF ForwardInv
<1>m. mixed = 0
  <2>1. CASE Call(c) BY <1>n, <1>s, <2>1, SMT DEF Call
  <2>2. CASE UNCHANGED mixed BY <1>s, <2>2
  <2>3. QED BY <1>t, <2>1, <2>2, CallerFrame
<1>o. OrderInv /\ ReadInv BY <1>m DEF ForwardInv
<1>c. UNCHANGED <<cpc, cgot>>
  BY Zenon DEF CallerStep, Call, SaveExists, SaveRemove, SaveCreate, SaveWrite, SaveSetConfig,
     SaveSetRemote, Lookup, Resolved, Lock, ReadConfig, ReadRemote, ReadAddresses, Launch
<1>u. \A d \in Callers \ {c} : pc'[d] = pc[d] /\ prof'[d] = prof[d] BY <1>t, CallerFrame
<1>l. pc[c] # "idle" => prof[c] = calls /\ prof[c] > mixed
  BY <1>m, <1>n, <1>t, SMT DEF LoneInv
<1>i. \A d \in Callers \ {c} : pc'[d] = "idle"
  <2>1. CASE Call(c) BY <1>n, <1>s, <1>u, <2>1, SMT DEF Call
  <2>2. CASE pc[c] # "idle" BY <1>l, <1>t, <1>u, <2>2, Zenon DEF LoneInv
  <2>3. QED BY <1>t, <2>1, <2>2, CallerFrame
<1>g. \A f \in Paths : disk'[f] = disk[f] \/ disk'[f] = Missing \/ calls <= disk'[f]
  BY <1>l, <1>t, DiskGrows
<1>k. calls <= calls' /\ calls' \in Nat
  <2>1. CASE Call(c) BY <1>n, <2>1, SMT DEF Call
  <2>2. CASE UNCHANGED calls BY <1>n, <2>2, SMT
  <2>3. QED BY <1>t, <2>1, <2>2, CallerFrame
<1>f. \A p \in 0 .. MaxCalls : p # 0 => PathOf(p) \in Paths BY PathIsPath
<1>r. remote \in 0 .. MaxCalls BY <1>t DEF TypeOK
<1>1. CASE UNCHANGED <<remote, addresses, host>> /\ pc'[c] # "resolved"
  <2>1. /\ remote' <= calls' /\ addresses' <= remote'
        /\ \A d \in Callers : pc'[d] = "resolved" => addresses' <= host'[d] /\ host'[d] <= remote'
    BY <1>1, <1>i, <1>k, <1>n, <1>o, SMT DEF OrderInv
  <2>2. ASSUME remote # 0, disk'[PathOf(remote)] # Missing
        PROVE  remote <= disk'[PathOf(remote)]
    <3>1. PathOf(remote) \in Paths BY <1>f, <1>r, <2>2
    <3>2. CASE disk'[PathOf(remote)] = disk[PathOf(remote)] BY <1>o, <2>2, <3>2, Zenon DEF OrderInv
    <3>3. CASE calls <= disk'[PathOf(remote)]
      <4>1. disk'[PathOf(remote)] \in Nat
        BY <3>1, ProfileAssumption, SMT DEF TypeOK
      <4>2. QED BY <1>n, <1>o, <3>3, <4>1, SMT DEF OrderInv
    <3>4. QED BY <1>g, <2>2, <3>1, <3>2, <3>3
  <2>3. OrderInv' BY <1>1, <2>1, <2>2, Zenon DEF OrderInv
  <2>4. remote <= remote' BY <1>1, <1>n, SMT
  <2>5. ReadInv' BY <1>c, <1>g, <1>o, <1>t, <2>4, ReadStays
  <2>6. QED BY <2>3, <2>5
<1>2. CASE SaveSetRemote(c)
  <2>1. /\ pc[c] = "setRemote" /\ pc'[c] = "lookup" /\ remote' = prof[c]
        /\ UNCHANGED <<calls, prof, disk, addresses, host>>
    BY <1>2, <1>p DEF SaveSetRemote, Goto
  <2>2. prof[c] = calls /\ prof[c] > mixed BY <1>l, <2>1
  <2>3. disk[PathOf(prof[c])] = prof[c]
    BY <2>1, <2>2, SMT DEF AloneInv, OwnInv, OwnOf
  <2>4. remote <= remote' BY <1>n, <1>o, <2>1, <2>2, SMT DEF OrderInv
  <2>5. /\ remote' <= calls' /\ addresses' <= remote'
        /\ \A d \in Callers : pc'[d] = "resolved" => addresses' <= host'[d] /\ host'[d] <= remote'
    BY <1>i, <1>n, <1>o, <2>1, <2>2, <2>4, SMT DEF OrderInv
  <2>6. remote' <= disk'[PathOf(remote')] BY <1>n, <2>1, <2>2, <2>3, SMT
  <2>7. OrderInv' BY <2>5, <2>6, Zenon DEF OrderInv
  <2>8. ReadInv' BY <1>c, <1>g, <1>o, <1>t, <2>4, ReadStays
  <2>9. QED BY <2>7, <2>8
<1>3. CASE Lookup(c)
  <2>1. /\ pc'[c] = "resolved" /\ host'[c] = remote
        /\ UNCHANGED <<calls, prof, disk, remote, addresses>>
    BY <1>3, <1>p DEF Lookup, Goto
  <2>2. OrderInv' BY <1>i, <1>n, <1>o, <2>1, SMT DEF OrderInv
  <2>3. remote <= remote' BY <1>n, <2>1, SMT
  <2>4. ReadInv' BY <1>c, <1>g, <1>o, <1>t, <2>3, ReadStays
  <2>5. QED BY <2>2, <2>4
<1>4. CASE Resolved(c)
  <2>1. /\ pc[c] = "resolved" /\ pc'[c] = "lock" /\ addresses' = host[c]
        /\ UNCHANGED <<calls, prof, disk, remote, host>>
    BY <1>4, <1>p DEF Resolved, Goto
  <2>2. OrderInv' BY <1>i, <1>n, <1>o, <2>1, SMT DEF OrderInv
  <2>3. remote <= remote' BY <1>n, <2>1, SMT
  <2>4. ReadInv' BY <1>c, <1>g, <1>o, <1>t, <2>3, ReadStays
  <2>5. QED BY <2>2, <2>4
<1>5. QED BY <1>t, <1>1, <1>2, <1>3, <1>4, QuietStep

\* A step of the consumer keeps ForwardInv.
LEMMA ForwardConsumer ==
  ASSUME AloneInv, ForwardInv, ConsumerStep
  PROVE  ForwardInv'
<1>t. TypeOK /\ PairInv BY DEF AloneInv
<1>n. /\ calls \in Nat /\ remote \in Nat /\ addresses \in Nat
      /\ cgot.addresses \in Nat /\ \A f \in Paths : disk[f] \in Nat
  BY <1>t, Numbers
<1>v. cgot \in Views BY <1>t DEF TypeOK
<1>s. SUFFICES ASSUME mixed' = 0 PROVE OrderInv' /\ ReadInv'
  BY DEF ForwardInv
<1>u. UNCHANGED <<calls, prof, pc, host, disk, config, remote, addresses, mixed>>
  BY DEF ConsumerStep, ConsumerReadAddresses, ConsumerReadConfig, ConsumerReadPort,
         ConsumerLaunch
<1>o. OrderInv /\ ReadInv BY <1>s, <1>u DEF ForwardInv
<1>r. OrderInv' BY <1>o, <1>u, Zenon DEF OrderInv
<1>1. CASE ConsumerReadAddresses
  <2>1. cpc' = "readConfig" /\ cgot'.addresses = addresses /\ addresses # 0
    BY <1>1, SMT DEF ConsumerReadAddresses, Nothing
  <2>2. ReadInv' BY <1>n, <1>o, <1>u, <2>1, SMT DEF ReadInv, OrderInv
  <2>3. QED BY <1>r, <2>2
<1>2. CASE ConsumerReadConfig
  <2>1. /\ cpc = "readConfig" /\ cpc' = "readPort"
        /\ cgot'.addresses = cgot.addresses /\ cgot'.config = config
    BY <1>2, <1>v, SMT DEF ConsumerReadConfig, Views
  <2>2. config = PathOf(remote) BY <1>2, <1>t DEF ConsumerReadConfig, PairInv
  <2>3. cgot.addresses # 0 /\ cgot.addresses <= remote BY <1>o, <2>1 DEF ReadInv
  <2>4. remote # 0 BY <1>n, <2>3, SMT
  <2>5. config \in Paths BY <1>t, <2>2, <2>4, PathIsPath DEF TypeOK
  <2>6. disk[config] # Missing => remote <= disk[config] BY <1>o, <2>2, <2>4, Zenon DEF OrderInv
  <2>7. disk[config] # Missing => cgot.addresses <= disk[config]
    BY <1>n, <2>3, <2>5, <2>6, SMT
  <2>8. ReadInv' BY <1>u, <2>1, <2>3, <2>5, <2>7, SMT DEF ReadInv
  <2>9. QED BY <1>r, <2>8
<1>3. CASE ConsumerReadPort
  <2>1. /\ cpc = "readPort" /\ cpc' = "launch" /\ cgot'.remote = remote
        /\ cgot'.addresses = cgot.addresses /\ cgot'.config = cgot.config
    BY <1>3, <1>v, SMT DEF ConsumerReadPort, Views
  <2>2. ReadInv' BY <1>n, <1>o, <1>u, <2>1, SMT DEF ReadInv
  <2>3. QED BY <1>r, <2>2
<1>4. CASE ConsumerLaunch
  <2>1. cpc' = "recv" BY <1>4 DEF ConsumerLaunch
  <2>2. ReadInv' BY <2>1 DEF ReadInv
  <2>3. QED BY <1>r, <2>2
<1> QED BY <1>1, <1>2, <1>3, <1>4 DEF ConsumerStep

\* As long as no calls overlap, the consumer launches OpenVPN with a port that is
\* no older than the address, and under the path is no text of an older profile,
\* for any number of callers, stems and calls.
THEOREM ProfileForward == Spec => []ConsumerReadsForward
<1>1. Init => ForwardInv
  BY ProfileAssumption, SMT DEF Init, ForwardInv, OrderInv, ReadInv
<1>2. AloneInv /\ AloneInv' /\ ForwardInv /\ [Next]_vars => ForwardInv'
  <2> SUFFICES ASSUME AloneInv, TypeOK', ForwardInv, [Next]_vars PROVE ForwardInv'
    BY DEF AloneInv
  <2>1. CASE \E c \in Callers : CallerStep(c) BY <2>1, ForwardCaller
  <2>2. CASE ConsumerStep BY <2>2, ForwardConsumer
  <2>3. CASE UNCHANGED vars BY <2>3, Zenon DEF vars, ForwardInv, OrderInv, ReadInv
  <2>4. QED BY <2>1, <2>2, <2>3, NextCases
<1>3. AloneInv /\ ForwardInv => ConsumerReadsForward
  BY Zenon DEF ForwardInv, ReadInv, ConsumerReadsForward
<1>4. QED BY <1>1, <1>2, <1>3, ProfileAloneInv, PTL DEF Spec

=============================================================================
