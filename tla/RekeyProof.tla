----------------------------- MODULE RekeyProof -----------------------------
(****************************************************************************)
(* Proofs about Rekey: through any number of renegotiations, losses and     *)
(* overtaken packets the two ends hold keys that they agree on.             *)
(****************************************************************************)
EXTENDS Rekey, SequenceTheorems, TLAPS

(* The id of the n-th key of a session.                                      *)
IdOf(n) == IF n = 0 THEN 0 ELSE ((n - 1) % KeyIdMask) + 1

P(e) == key[e].primary
L(e) == key[e].lame

(* The packets on their way to an end.                                       *)
Under(e) == {net[e][i] : i \in DOMAIN net[e]}

(* What the theorems assume of the network: a control packet does not live   *)
(* until its key id is used again, which takes KeyIdMask renegotiations.     *)
NoStale ==
    \A e \in Ends : ~over[e] =>
        \A m \in Under(e) : m.key_id = P(e).key_id => m.serial = P(e).serial

-----------------------------------------------------------------------------
(* Ids and ends                                                             *)

\* What the constants are.
LEMMA Constants ==
    /\ KeyIdMask \in Nat /\ KeyIdMask >= 2
    /\ HandshakeWindow \in Nat /\ HandshakeWindow >= 1
    /\ TransitionWindow \in Nat /\ TransitionWindow >= 2 * HandshakeWindow
    /\ \A e \in Ends : /\ RenegSeconds[e] \in Nat
                       /\ RenegSeconds[e] = 0 \/ RenegSeconds[e] >= 2 * HandshakeWindow
    /\ MaxMishaps \in Nat /\ MaxNow \in Nat /\ MaxNet \in Nat
BY RekeyAssumption, WindowAssumption

\* The two ends.
LEMMA Peers ==
    /\ Ends = {"client", "server"}
    /\ \A e \in Ends : /\ Peer(e) \in Ends /\ Peer(e) # e /\ Peer(Peer(e)) = e
                       /\ \A x \in Ends : x = e \/ x = Peer(e)
<1>1. Peer("client") = "server" BY DEF Peer, Ends
<1>2. Peer("server") = "client" BY DEF Peer, Ends
<1>3. QED BY <1>1, <1>2 DEF Ends

\* Quotient and remainder.
LEMMA DivMod ==
    ASSUME NEW m \in Nat, m >= 1, NEW x \in Nat
    PROVE  /\ x % m \in 0 .. m - 1
           /\ x \div m \in Nat
           /\ x = m * (x \div m) + (x % m)
OBVIOUS

\* Two remainders of one number are equal.
LEMMA UniqueRemainder ==
    ASSUME NEW m \in Nat, m >= 1, NEW d \in Int, NEW r \in 0 .. m - 1, NEW s \in 0 .. m - 1,
           m * d + r = s
    PROVE  r = s
<1>1. CASE d = 0
  BY <1>1
<1>2. CASE d >= 1
  <2>1. m * d >= m BY <1>2
  <2>2. m * d \in Int OBVIOUS
  <2>3. QED BY <2>1, <2>2
<1>3. CASE d <= -1
  <2>1. m * d <= -m BY <1>3
  <2>2. m * d \in Int OBVIOUS
  <2>3. QED BY <2>1, <2>2
<1>4. QED BY <1>1, <1>2, <1>3

\* A number that is written as quotient and remainder has that remainder.
LEMMA RemainderOf ==
    ASSUME NEW m \in Nat, m >= 1, NEW y \in Nat, NEW q \in Nat, NEW r \in 0 .. m-1, y = m * q + r
    PROVE y % m = r
<1> DEFINE p == y \div m
           s == y % m
<1>1. p \in Nat /\ s \in 0 .. m - 1 /\ y = m * p + s BY DivMod
<1> HIDE DEF p, s
<1>2. m * q + r = m * p + s BY <1>1
<1>3. m * (q - p) = m * q - m * p BY <1>1
<1>4. m * (q - p) + r = s BY <1>1, <1>2, <1>3
<1>5. q - p \in Int BY <1>1
<1>6. \A d \in Int : m * d + r = s => r = s BY <1>1, UniqueRemainder
<1>7. r = s BY <1>4, <1>5, <1>6
<1> QED BY <1>7 DEF s

\* Remainders of two successive numbers.
LEMMA ModStep ==
    ASSUME NEW m \in Nat, m >= 1, NEW x \in Nat
    PROVE  /\ x % m \in 0 .. m - 1
           /\ (x + 1) % m = IF x % m = m - 1 THEN 0 ELSE (x % m) + 1
<1> DEFINE q == x \div m
           r == x % m
<1>1. q \in Nat /\ r \in 0 .. m - 1 /\ x = m * q + r BY DivMod
<1> HIDE DEF q, r
<1>2. CASE r = m - 1
  <2>1. m * (q + 1) = m * q + m BY <1>1
  <2>2. x + 1 = m * (q + 1) + 0 BY <1>1, <1>2, <2>1
  <2>3. (x + 1) % m = 0 BY <1>1, <2>2, RemainderOf
  <2>4. QED BY <1>1, <1>2, <2>3 DEF r
<1>3. CASE r # m - 1
  <2>1. x + 1 = m * q + (r + 1) BY <1>1
  <2>2. (x + 1) % m = r + 1 BY <1>1, <1>3, <2>1, RemainderOf
  <2>3. QED BY <1>1, <1>3, <2>2 DEF r
<1> QED BY <1>2, <1>3

\* Ids fit their field, and follow one another as in key_state_init.
LEMMA IdStep ==
    ASSUME NEW n \in Nat
    PROVE  /\ IdOf(n) \in 0 .. KeyIdMask
           /\ IdOf(n + 1) \in 1 .. KeyIdMask
           /\ NextId(IdOf(n)) = IdOf(n + 1)
           /\ IdOf(n) # IdOf(n + 1)
<1>1. CASE n = 0
  <2>1. IdOf(0) = 0 BY DEF IdOf
  <2>2. 0 % KeyIdMask = 0 BY Constants, RemainderOf
  <2>3. IdOf(0 + 1) = 1 BY <2>2 DEF IdOf
  <2>4. QED BY <1>1, <2>1, <2>3, Constants DEF NextId
<1>2. CASE n # 0
  <2> DEFINE r == (n - 1) % KeyIdMask
             s == n % KeyIdMask
  <2>1. n - 1 \in Nat /\ (n - 1) + 1 = n BY <1>2
  <2>2. r \in 0 .. KeyIdMask - 1 /\ s = IF r = KeyIdMask - 1 THEN 0 ELSE r + 1
    <3>0. KeyIdMask \in Nat /\ KeyIdMask >= 1 BY Constants
    <3>1. \A x \in Nat : /\ x % KeyIdMask \in 0 .. KeyIdMask - 1
                         /\ (x + 1) % KeyIdMask =
                               IF x % KeyIdMask = KeyIdMask - 1 THEN 0 ELSE (x % KeyIdMask) + 1
      BY <3>0, ModStep, Zenon
    <3>2. /\ r \in 0 .. KeyIdMask - 1
          /\ ((n - 1) + 1) % KeyIdMask = IF r = KeyIdMask - 1 THEN 0 ELSE r + 1
      BY <2>1, <3>1
    <3>3. QED BY <2>1, <3>2
  <2>3. IdOf(n) = r + 1 BY <1>2 DEF IdOf
  <2>4. IdOf(n + 1) = s + 1 BY DEF IdOf
  <2> HIDE DEF r, s
  <2>5. QED BY <2>2, <2>3, <2>4, Constants DEF NextId
<1>3. QED BY <1>1, <1>2

-----------------------------------------------------------------------------
(* The inductive invariant                                                  *)

Handshake == S_PRE_START .. S_GOT_KEY

(* An end in this state has sent the packet pid of the key's dialogue, and   *)
(* has read the key message of its peer.                                     *)
HasSent(e, pid, s) ==
    IF pid = 0 THEN s >= S_PRE_START
    ELSE s = S_SENT_KEY \/ s = S_ACTIVE \/ (e = "client" /\ s = S_GOT_KEY)
HasGot(e, s) == s = S_GOT_KEY \/ s = S_ACTIVE \/ (e = "server" /\ s = S_SENT_KEY)

(* An end is beyond the s-th key, has sent packet pid of it, has received    *)
(* its peer's; once true these remain so.                                    *)
Beyond(e, s) == over[e] \/ P(e).serial > s
Told(e, s, pid) == Beyond(e, s) \/ (P(e).serial = s /\ HasSent(e, pid, P(e).state))
Heard(e, s, pid) == Beyond(e, s) \/ (P(e).serial = s /\ pid \in P(e).rec)

(* The end uses its primary key, and would after its transition.             *)
Settled(e) == P(e).state = S_ACTIVE /\ now >= P(e).deferred

(* Keys are numbered one by one; the old key is the one before the primary,  *)
(* active and past its own transition.                                       *)
NextOk(e) == next[e].serial >= 1 /\ next[e].key_id = IdOf(next[e].serial)

SerialOk(e) ==
    /\ P(e).serial + 1 = next[e].serial
    /\ P(e).key_id = IdOf(P(e).serial)
    /\ P(e).state >= S_INITIAL
    /\ P(e).serial = 0 =>
          /\ P(e).state = S_ACTIVE /\ L(e).state = S_UNDEF
          /\ P(e).deferred = 0 /\ P(e).established = 0
          /\ P(e).send = {} /\ P(e).ack = {}
    /\ L(e).state = S_UNDEF \/ L(e).state = S_ACTIVE
    /\ L(e).state = S_ACTIVE =>
          /\ L(e).serial + 1 = P(e).serial
          /\ L(e).key_id = IdOf(L(e).serial)
          /\ now >= L(e).deferred

(* The clocks: the old key outlives the handshake and the transition of the  *)
(* new one.                                                                  *)
ClockOk(e) ==
    /\ P(e).state \in Handshake =>
          /\ P(e).must_negotiate = P(e).deferred
          /\ now <= P(e).deferred
          /\ P(e).deferred <= now + HandshakeWindow
    /\ P(e).state = S_ACTIVE =>
          /\ P(e).deferred <= now + HandshakeWindow
          /\ P(e).deferred <= P(e).established + HandshakeWindow
          /\ P(e).serial > 0 => P(e).established < P(e).deferred
    /\ P(e).serial > 0 /\ L(e).state = S_UNDEF =>
          P(e).state = S_ACTIVE /\ now >= P(e).deferred + HandshakeWindow
    /\ L(e).state = S_ACTIVE =>
          /\ P(e).state = S_INITIAL => L(e).must_die >= now + TransitionWindow
          /\ P(e).state > S_INITIAL => L(e).must_die >= P(e).deferred + HandshakeWindow

(* What the end has received and sent of the current key's dialogue.         *)
DialogOk(e) ==
    P(e).serial > 0 =>
        /\ HasGot(e, P(e).state) => P(e).rec = {0, 1}
        /\ P(e).state = S_ACTIVE => P(e).send = {}
        /\ P(e).ack \subseteq P(e).rec
        /\ \A pid \in P(e).send : HasSent(e, pid, P(e).state)

(* What was received was sent, and what was acknowledged was received.       *)
PairOk(e) ==
    P(e).serial > 0 =>
        /\ \A pid \in P(e).rec : Told(Peer(e), P(e).serial, pid)
        /\ \A pid \in {0, 1} \ P(e).send :
              HasSent(e, pid, P(e).state) => Heard(Peer(e), P(e).serial, pid)

(* The peer is at most one key ahead, and then the end is settled on its own. *)
AheadOk(e) ==
    /\ P(Peer(e)).serial <= P(e).serial + 1
    /\ P(Peer(e)).serial = P(e).serial + 1 => Settled(e)

(* An end that uses a key has a peer that has sent its part of it.           *)
AgreeOk(e) ==
    P(e).serial = P(Peer(e)).serial /\ P(e).state = S_ACTIVE =>
        /\ P(Peer(e)).deferred <= P(e).established + HandshakeWindow
        /\ P(Peer(e)).state >= S_SENT_KEY
        /\ e = "server" /\ P(Peer(e)).state = S_SENT_KEY => now < P(e).deferred

(* A packet on its way to an end says what its sender has sent and heard,    *)
(* and is at most of the key that the end will have next.                    *)
NetOk(e, m) ==
    /\ m.serial > 0
    /\ m.op # "ACK" => Told(Peer(e), m.serial, m.pid)
    /\ m.op = "SOFT_RESET" => m.pid = 0
    /\ \A a \in m.acks : Heard(Peer(e), m.serial, a)
    /\ Beyond(Peer(e), m.serial) \/ P(Peer(e)).serial = m.serial
    /\ ~over[e] => m.serial <= next[e].serial
    /\ ~over[e] /\ m.serial = next[e].serial => Settled(e)

AloneOk(e) == SerialOk(e) /\ ClockOk(e) /\ DialogOk(e)
BothOk(e) == AheadOk(e) /\ AgreeOk(e)

EndOk(e) ==
    /\ NextOk(e)
    /\ ~over[e] => AloneOk(e) /\ PairOk(e)
    /\ ~over[e] /\ ~over[Peer(e)] => BothOk(e)
    /\ \A m \in Under(e) : NetOk(e, m)

Good == \A e \in Ends : EndOk(e)
KeyIInv == TypeOK /\ (~stray /\ ~rushed => Good)

-----------------------------------------------------------------------------
(* Types, and what the actions do to the fields of the key states           *)

\* The fields of a key state.
LEMMA Fields ==
    ASSUME NEW ks \in KeyStates
    PROVE  /\ ks.state \in 0 .. 6 /\ ks.key_id \in 0 .. KeyIdMask /\ ks.serial \in Nat
           /\ ks.must_negotiate \in Nat /\ ks.deferred \in Nat
           /\ ks.established \in Nat /\ ks.must_die \in Nat
           /\ ks.send \subseteq {0, 1} /\ ks.rec \subseteq {0, 1} /\ ks.ack \subseteq {0, 1}
BY DEF KeyStates, S_UNDEF, S_ACTIVE

\* One field at a time.
LEMMA Update ==
    ASSUME NEW ks \in KeyStates
    PROVE  /\ \A v \in 0 .. 6 : [ks EXCEPT !.state = v] \in KeyStates
           /\ \A v \in Nat : [ks EXCEPT !.must_negotiate = v] \in KeyStates
           /\ \A v \in Nat : [ks EXCEPT !.deferred = v] \in KeyStates
           /\ \A v \in Nat : [ks EXCEPT !.established = v] \in KeyStates
           /\ \A v \in Nat : [ks EXCEPT !.must_die = v] \in KeyStates
           /\ \A v \in SUBSET {0, 1} : [ks EXCEPT !.send = v] \in KeyStates
           /\ \A v \in SUBSET {0, 1} : [ks EXCEPT !.rec = v] \in KeyStates
           /\ \A v \in SUBSET {0, 1} : [ks EXCEPT !.ack = v] \in KeyStates
<1>1. \A v \in 0 .. 6 : [ks EXCEPT !.state = v] \in KeyStates
  BY DEF KeyStates, S_UNDEF, S_ACTIVE
<1>2. \A v \in Nat : [ks EXCEPT !.must_negotiate = v] \in KeyStates BY DEF KeyStates
<1>3. \A v \in Nat : [ks EXCEPT !.deferred = v] \in KeyStates BY DEF KeyStates
<1>4. \A v \in Nat : [ks EXCEPT !.established = v] \in KeyStates BY DEF KeyStates
<1>5. \A v \in Nat : [ks EXCEPT !.must_die = v] \in KeyStates BY DEF KeyStates
<1>6. \A v \in SUBSET {0, 1} : [ks EXCEPT !.send = v] \in KeyStates BY DEF KeyStates
<1>7. \A v \in SUBSET {0, 1} : [ks EXCEPT !.rec = v] \in KeyStates BY DEF KeyStates
<1>8. \A v \in SUBSET {0, 1} : [ks EXCEPT !.ack = v] \in KeyStates BY DEF KeyStates
<1>9. QED BY <1>1, <1>2, <1>3, <1>4, <1>5, <1>6, <1>7, <1>8

\* The state, end by end.
LEMMA Typed ==
    ASSUME TypeOK, NEW e \in Ends
    PROVE  /\ P(e) \in KeyStates /\ L(e) \in KeyStates
           /\ key[e] = [primary |-> P(e), lame |-> L(e)]
           /\ over[e] \in BOOLEAN
           /\ next[e].key_id \in 1 .. KeyIdMask /\ next[e].serial \in Nat
           /\ next[e] = [key_id |-> next[e].key_id, serial |-> next[e].serial]
           /\ now \in Nat /\ stray \in BOOLEAN /\ rushed \in BOOLEAN
           /\ net[e] \in Seq(Packets)
           /\ Under(e) \subseteq Packets
<1>1. net[e] \in Seq(Packets) BY DEF TypeOK
<1>2. Under(e) \subseteq Packets BY <1>1 DEF Under
<1>3. now \in Nat BY Constants DEF TypeOK
<1>4. key[e] \in [primary : KeyStates, lame : KeyStates] BY DEF TypeOK
<1>5. P(e) \in KeyStates /\ L(e) \in KeyStates BY <1>4 DEF P, L
<1>6. key[e] = [primary |-> P(e), lame |-> L(e)] BY <1>4 DEF P, L
<1>7. next[e] \in [key_id : 1 .. KeyIdMask, serial : Nat] BY DEF TypeOK
<1>8. over[e] \in BOOLEAN /\ stray \in BOOLEAN /\ rushed \in BOOLEAN BY DEF TypeOK
<1>9. QED BY <1>1, <1>2, <1>3, <1>5, <1>6, <1>7, <1>8

\* An end whose key states a step changes: the other keeps its own.
LEMMA SetKey ==
    ASSUME TypeOK, NEW e \in Ends, NEW a \in KeyStates, NEW b \in KeyStates,
           key' = [key EXCEPT ![e] = [primary |-> a, lame |-> b]]
    PROVE  /\ P(e)' = a /\ L(e)' = b
           /\ key'[Peer(e)] = key[Peer(e)]
           /\ key' \in [Ends -> [primary : KeyStates, lame : KeyStates]]
BY Peers DEF TypeOK, P, L

\* The same for an assignment to the primary key alone.
LEMMA SetPrimaryKey ==
    ASSUME TypeOK, NEW e \in Ends, NEW a \in KeyStates, key' = [key EXCEPT ![e].primary = a]
    PROVE  /\ P(e)' = a /\ L(e)' = L(e)
           /\ key'[Peer(e)] = key[Peer(e)]
           /\ key' \in [Ends -> [primary : KeyStates, lame : KeyStates]]
<1>1. key[e] = [primary |-> P(e), lame |-> L(e)] /\ L(e) \in KeyStates BY Typed
<1>2. [key[e] EXCEPT !.primary = a] = [primary |-> a, lame |-> L(e)] BY <1>1
<1>3. key' = [key EXCEPT ![e] = [primary |-> a, lame |-> L(e)]] BY <1>2
<1>4. key'[e] = [primary |-> a, lame |-> L(e)] BY <1>3 DEF TypeOK
<1>5. P(e)' = a /\ L(e)' = L(e)
  <2>1. P(e)' = key'[e].primary /\ L(e)' = key'[e].lame BY DEF P, L
  <2>2. QED BY <1>4, <2>1
<1>6. key'[Peer(e)] = key[Peer(e)] BY <1>3, Peers DEF TypeOK
<1>7. [primary |-> a, lame |-> L(e)] \in [primary : KeyStates, lame : KeyStates] BY <1>1
<1>8. key' \in [Ends -> [primary : KeyStates, lame : KeyStates]] BY <1>3, <1>7 DEF TypeOK
<1>9. QED BY <1>5, <1>6, <1>8

\* A packet that is added.
LEMMA Added ==
    ASSUME TypeOK, NEW x \in Ends, NEW m \in Packets,
           net' = [net EXCEPT ![x] = Append(@, m)]
    PROVE  /\ net' \in [Ends -> Seq(Packets)]
           /\ Under(x)' \subseteq Under(x) \cup {m}
           /\ Under(Peer(x))' = Under(Peer(x))
<1>1. net[x] \in Seq(Packets) BY DEF TypeOK
<1>2. net'[x] = Append(net[x], m) BY DEF TypeOK
<1>3. Append(net[x], m) \in Seq(Packets) BY <1>1
<1>4. net' \in [Ends -> Seq(Packets)] BY <1>3 DEF TypeOK
<1>5. ASSUME NEW i \in DOMAIN net'[x] PROVE net'[x][i] \in Under(x) \cup {m}
  <2>1. i \in 1 .. Len(net[x]) + 1 BY <1>1, <1>2, <1>5
  <2>2. CASE i = Len(net[x]) + 1 BY <1>1, <1>2, <2>2
  <2>3. CASE i # Len(net[x]) + 1
    <3>1. i \in DOMAIN net[x] /\ net'[x][i] = net[x][i] BY <1>1, <1>2, <2>1, <2>3
    <3>2. QED BY <3>1 DEF Under
  <2>4. QED BY <2>2, <2>3
<1>6. Under(x)' \subseteq Under(x) \cup {m} BY <1>5 DEF Under
<1>7. net'[Peer(x)] = net[Peer(x)] BY Peers DEF TypeOK
<1>8. QED BY <1>4, <1>6, <1>7 DEF Under

\* A packet that is taken away.
LEMMA Removed ==
    ASSUME TypeOK, NEW x \in Ends, NEW i \in DOMAIN net[x],
           net' = [net EXCEPT ![x] = RemoveAt(@, i)]
    PROVE  /\ net' \in [Ends -> Seq(Packets)]
           /\ Under(x)' \subseteq Under(x)
           /\ Under(Peer(x))' = Under(Peer(x))
           /\ net[x][i] \in Under(x)
<1> DEFINE s == net[x]
           a == SubSeq(s, 1, i - 1)
           b == SubSeq(s, i + 1, Len(s))
<1>1. s \in Seq(Packets) BY DEF TypeOK
<1>2. i \in 1 .. Len(s) BY <1>1
<1>3. net'[x] = a \o b BY DEF TypeOK, RemoveAt
<1> HIDE DEF s
<1>4. /\ a \in Seq(Packets) /\ Len(a) = i - 1
      /\ \A j \in 1 .. i - 1 : a[j] = s[j]
  BY <1>1, <1>2
<1>5. /\ b \in Seq(Packets) /\ Len(b) = Len(s) - i
      /\ \A j \in 1 .. Len(s) - i : b[j] = s[i + j]
  BY <1>1, <1>2
<1> HIDE DEF a, b
<1>6. a \o b \in Seq(Packets) BY <1>4, <1>5
<1>7. net' \in [Ends -> Seq(Packets)] BY <1>3, <1>6 DEF TypeOK
<1>8. ASSUME NEW j \in DOMAIN net'[x] PROVE net'[x][j] \in {s[k] : k \in DOMAIN s}
  <2>1. j \in 1 .. Len(a) + Len(b) BY <1>3, <1>4, <1>5, <1>8
  <2>2. CASE j <= Len(a)
    <3>1. net'[x][j] = a[j] BY <1>3, <1>4, <1>5, <2>1, <2>2
    <3>2. j \in DOMAIN s /\ a[j] = s[j] BY <1>1, <1>2, <1>4, <2>1, <2>2
    <3>3. QED BY <3>1, <3>2
  <2>3. CASE j > Len(a)
    <3>1. \A k \in 1 .. Len(a) + Len(b) : k > Len(a) => (a \o b)[k] = b[k - Len(a)]
      <4>1. a \in Seq(Packets) /\ b \in Seq(Packets) BY <1>4, <1>5
      <4>2. \A k \in 1 .. Len(a) + Len(b) :
               (a \o b)[k] = IF k <= Len(a) THEN a[k] ELSE b[k - Len(a)]
        BY <4>1, ConcatProperties, Zenon
      <4>3. Len(a) \in Nat /\ Len(b) \in Nat BY <4>1
      <4> HIDE <1>4, <1>5
      <4>4. QED BY <4>2, <4>3
    <3>6. net'[x][j] = b[j - Len(a)] BY <1>3, <2>1, <2>3, <3>1
    <3>2. j - Len(a) \in 1 .. Len(s) - i BY <1>1, <1>2, <1>4, <1>5, <2>1, <2>3
    <3>3. b[j - Len(a)] = s[i + (j - Len(a))] BY <1>5, <3>2
    <3>4. i + (j - Len(a)) \in DOMAIN s BY <1>1, <1>2, <1>4, <3>2
    <3>5. QED BY <3>3, <3>4, <3>6
  <2>4. QED BY <1>4, <2>1, <2>2, <2>3
<1>9. Under(x)' \subseteq Under(x)
  <2>1. Under(x)' = {net'[x][j] : j \in DOMAIN net'[x]} BY DEF Under
  <2>2. Under(x) = {s[k] : k \in DOMAIN s} BY DEF Under, s
  <2>3. QED BY <1>8, <2>1, <2>2
<1>10. net'[Peer(x)] = net[Peer(x)] BY Peers DEF TypeOK
<1>11. net[x][i] \in Under(x) BY DEF Under
<1>12. QED BY <1>7, <1>9, <1>10, <1>11 DEF Under

(* A step of an end that leaves its peer, the clock and the count of keys    *)
(* alone, and keeps the end on its primary key.                              *)
InPlace(e) ==
    /\ ~over[e] /\ over' = over /\ next' = next /\ now' = now
    /\ stray' = stray /\ rushed' = rushed
    /\ key'[Peer(e)] = key[Peer(e)] /\ L(e)' = L(e)
    /\ P(e)'.serial = P(e).serial /\ P(e)'.key_id = P(e).key_id

(* The packet that Sent puts on its way.                                     *)
Packet(ks, op, pid) ==
    [op |-> op, pid |-> pid, key_id |-> ks.key_id, serial |-> ks.serial, acks |-> ks.ack]

\* Sending a packet of the primary key.
LEMMA SentEffect ==
    ASSUME TypeOK, NEW e \in Ends, ~over[e], NEW ks \in KeyStates,
           ks.serial = P(e).serial, ks.key_id = P(e).key_id,
           NEW op \in {"SOFT_RESET", "CONTROL", "ACK"}, NEW pid \in {0, 1}, Sent(e, ks, op, pid)
    PROVE  /\ TypeOK' /\ InPlace(e)
           /\ P(e)' = [ks EXCEPT !.ack = {}]
           /\ Under(e)' = Under(e)
           /\ Under(Peer(e))' \subseteq Under(Peer(e)) \cup {Packet(ks, op, pid)}
<1>1. Packet(ks, op, pid) \in Packets BY Fields DEF Packet, Packets
<1>2. [ks EXCEPT !.ack = {}] \in KeyStates BY DEF KeyStates
<1>3. /\ P(e)' = [ks EXCEPT !.ack = {}] /\ L(e)' = L(e) /\ key'[Peer(e)] = key[Peer(e)]
      /\ key' \in [Ends -> [primary : KeyStates, lame : KeyStates]]
  BY <1>2, SetPrimaryKey DEF Sent
<1>4. net' = [net EXCEPT ![Peer(e)] = Append(@, Packet(ks, op, pid))] BY DEF Sent, Packet
<1>5. /\ net' \in [Ends -> Seq(Packets)]
      /\ Under(Peer(e))' \subseteq Under(Peer(e)) \cup {Packet(ks, op, pid)}
      /\ Under(e)' = Under(e)
  BY <1>1, <1>4, Added, Peers
<1>6. /\ next' = next /\ over' = over /\ now' = now /\ stray' = stray /\ rushed' = rushed
      /\ mishaps' = mishaps
  BY DEF Sent
<1>7. [ks EXCEPT !.ack = {}].serial = ks.serial /\ [ks EXCEPT !.ack = {}].key_id = ks.key_id
  BY DEF KeyStates
<1>8. TypeOK' BY <1>3, <1>5, <1>6 DEF TypeOK
<1>9. InPlace(e) BY <1>3, <1>6, <1>7 DEF InPlace
<1>10. QED BY <1>3, <1>5, <1>8, <1>9

\* A change of the primary key alone.
LEMMA SetPrimaryEffect ==
    ASSUME TypeOK, NEW e \in Ends, ~over[e], NEW ks \in KeyStates,
           ks.serial = P(e).serial, ks.key_id = P(e).key_id, SetPrimary(e, ks)
    PROVE  /\ TypeOK' /\ InPlace(e) /\ P(e)' = ks
           /\ Under(e)' = Under(e) /\ Under(Peer(e))' = Under(Peer(e))
<1>1. /\ P(e)' = ks /\ L(e)' = L(e) /\ key'[Peer(e)] = key[Peer(e)]
      /\ key' \in [Ends -> [primary : KeyStates, lame : KeyStates]]
  BY SetPrimaryKey DEF SetPrimary
<1>2. /\ next' = next /\ over' = over /\ now' = now /\ stray' = stray /\ rushed' = rushed
      /\ mishaps' = mishaps /\ net' = net
  BY DEF SetPrimary
<1>3. TypeOK' BY <1>1, <1>2 DEF TypeOK
<1>4. InPlace(e) BY <1>1, <1>2 DEF InPlace
<1>5. Under(e)' = Under(e) /\ Under(Peer(e))' = Under(Peer(e)) BY <1>2 DEF Under
<1>6. QED BY <1>1, <1>3, <1>4, <1>5

\* The window within which a key is deferred is the handshake window.
LEMMA DeferredWindow ==
    ASSUME NEW e \in Ends
    PROVE  auth_deferred_expire_window(e) = HandshakeWindow
<1>1. RenegSeconds[e] \in Nat /\ (RenegSeconds[e] = 0 \/ RenegSeconds[e] >= 2 * HandshakeWindow)
  BY Constants
<1>2. RenegSeconds[e] # 0 => RenegSeconds[e] \div 2 >= HandshakeWindow BY <1>1, Constants
<1>3. QED BY <1>1, <1>2, Constants DEF auth_deferred_expire_window

\* The first packet of a key, and its clocks.
LEMMA NegotiateEffect ==
    ASSUME TypeOK, NEW e \in Ends, Negotiate(e)
    PROVE  /\ TypeOK' /\ InPlace(e) /\ P(e).state = S_INITIAL /\ P(e)'.state = S_PRE_START
           /\ P(e)'.must_negotiate = now + HandshakeWindow
           /\ P(e)'.deferred = now + HandshakeWindow
           /\ P(e)'.established = P(e).established
           /\ P(e)'.send = {0} /\ P(e)'.rec = P(e).rec /\ P(e)'.ack = {}
           /\ Under(e)' = Under(e)
           /\ Under(Peer(e))' \subseteq Under(Peer(e)) \cup {Packet(P(e), "SOFT_RESET", 0)}
<1> DEFINE r1 == [P(e) EXCEPT !.state = S_PRE_START]
           r2 == [r1 EXCEPT !.must_negotiate = now + HandshakeWindow]
           r3 == [r2 EXCEPT !.deferred = now + HandshakeWindow]
           ks == [r3 EXCEPT !.send = {0}]
<1>1. auth_deferred_expire_window(e) = HandshakeWindow BY DeferredWindow
<1>2. Sent(e, ks, "SOFT_RESET", 0) /\ ~over[e] /\ P(e).state = S_INITIAL
  BY <1>1 DEF Negotiate, Processing, P
<1>3. P(e) \in KeyStates /\ now \in Nat /\ now + HandshakeWindow \in Nat
  <2>1. P(e) \in KeyStates /\ now \in Nat BY Typed
  <2>2. HandshakeWindow \in Nat BY Constants
  <2>3. QED BY <2>1, <2>2
<1>4. r1 \in KeyStates
  <2>1. S_PRE_START \in 0 .. 6 BY DEF S_PRE_START
  <2>2. QED BY <1>3, <2>1, Update, Zenon
<1> HIDE DEF r1
<1>5. r2 \in KeyStates BY <1>3, <1>4, Update
<1> HIDE DEF r2
<1>6. r3 \in KeyStates BY <1>3, <1>5, Update
<1> HIDE DEF r3
<1>7. ks \in KeyStates BY <1>6, Update
<1>8. /\ ks.state = S_PRE_START /\ ks.serial = P(e).serial /\ ks.key_id = P(e).key_id
      /\ ks.must_negotiate = now + HandshakeWindow /\ ks.deferred = now + HandshakeWindow
      /\ ks.established = P(e).established
      /\ ks.send = {0} /\ ks.rec = P(e).rec /\ ks.ack = P(e).ack
  BY <1>3 DEF r1, r2, r3, KeyStates
<1> HIDE DEF ks
<1>9. Packet(ks, "SOFT_RESET", 0) = Packet(P(e), "SOFT_RESET", 0) BY <1>8 DEF Packet
<1>10. /\ TypeOK' /\ InPlace(e) /\ P(e)' = [ks EXCEPT !.ack = {}] /\ Under(e)' = Under(e)
       /\ Under(Peer(e))' \subseteq Under(Peer(e)) \cup {Packet(P(e), "SOFT_RESET", 0)}
  BY <1>2, <1>7, <1>8, <1>9, SentEffect
<1> DEFINE k2 == [ks EXCEPT !.ack = {}]
<1>11. /\ k2.state = ks.state /\ k2.must_negotiate = ks.must_negotiate
       /\ k2.deferred = ks.deferred /\ k2.established = ks.established
       /\ k2.send = ks.send /\ k2.rec = ks.rec /\ k2.ack = {}
  BY <1>7 DEF KeyStates
<1>12. P(e)' = k2 BY <1>10
<1> HIDE DEF k2
<1>13. QED BY <1>2, <1>8, <1>10, <1>11, <1>12

\* A change of the state alone.
LEMMA StateEffect ==
    ASSUME TypeOK, NEW e \in Ends, ~over[e], NEW s \in 0 .. 6,
           SetPrimary(e, [key[e].primary EXCEPT !.state = s])
    PROVE  /\ TypeOK' /\ InPlace(e) /\ P(e)'.state = s
           /\ P(e)'.must_negotiate = P(e).must_negotiate /\ P(e)'.deferred = P(e).deferred
           /\ P(e)'.established = P(e).established
           /\ P(e)'.send = P(e).send /\ P(e)'.rec = P(e).rec /\ P(e)'.ack = P(e).ack
           /\ Under(e)' = Under(e) /\ Under(Peer(e))' = Under(Peer(e))
<1> DEFINE ks == [P(e) EXCEPT !.state = s]
<1>1. SetPrimary(e, ks) BY DEF P
<1>2. P(e) \in KeyStates BY Typed
<1>3. ks \in KeyStates BY <1>2, Update, Zenon
<1>4. /\ ks.state = s /\ ks.serial = P(e).serial /\ ks.key_id = P(e).key_id
      /\ ks.must_negotiate = P(e).must_negotiate /\ ks.deferred = P(e).deferred
      /\ ks.established = P(e).established
      /\ ks.send = P(e).send /\ ks.rec = P(e).rec /\ ks.ack = P(e).ack
  BY <1>2 DEF KeyStates
<1> HIDE DEF ks
<1>5. /\ TypeOK' /\ InPlace(e) /\ P(e)' = ks
      /\ Under(e)' = Under(e) /\ Under(Peer(e))' = Under(Peer(e))
  BY <1>1, <1>3, <1>4, SetPrimaryEffect
<1>6. QED BY <1>4, <1>5

\* The key becomes active.
LEMMA ActivateEffect ==
    ASSUME TypeOK, NEW e \in Ends, Activate(e)
    PROVE  /\ TypeOK' /\ InPlace(e)
           /\ P(e).state = IF e = "server" THEN S_SENT_KEY ELSE S_GOT_KEY
           /\ ~TimedOut(P(e)) /\ P(e).send = {}
           /\ P(e)'.state = S_ACTIVE /\ P(e)'.established = now
           /\ P(e)'.deferred = P(e).deferred
           /\ P(e)'.send = P(e).send /\ P(e)'.rec = P(e).rec /\ P(e)'.ack = P(e).ack
           /\ Under(e)' = Under(e) /\ Under(Peer(e))' = Under(Peer(e))
<1> DEFINE r1 == [P(e) EXCEPT !.state = S_ACTIVE]
           r2 == [r1 EXCEPT !.established = now]
           ks == [r2 EXCEPT !.must_negotiate = 0]
<1>1. /\ SetPrimary(e, ks) /\ ~over[e] /\ ~TimedOut(P(e)) /\ P(e).send = {}
      /\ P(e).state = IF e = "server" THEN S_SENT_KEY ELSE S_GOT_KEY
  BY DEF Activate, ActivateStage, Stage, Processing, FULL_SYNC, P
<1>2. P(e) \in KeyStates /\ now \in Nat BY Typed
<1>3. S_ACTIVE \in 0 .. 6 BY DEF S_ACTIVE
<1>4. r1 \in KeyStates BY <1>2, <1>3, Update, Zenon
<1> HIDE DEF r1
<1>5. r2 \in KeyStates BY <1>2, <1>4, Update
<1> HIDE DEF r2
<1>6. ks \in KeyStates BY <1>5, Update
<1>7. /\ ks.state = S_ACTIVE /\ ks.serial = P(e).serial /\ ks.key_id = P(e).key_id
      /\ ks.deferred = P(e).deferred /\ ks.established = now
      /\ ks.send = P(e).send /\ ks.rec = P(e).rec /\ ks.ack = P(e).ack
  BY <1>2 DEF r1, r2, KeyStates
<1> HIDE DEF ks
<1>8. /\ TypeOK' /\ InPlace(e) /\ P(e)' = ks
      /\ Under(e)' = Under(e) /\ Under(Peer(e))' = Under(Peer(e))
  BY <1>1, <1>6, <1>7, SetPrimaryEffect
<1>9. QED BY <1>1, <1>7, <1>8

\* A packet of the primary key, which the same step may change.
LEMMA PacketEffect ==
    ASSUME TypeOK, NEW e \in Ends, ~over[e], NEW ks \in KeyStates,
           ks.serial = P(e).serial, ks.key_id = P(e).key_id, ks.ack = P(e).ack,
           NEW op \in {"SOFT_RESET", "CONTROL", "ACK"}, NEW pid \in {0, 1}, Sent(e, ks, op, pid)
    PROVE  /\ TypeOK' /\ InPlace(e)
           /\ P(e)'.state = ks.state
           /\ P(e)'.send = ks.send /\ P(e)'.rec = ks.rec /\ P(e)'.ack = {}
           /\ P(e)'.must_negotiate = ks.must_negotiate /\ P(e)'.deferred = ks.deferred
           /\ P(e)'.established = ks.established
           /\ Under(e)' = Under(e)
           /\ Under(Peer(e))' \subseteq Under(Peer(e)) \cup {Packet(P(e), op, pid)}
<1>1. Packet(ks, op, pid) = Packet(P(e), op, pid) BY DEF Packet
<1>2. /\ TypeOK' /\ InPlace(e) /\ P(e)' = [ks EXCEPT !.ack = {}] /\ Under(e)' = Under(e)
      /\ Under(Peer(e))' \subseteq Under(Peer(e)) \cup {Packet(P(e), op, pid)}
  BY <1>1, SentEffect
<1> DEFINE k2 == [ks EXCEPT !.ack = {}]
<1>3. /\ k2.state = ks.state /\ k2.must_negotiate = ks.must_negotiate
      /\ k2.deferred = ks.deferred /\ k2.established = ks.established
      /\ k2.send = ks.send /\ k2.rec = ks.rec /\ k2.ack = {}
  BY DEF KeyStates
<1>4. P(e)' = k2 BY <1>2
<1> HIDE DEF k2
<1>5. QED BY <1>2, <1>3, <1>4

\* The key message.
LEMMA SendKeyEffect ==
    ASSUME TypeOK, NEW e \in Ends, SendKey(e)
    PROVE  /\ TypeOK' /\ InPlace(e)
           /\ P(e).state = IF e = "server" THEN S_GOT_KEY ELSE S_START
           /\ P(e)'.state = S_SENT_KEY
           /\ P(e)'.send = P(e).send \cup {1} /\ P(e)'.rec = P(e).rec /\ P(e)'.ack = {}
           /\ P(e)'.must_negotiate = P(e).must_negotiate /\ P(e)'.deferred = P(e).deferred
           /\ P(e)'.established = P(e).established
           /\ Under(e)' = Under(e)
           /\ Under(Peer(e))' \subseteq Under(Peer(e)) \cup {Packet(P(e), "CONTROL", 1)}
<1> DEFINE r1 == [P(e) EXCEPT !.state = S_SENT_KEY]
           ks == [r1 EXCEPT !.send = @ \cup {1}]
<1>1. P(e) \in KeyStates BY Typed
<1>2. /\ Sent(e, ks, "CONTROL", 1) /\ ~over[e]
      /\ P(e).state = IF e = "server" THEN S_GOT_KEY ELSE S_START
  BY DEF SendKey, SendKeyStage, Stage, Processing, P
<1>3. S_SENT_KEY \in 0 .. 6 BY DEF S_SENT_KEY
<1>4. r1 \in KeyStates BY <1>1, <1>3, Update, Zenon
<1>5. r1.send = P(e).send BY <1>1 DEF KeyStates
<1>6. P(e).send \cup {1} \in SUBSET {0, 1} BY <1>1, Fields
<1>7. /\ ks.state = S_SENT_KEY /\ ks.serial = P(e).serial /\ ks.key_id = P(e).key_id
      /\ ks.must_negotiate = P(e).must_negotiate /\ ks.deferred = P(e).deferred
      /\ ks.established = P(e).established
      /\ ks.send = P(e).send \cup {1} /\ ks.rec = P(e).rec /\ ks.ack = P(e).ack
  BY <1>1 DEF KeyStates
<1> HIDE DEF r1
<1>8. ks \in KeyStates BY <1>4, <1>5, <1>6, Update
<1> HIDE DEF ks
<1>9. QED BY <1>2, <1>7, <1>8, PacketEffect

\* A packet sent again, or an acknowledgement on its own.
LEMMA ResentEffect ==
    ASSUME TypeOK, NEW e \in Ends, ~over[e],
           NEW op \in {"SOFT_RESET", "CONTROL", "ACK"}, NEW pid \in {0, 1},
           Sent(e, key[e].primary, op, pid)
    PROVE  /\ TypeOK' /\ InPlace(e)
           /\ P(e)'.state = P(e).state
           /\ P(e)'.send = P(e).send /\ P(e)'.rec = P(e).rec /\ P(e)'.ack = {}
           /\ P(e)'.must_negotiate = P(e).must_negotiate /\ P(e)'.deferred = P(e).deferred
           /\ P(e)'.established = P(e).established
           /\ Under(e)' = Under(e)
           /\ Under(Peer(e))' \subseteq Under(Peer(e)) \cup {Packet(P(e), op, pid)}
<1>1. P(e) \in KeyStates /\ Sent(e, P(e), op, pid) BY Typed DEF P
<1>2. QED BY <1>1, PacketEffect

\* A new key state, and the one it displaces.
LEMMA NewKey ==
    ASSUME NEW i \in 0 .. KeyIdMask, NEW n \in Nat
    PROVE  /\ KeyState(i, n) \in KeyStates
           /\ KeyState(i, n).state = S_INITIAL /\ KeyState(i, n).key_id = i
           /\ KeyState(i, n).serial = n
           /\ KeyState(i, n).deferred = 0 /\ KeyState(i, n).established = 0
           /\ KeyState(i, n).send = {} /\ KeyState(i, n).rec = {} /\ KeyState(i, n).ack = {}
BY DEF KeyState, KeyStates, S_INITIAL, S_UNDEF, S_ACTIVE

\* NoKey is a key state of no key.
LEMMA NoKeyFields ==
    /\ NoKey \in KeyStates /\ NoKey.state = S_UNDEF /\ NoKey.key_id = 0 /\ NoKey.serial = 0
<1>1. KeyState(0, 0) \in KeyStates /\ KeyState(0, 0).key_id = 0 /\ KeyState(0, 0).serial = 0
  BY NewKey, Constants
<1>2. S_UNDEF \in 0 .. 6 BY DEF S_UNDEF
<1>3. NoKey \in KeyStates BY <1>1, <1>2, Update, Zenon DEF NoKey
<1>4. QED BY <1>1, <1>3 DEF NoKey, KeyStates

\* What remains of a key that retires.
LEMMA RetiredFields ==
    ASSUME now \in Nat, NEW ks \in KeyStates
    PROVE  /\ Retired(ks) \in KeyStates
           /\ Retired(ks).state = ks.state /\ Retired(ks).key_id = ks.key_id
           /\ Retired(ks).serial = ks.serial /\ Retired(ks).deferred = ks.deferred
           /\ Retired(ks).must_die = now + TransitionWindow
<1> DEFINE r1 == [ks EXCEPT !.must_die = now + TransitionWindow]
           r2 == [r1 EXCEPT !.must_negotiate = 0]
           r3 == [r2 EXCEPT !.established = 0]
           r4 == [r3 EXCEPT !.send = {}]
           r5 == [r4 EXCEPT !.rec = {}]
           r6 == [r5 EXCEPT !.ack = {}]
<1>1. Retired(ks) = r6 BY DEF Retired
<1>2. now + TransitionWindow \in Nat BY Constants
<1>3. r1 \in KeyStates BY <1>2, Update
<1>4. /\ r1.state = ks.state /\ r1.key_id = ks.key_id /\ r1.serial = ks.serial
      /\ r1.deferred = ks.deferred /\ r1.must_die = now + TransitionWindow
  BY DEF KeyStates
<1> HIDE DEF r1
<1>5. r2 \in KeyStates BY <1>3, Update
<1>6. r3 \in KeyStates
  <2> HIDE DEF r2
  <2>1. QED BY <1>5, Update
<1>7. r4 \in KeyStates
  <2> HIDE DEF r3
  <2>1. QED BY <1>6, Update
<1>8. r5 \in KeyStates
  <2> HIDE DEF r4
  <2>1. QED BY <1>7, Update
<1>9. r6 \in KeyStates
  <2> HIDE DEF r5
  <2>1. QED BY <1>8, Update
<1>10. /\ r6.state = r1.state /\ r6.key_id = r1.key_id /\ r6.serial = r1.serial
       /\ r6.deferred = r1.deferred /\ r6.must_die = r1.must_die
  BY <1>3 DEF KeyStates
<1> HIDE DEF r6
<1>11. QED BY <1>1, <1>4, <1>9, <1>10

\* What a packet does to the key state that has its id.
LEMMA ArrivedFields ==
    ASSUME NEW ks \in KeyStates, NEW m \in Packets
    PROVE  LET a == Arrived(ks, m)
           IN  /\ a \in KeyStates
               /\ a.state = ks.state /\ a.key_id = ks.key_id /\ a.serial = ks.serial
               /\ a.must_negotiate = ks.must_negotiate /\ a.deferred = ks.deferred
               /\ a.established = ks.established
               /\ m.key_id # ks.key_id => a = ks
               /\ m.key_id = ks.key_id =>
                     /\ a.send = ks.send \ m.acks
                     /\ a.rec = IF m.op = "ACK" THEN ks.rec ELSE ks.rec \cup {m.pid}
                     /\ a.ack = IF m.op = "ACK" THEN ks.ack ELSE ks.ack \cup {m.pid}
<1>1. CASE m.key_id # ks.key_id BY <1>1 DEF Arrived
<1>2. CASE m.key_id = ks.key_id
  <2> DEFINE acked == [ks EXCEPT !.send = @ \ m.acks]
             r1 == [acked EXCEPT !.rec = @ \cup {m.pid}]
             r2 == [r1 EXCEPT !.ack = @ \cup {m.pid}]
  <2>1. m.pid \in {0, 1} /\ m.acks \subseteq {0, 1} BY DEF Packets
  <2>2. /\ ks.send \ m.acks \in SUBSET {0, 1} /\ ks.rec \cup {m.pid} \in SUBSET {0, 1}
        /\ ks.ack \cup {m.pid} \in SUBSET {0, 1}
    BY <2>1, Fields
  <2>3. acked \in KeyStates BY <2>2, Update
  <2>4. /\ acked.state = ks.state /\ acked.key_id = ks.key_id /\ acked.serial = ks.serial
        /\ acked.must_negotiate = ks.must_negotiate /\ acked.deferred = ks.deferred
        /\ acked.established = ks.established /\ acked.send = ks.send \ m.acks
        /\ acked.rec = ks.rec /\ acked.ack = ks.ack
    BY DEF KeyStates
  <2>5. Arrived(ks, m) = IF m.op = "ACK" THEN acked ELSE r2 BY <1>2 DEF Arrived
  <2> HIDE DEF acked
  <2>6. r1 \in KeyStates BY <2>2, <2>3, <2>4, Update
  <2>7. r2 \in KeyStates
    <3>1. r1.ack = ks.ack BY <2>3, <2>4 DEF KeyStates
    <3> HIDE DEF r1
    <3>2. QED BY <2>2, <2>6, <3>1, Update
  <2>8. /\ r2.state = acked.state /\ r2.key_id = acked.key_id /\ r2.serial = acked.serial
        /\ r2.must_negotiate = acked.must_negotiate /\ r2.deferred = acked.deferred
        /\ r2.established = acked.established /\ r2.send = acked.send
        /\ r2.rec = acked.rec \cup {m.pid} /\ r2.ack = acked.ack \cup {m.pid}
    BY <2>3 DEF KeyStates
  <2> HIDE DEF r2
  <2>9. CASE m.op = "ACK" BY <1>2, <2>3, <2>4, <2>5, <2>9
  <2>10. CASE m.op # "ACK" BY <1>2, <2>4, <2>5, <2>7, <2>8, <2>10
  <2>11. QED BY <2>9, <2>10
<1>3. QED BY <1>1, <1>2

(* A step that makes an end start its next key.                              *)
Resets(e) ==
    /\ ~over[e] /\ over' = over /\ now' = now
    /\ key'[Peer(e)] = key[Peer(e)] /\ next'[Peer(e)] = next[Peer(e)]
    /\ L(e)' = Retired(P(e))
    /\ next'[e].serial = next[e].serial + 1 /\ next'[e].key_id = NextId(next[e].key_id)
    /\ P(e)'.serial = next[e].serial /\ P(e)'.key_id = next[e].key_id
    /\ P(e)'.state = S_INITIAL /\ P(e)'.send = {}

\* The count of keys.
LEMMA CountedEffect ==
    ASSUME TypeOK, NEW e \in Ends, Counted(e)
    PROVE  /\ next' \in [Ends -> [key_id : 1 .. KeyIdMask, serial : Nat]]
           /\ next'[e].serial = next[e].serial + 1
           /\ next'[e].key_id = NextId(next[e].key_id)
           /\ next'[Peer(e)] = next[Peer(e)]
<1> DEFINE n == [key_id |-> NextId(next[e].key_id), serial |-> next[e].serial + 1]
<1>1. next' = [next EXCEPT ![e] = n] BY DEF Counted
<1>2. next[e].key_id \in 1 .. KeyIdMask /\ next[e].serial \in Nat BY Typed
<1>3. NextId(next[e].key_id) \in 1 .. KeyIdMask BY <1>2, Constants DEF NextId
<1>4. n \in [key_id : 1 .. KeyIdMask, serial : Nat] BY <1>2, <1>3
<1>5. n.serial = next[e].serial + 1 /\ n.key_id = NextId(next[e].key_id) OBVIOUS
<1> HIDE DEF n
<1>6. /\ next' \in [Ends -> [key_id : 1 .. KeyIdMask, serial : Nat]]
      /\ next'[e] = n /\ next'[Peer(e)] = next[Peer(e)]
  BY <1>1, <1>4, Peers DEF TypeOK
<1>7. QED BY <1>5, <1>6

\* What a trigger counts as a mishap.
LEMMA MishapCount ==
    ASSUME TypeOK, mishaps' = mishaps \/ (mishaps < MaxMishaps /\ mishaps' = mishaps + 1)
    PROVE  mishaps' \in 0 .. MaxMishaps
BY Constants DEF TypeOK

\* The renegotiation trigger.
LEMMA RenegotiateEffect ==
    ASSUME TypeOK, NEW e \in Ends, Renegotiate(e)
    PROVE  /\ TypeOK' /\ Resets(e) /\ stray' = stray
           /\ P(e).state = S_ACTIVE
           /\ rushed => rushed'
           /\ rushed' \/ now >= P(e).established + 2 * HandshakeWindow
           /\ P(e)'.rec = {} /\ P(e)'.ack = {}
           /\ Under(e)' = Under(e) /\ Under(Peer(e))' = Under(Peer(e))
<1> DEFINE a == KeyState(next[e].key_id, next[e].serial)
           b == Retired(P(e))
<1>1. P(e) \in KeyStates /\ now \in Nat BY Typed
<1>2. next[e].key_id \in 0 .. KeyIdMask /\ next[e].serial \in Nat
  <2>1. next[e].key_id \in 1 .. KeyIdMask /\ next[e].serial \in Nat BY Typed
  <2>2. QED BY <2>1, Constants
<1>3. /\ a \in KeyStates /\ a.state = S_INITIAL /\ a.key_id = next[e].key_id
      /\ a.serial = next[e].serial /\ a.send = {} /\ a.rec = {} /\ a.ack = {}
  BY <1>2, NewKey
<1>4. b \in KeyStates BY <1>1, RetiredFields
<1>5. /\ ~over[e] /\ P(e).state >= S_ACTIVE /\ Counted(e)
      /\ key' = [key EXCEPT ![e] = [primary |-> a, lame |-> b]]
      /\ now' = now /\ over' = over /\ net' = net /\ stray' = stray
      /\ rushed' = (rushed \/ TooSoon(e))
      /\ mishaps' = mishaps \/ (mishaps < MaxMishaps /\ mishaps' = mishaps + 1)
  BY DEF Renegotiate, SoftReset, P
<1> HIDE DEF a, b
<1>6. /\ P(e)' = a /\ L(e)' = b /\ key'[Peer(e)] = key[Peer(e)]
      /\ key' \in [Ends -> [primary : KeyStates, lame : KeyStates]]
  BY <1>3, <1>4, <1>5, SetKey
<1>7. /\ next' \in [Ends -> [key_id : 1 .. KeyIdMask, serial : Nat]]
      /\ next'[e].serial = next[e].serial + 1
      /\ next'[e].key_id = NextId(next[e].key_id)
      /\ next'[Peer(e)] = next[Peer(e)]
  BY <1>5, CountedEffect
<1>8. TypeOK'
  <2>1. mishaps' \in 0 .. MaxMishaps BY <1>5, MishapCount
  <2>2. rushed' \in BOOLEAN BY <1>5
  <2>3. stray' \in BOOLEAN BY <1>5 DEF TypeOK
  <2>4. QED BY <1>5, <1>6, <1>7, <2>1, <2>2, <2>3 DEF TypeOK
<1>9. Resets(e) BY <1>3, <1>5, <1>6, <1>7 DEF Resets, b
<1>10. /\ P(e).state = S_ACTIVE
       /\ rushed => rushed'
       /\ rushed' \/ now >= P(e).established + 2 * HandshakeWindow
  <2>1. P(e).state \in 0 .. 6 /\ P(e).established \in Nat BY <1>1, Fields
  <2>2. P(e).state = S_ACTIVE BY <1>5, <2>1 DEF S_ACTIVE
  <2>3. ~TooSoon(e) => now >= P(e).established + 2 * HandshakeWindow
    BY <1>1, <2>1, Constants DEF TooSoon, P
  <2>4. QED BY <1>5, <2>2, <2>3
<1>11. Under(e)' = Under(e) /\ Under(Peer(e))' = Under(Peer(e)) BY <1>5 DEF Under
<1>12. QED BY <1>3, <1>5, <1>6, <1>8, <1>9, <1>10, <1>11

\* What a packet that is received does: nothing to a session that is over, the
\* start of the next key, or an answer to the current one.
LEMMA ReceiveEffect ==
    ASSUME TypeOK, NEW e \in Ends, Receive(e)
    PROVE  /\ TypeOK' /\ Under(e)' \subseteq Under(e) /\ Under(Peer(e))' = Under(Peer(e))
           /\ rushed' = rushed
           /\ \E m \in Under(e) :
                 \/ /\ over[e] /\ key' = key /\ next' = next /\ over' = over /\ now' = now
                    /\ stray' = stray
                 \/ InPlace(e) /\ P(e)' = Arrived(P(e), m)
                 \/ /\ Resets(e) /\ m.op = "SOFT_RESET" /\ DECRYPT_KEY_ENABLED(e, P(e))
                    /\ P(e)' = Arrived(KeyState(next[e].key_id, next[e].serial), m)
                    /\ stray' = (stray \/ m.serial < next[e].serial)
<1>1. PICK i \in Receivable(e) :
        LET m      == net[e][i]
            resets == /\ m.op = "SOFT_RESET" /\ ~over[e]
                      /\ DECRYPT_KEY_ENABLED(e, key[e].primary)
            pair   == IF resets THEN SoftReset(e) ELSE key[e]
        IN  /\ net' = [net EXCEPT ![e] = RemoveAt(@, i)]
            /\ key' = [key EXCEPT ![e] = IF over[e] THEN @
                         ELSE [pair EXCEPT !.primary = Arrived(@, m)]]
            /\ IF resets THEN Counted(e) ELSE UNCHANGED next
            /\ mishaps' = IF i = 1 THEN mishaps ELSE mishaps + 1
            /\ stray' = (stray \/ (resets /\ m.serial < next[e].serial))
            /\ UNCHANGED <<now, over, rushed>>
  BY Zenon DEF Receive
<1> DEFINE m == net[e][i]
<1>2. i \in DOMAIN net[e] BY DEF Receivable
<1>3. /\ net' \in [Ends -> Seq(Packets)] /\ Under(e)' \subseteq Under(e)
      /\ Under(Peer(e))' = Under(Peer(e)) /\ m \in Under(e)
  BY <1>1, <1>2, Removed
<1>4. m \in Packets BY <1>3, Typed
<1>5. mishaps' \in 0 .. MaxMishaps
  <2>1. mishaps \in 0 .. MaxMishaps BY DEF TypeOK
  <2>2. mishaps' = IF i = 1 THEN mishaps ELSE mishaps + 1 BY <1>1
  <2>3. i = 1 \/ mishaps < MaxMishaps BY DEF Receivable
  <2>4. QED BY <2>1, <2>2, <2>3, Constants
<1>6. now' = now /\ over' = over /\ rushed' = rushed BY <1>1
<1>7. P(e) \in KeyStates /\ L(e) \in KeyStates /\ key[e] = [primary |-> P(e), lame |-> L(e)]
  BY Typed
<1>8. CASE over[e]
  <2>1. key' = [key EXCEPT ![e] = key[e]] BY <1>1, <1>8
  <2>2. key' = key BY <2>1 DEF TypeOK
  <2>3. next' = next BY <1>1, <1>8
  <2>4. stray' = stray BY <1>1, <1>8 DEF TypeOK
  <2>5. TypeOK' BY <1>3, <1>5, <1>6, <2>2, <2>3, <2>4 DEF TypeOK
  <2>6. QED BY <1>3, <1>6, <1>8, <2>2, <2>3, <2>4, <2>5
<1>9. CASE ~over[e] /\ ~(m.op = "SOFT_RESET" /\ DECRYPT_KEY_ENABLED(e, key[e].primary))
  <2> DEFINE a == Arrived(P(e), m)
  <2>1. key' = [key EXCEPT ![e] = [key[e] EXCEPT !.primary = Arrived(@, m)]] BY <1>1, <1>9
  <2>2. [key[e] EXCEPT !.primary = Arrived(@, m)] = [primary |-> a, lame |-> L(e)] BY <1>7
  <2>3. key' = [key EXCEPT ![e] = [primary |-> a, lame |-> L(e)]] BY <2>1, <2>2
  <2>4. a \in KeyStates /\ a.serial = P(e).serial /\ a.key_id = P(e).key_id
    BY <1>4, <1>7, ArrivedFields
  <2> HIDE DEF a, m
  <2>5. /\ P(e)' = a /\ L(e)' = L(e) /\ key'[Peer(e)] = key[Peer(e)]
        /\ key' \in [Ends -> [primary : KeyStates, lame : KeyStates]]
    BY <1>7, <2>3, <2>4, SetKey
  <2>6. next' = next /\ stray' = stray BY <1>1, <1>9 DEF TypeOK, m
  <2>7. TypeOK' BY <1>3, <1>5, <1>6, <2>5, <2>6 DEF TypeOK
  <2>8. InPlace(e) BY <1>6, <1>9, <2>4, <2>5, <2>6 DEF InPlace
  <2>9. QED BY <1>3, <1>6, <2>5, <2>7, <2>8 DEF a
<1>10. CASE ~over[e] /\ m.op = "SOFT_RESET" /\ DECRYPT_KEY_ENABLED(e, key[e].primary)
  <2> DEFINE k == KeyState(next[e].key_id, next[e].serial)
             a == Arrived(k, m)
             b == Retired(P(e))
  <2>1. key' = [key EXCEPT ![e] = [SoftReset(e) EXCEPT !.primary = Arrived(@, m)]] /\ Counted(e)
    BY <1>1, <1>10
  <2>2. [SoftReset(e) EXCEPT !.primary = Arrived(@, m)] = [primary |-> a, lame |-> b]
    BY DEF SoftReset, P
  <2>3. key' = [key EXCEPT ![e] = [primary |-> a, lame |-> b]] BY <2>1, <2>2
  <2>4. next[e].key_id \in 0 .. KeyIdMask /\ next[e].serial \in Nat /\ now \in Nat
    <3>1. next[e].key_id \in 1 .. KeyIdMask /\ next[e].serial \in Nat /\ now \in Nat BY Typed
    <3>2. QED BY <3>1, Constants
  <2>5. /\ k \in KeyStates /\ k.state = S_INITIAL /\ k.key_id = next[e].key_id
        /\ k.serial = next[e].serial /\ k.send = {}
    BY <2>4, NewKey
  <2>6. b \in KeyStates BY <1>7, <2>4, RetiredFields
  <2> HIDE DEF k, b, m
  <2>7. /\ a \in KeyStates /\ a.state = k.state /\ a.serial = k.serial /\ a.key_id = k.key_id
        /\ m.key_id # k.key_id => a = k
        /\ m.key_id = k.key_id => a.send = k.send \ m.acks
    BY <1>4, <2>5, ArrivedFields
  <2> HIDE DEF a
  <2>8. a.send = {} BY <2>5, <2>7
  <2>9. /\ P(e)' = a /\ L(e)' = b /\ key'[Peer(e)] = key[Peer(e)]
        /\ key' \in [Ends -> [primary : KeyStates, lame : KeyStates]]
    BY <2>3, <2>6, <2>7, SetKey
  <2>10. /\ next' \in [Ends -> [key_id : 1 .. KeyIdMask, serial : Nat]]
         /\ next'[e].serial = next[e].serial + 1
         /\ next'[e].key_id = NextId(next[e].key_id)
         /\ next'[Peer(e)] = next[Peer(e)]
    BY <2>1, CountedEffect
  <2>11. stray' = (stray \/ m.serial < next[e].serial) BY <1>1, <1>10 DEF m
  <2>12. stray' \in BOOLEAN BY <2>11
  <2>13. TypeOK' BY <1>3, <1>5, <1>6, <2>9, <2>10, <2>12 DEF TypeOK
  <2>14. Resets(e) BY <1>6, <1>10, <2>5, <2>7, <2>8, <2>9, <2>10 DEF Resets, b
  <2>15. P(e)' = Arrived(KeyState(next[e].key_id, next[e].serial), m) BY <2>9 DEF a, k
  <2>16. DECRYPT_KEY_ENABLED(e, P(e)) /\ m.op = "SOFT_RESET" BY <1>10 DEF P
  <2>17. QED BY <1>3, <1>6, <2>11, <2>13, <2>14, <2>15, <2>16
<1>11. QED BY <1>8, <1>9, <1>10

\* The old key expires.
LEMMA KillLameEffect ==
    ASSUME TypeOK, NEW e \in Ends, KillLame(e)
    PROVE  /\ TypeOK' /\ L(e).state >= S_INITIAL /\ now >= L(e).must_die
           /\ P(e)' = P(e) /\ L(e)' = NoKey /\ key'[Peer(e)] = key[Peer(e)]
           /\ next' = next /\ over' = over /\ now' = now /\ stray' = stray /\ rushed' = rushed
           /\ Under(e)' = Under(e) /\ Under(Peer(e))' = Under(Peer(e))
<1>1. /\ key' = [key EXCEPT ![e].lame = NoKey] /\ L(e).state >= S_INITIAL /\ now >= L(e).must_die
      /\ next' = next /\ over' = over /\ now' = now /\ stray' = stray /\ net' = net
      /\ mishaps' = mishaps /\ rushed' = rushed
  BY DEF KillLame, lame_duck_must_die, L
<1>2. key[e] = [primary |-> P(e), lame |-> L(e)] /\ P(e) \in KeyStates BY Typed
<1>3. [key[e] EXCEPT !.lame = NoKey] = [primary |-> P(e), lame |-> NoKey] BY <1>2
<1>4. key' = [key EXCEPT ![e] = [primary |-> P(e), lame |-> NoKey]] BY <1>1, <1>3
<1>5. key'[e] = [primary |-> P(e), lame |-> NoKey] /\ key'[Peer(e)] = key[Peer(e)]
  BY <1>4, Peers DEF TypeOK
<1>6. P(e)' = P(e) /\ L(e)' = NoKey
  <2>1. P(e)' = key'[e].primary /\ L(e)' = key'[e].lame BY DEF P, L
  <2>2. QED BY <1>5, <2>1
<1>7. [primary |-> P(e), lame |-> NoKey] \in [primary : KeyStates, lame : KeyStates]
  BY <1>2, NoKeyFields
<1>8. key' \in [Ends -> [primary : KeyStates, lame : KeyStates]] BY <1>4, <1>7 DEF TypeOK
<1>9. TypeOK' BY <1>1, <1>8 DEF TypeOK
<1>10. Under(e)' = Under(e) /\ Under(Peer(e))' = Under(Peer(e)) BY <1>1 DEF Under
<1>11. QED BY <1>1, <1>5, <1>6, <1>9, <1>10

\* The negotiation fails, or the session of an active key.
LEMMA FailEffect ==
    ASSUME TypeOK, NEW e \in Ends, Fail(e)
    PROVE  /\ TypeOK' /\ over'[e] /\ over'[Peer(e)] = over[Peer(e)] /\ ~over[e]
           /\ P(e)' = NoKey /\ L(e)' = (IF L(e).state >= S_ACTIVE THEN L(e) ELSE NoKey)
           /\ key'[Peer(e)] = key[Peer(e)]
           /\ next' = next /\ now' = now /\ stray' = stray /\ rushed' = rushed
           /\ Under(e)' = Under(e) /\ Under(Peer(e))' = Under(Peer(e))
<1> DEFINE l == IF L(e).state >= S_ACTIVE THEN L(e) ELSE NoKey
<1>1. /\ over' = [over EXCEPT ![e] = TRUE] /\ ~over[e]
      /\ key' = [key EXCEPT ![e] = [primary |-> NoKey, lame |-> l]]
      /\ next' = next /\ now' = now /\ stray' = stray /\ net' = net /\ rushed' = rushed
      /\ mishaps' = mishaps \/ (mishaps < MaxMishaps /\ mishaps' = mishaps + 1)
  BY DEF Fail, Erring, Processing, L
<1>2. L(e) \in KeyStates BY Typed
<1>3. l \in KeyStates BY <1>2, NoKeyFields
<1>4. key'[e] = [primary |-> NoKey, lame |-> l] /\ key'[Peer(e)] = key[Peer(e)]
  BY <1>1, Peers DEF TypeOK
<1> HIDE DEF l
<1>5. P(e)' = NoKey /\ L(e)' = l
  <2>1. P(e)' = key'[e].primary /\ L(e)' = key'[e].lame BY DEF P, L
  <2>2. QED BY <1>4, <2>1
<1>6. [primary |-> NoKey, lame |-> l] \in [primary : KeyStates, lame : KeyStates]
  BY <1>3, NoKeyFields
<1>7. key' \in [Ends -> [primary : KeyStates, lame : KeyStates]] BY <1>1, <1>6 DEF TypeOK
<1>8. /\ over' \in [Ends -> BOOLEAN] /\ over'[e] /\ over'[Peer(e)] = over[Peer(e)]
  BY <1>1, Peers DEF TypeOK
<1>9. TypeOK'
  <2>1. mishaps' \in 0 .. MaxMishaps BY <1>1, MishapCount
  <2>2. QED BY <1>1, <1>7, <1>8, <2>1 DEF TypeOK
<1>10. Under(e)' = Under(e) /\ Under(Peer(e))' = Under(Peer(e)) BY <1>1 DEF Under
<1>11. QED BY <1>1, <1>4, <1>5, <1>8, <1>9, <1>10 DEF l

\* A packet is lost.
LEMMA LoseEffect ==
    ASSUME TypeOK, NEW e \in Ends, Lose(e)
    PROVE  /\ TypeOK' /\ key' = key /\ next' = next /\ over' = over /\ now' = now
           /\ stray' = stray /\ rushed' = rushed
           /\ Under(e)' \subseteq Under(e) /\ Under(Peer(e))' = Under(Peer(e))
<1>1. PICK i \in DOMAIN net[e] : net' = [net EXCEPT ![e] = RemoveAt(@, i)] BY DEF Lose
<1>2. /\ net' \in [Ends -> Seq(Packets)] /\ Under(e)' \subseteq Under(e)
      /\ Under(Peer(e))' = Under(Peer(e))
  BY <1>1, Removed
<1>3. /\ key' = key /\ next' = next /\ over' = over /\ now' = now /\ stray' = stray
      /\ rushed' = rushed /\ mishaps' = mishaps + 1 /\ mishaps < MaxMishaps
  BY DEF Lose
<1>4. mishaps' \in 0 .. MaxMishaps BY <1>3, Constants DEF TypeOK
<1>5. TypeOK' BY <1>2, <1>3, <1>4 DEF TypeOK
<1>6. QED BY <1>2, <1>3, <1>5

-----------------------------------------------------------------------------
(* What every step keeps                                                    *)

(* An end only moves on: to the end of its session, to a later key, or       *)
(* further in the dialogue of the same key.                                  *)
Later(x) ==
    \/ over'[x]
    \/ ~over[x] /\ P(x)'.serial > P(x).serial
    \/ /\ ~over[x] /\ P(x)'.serial = P(x).serial /\ P(x).rec \subseteq P(x)'.rec
       /\ \A pid \in {0, 1} : HasSent(x, pid, P(x).state) => HasSent(x, pid, P(x)'.state)

(* It leaves a key on which it is settled only for the next.                 *)
Steady(x) ==
    \/ over'[x]
    \/ ~over[x] /\ next'[x].serial > next[x].serial
    \/ ~over[x] /\ next'[x].serial = next[x].serial /\ (Settled(x) => Settled(x)')

\* What an end has told and heard remains so.
LEMMA Monotone ==
    ASSUME TypeOK, TypeOK', NEW x \in Ends, Later(x), NEW s \in Nat, NEW pid \in {0, 1}
    PROVE  /\ Beyond(x, s) => Beyond(x, s)'
           /\ Beyond(x, s) \/ P(x).serial = s => Beyond(x, s)' \/ P(x)'.serial = s
           /\ Told(x, s, pid) => Told(x, s, pid)'
           /\ Heard(x, s, pid) => Heard(x, s, pid)'
<1>1. P(x).serial \in Nat /\ P(x)'.serial \in Nat
  <2>1. P(x) \in KeyStates BY Typed
  <2>2. P(x)' \in KeyStates BY DEF TypeOK, P
  <2>3. QED BY <2>1, <2>2, Fields
<1>2. CASE over'[x] BY <1>2 DEF Beyond, Told, Heard
<1>3. CASE ~over[x] /\ P(x)'.serial > P(x).serial
  BY <1>1, <1>3 DEF Beyond, Told, Heard
<1>4. CASE /\ ~over[x] /\ P(x)'.serial = P(x).serial /\ P(x).rec \subseteq P(x)'.rec
           /\ \A q \in {0, 1} : HasSent(x, q, P(x).state) => HasSent(x, q, P(x)'.state)
  BY <1>1, <1>4 DEF Beyond, Told, Heard
<1>5. QED BY <1>2, <1>3, <1>4 DEF Later

\* An end that does not change keeps its relation with a peer that moves on.
LEMMA PairKept ==
    ASSUME TypeOK, TypeOK', NEW x \in Ends, key'[x] = key[x], Later(Peer(x)), PairOk(x)
    PROVE  PairOk(x)'
<1> DEFINE y == Peer(x)
<1>1. y \in Ends BY Peers
<1>2. P(x)' = P(x) BY DEF P
<1>3. P(x).serial \in Nat /\ P(x).rec \subseteq {0, 1} BY Typed, Fields
<1>4. \A s \in Nat, pid \in {0, 1} :
         (Told(y, s, pid) => Told(y, s, pid)') /\ (Heard(y, s, pid) => Heard(y, s, pid)')
  BY <1>1, Monotone
<1>5. PICK n \in Nat : n = P(x).serial BY <1>3
<1>6. n > 0 => /\ \A pid \in P(x).rec : Told(y, n, pid)
               /\ \A pid \in {0, 1} \ P(x).send : HasSent(x, pid, P(x).state) => Heard(y, n, pid)
  BY <1>5 DEF PairOk
<1>7. n > 0 => /\ \A pid \in P(x).rec : Told(y, n, pid)'
               /\ \A pid \in {0, 1} \ P(x).send : HasSent(x, pid, P(x).state) => Heard(y, n, pid)'
  BY <1>3, <1>4, <1>6
<1> HIDE DEF y
<1>8. \A pid : /\ Told(y, n, pid)' => Told(y, P(x).serial, pid)'
               /\ Heard(y, n, pid)' => Heard(y, P(x).serial, pid)'
  BY <1>2, <1>5 DEF Told, Heard, Beyond
<1>9. QED BY <1>2, <1>5, <1>7, <1>8 DEF PairOk, y

\* A packet under way remains true of a sender that moves on.
LEMMA NetKept ==
    ASSUME TypeOK, TypeOK', NEW x \in Ends, NEW m \in Packets, NetOk(x, m),
           Later(Peer(x)), Steady(x)
    PROVE  NetOk(x, m)'
<1> DEFINE y == Peer(x)
<1>1. y \in Ends BY Peers
<1>2. m.serial \in Nat /\ m.pid \in {0, 1} /\ m.acks \subseteq {0, 1} BY DEF Packets
<1>3. \A s \in Nat, pid \in {0, 1} :
         /\ Told(y, s, pid) => Told(y, s, pid)'
         /\ Heard(y, s, pid) => Heard(y, s, pid)'
         /\ Beyond(y, s) \/ P(y).serial = s => Beyond(y, s)' \/ P(y)'.serial = s
  BY <1>1, Monotone
<1>4. /\ m.serial > 0 /\ (m.op = "SOFT_RESET" => m.pid = 0)
      /\ m.op # "ACK" => Told(y, m.serial, m.pid)'
      /\ \A a \in m.acks : Heard(y, m.serial, a)'
      /\ Beyond(y, m.serial)' \/ P(y)'.serial = m.serial
  BY <1>2, <1>3 DEF NetOk
<1>5. ~over'[x] => /\ m.serial <= next'[x].serial
                   /\ m.serial = next'[x].serial => Settled(x)'
  <2>1. next[x].serial \in Nat /\ next'[x].serial \in Nat BY DEF TypeOK
  <2>2. ~over[x] => /\ m.serial <= next[x].serial
                    /\ m.serial = next[x].serial => Settled(x)
    BY DEF NetOk
  <2>3. CASE over'[x] BY <2>3
  <2>4. CASE ~over[x] /\ next'[x].serial > next[x].serial BY <1>2, <2>1, <2>2, <2>4
  <2>5. CASE ~over[x] /\ next'[x].serial = next[x].serial /\ (Settled(x) => Settled(x)')
    BY <2>2, <2>5
  <2>6. QED BY <2>3, <2>4, <2>5 DEF Steady
<1>6. QED BY <1>4, <1>5 DEF NetOk

\* An end whose keys and clock do not change is as good as before on its own.
LEMMA AloneKept ==
    ASSUME NEW x \in Ends, key'[x] = key[x], next'[x] = next[x], now' = now
    PROVE  /\ NextOk(x)' <=> NextOk(x)
           /\ AloneOk(x)' <=> AloneOk(x)
           /\ Settled(x)' <=> Settled(x)
<1>1. P(x)' = P(x) /\ L(x)' = L(x) BY DEF P, L
<1>2. NextOk(x)' <=> NextOk(x) BY DEF NextOk
<1>3. SerialOk(x)' <=> SerialOk(x) BY <1>1 DEF SerialOk
<1>4. ClockOk(x)' <=> ClockOk(x) BY <1>1 DEF ClockOk
<1>5. DialogOk(x)' <=> DialogOk(x) BY <1>1 DEF DialogOk
<1>6. Settled(x)' <=> Settled(x) BY <1>1 DEF Settled
<1>7. QED BY <1>2, <1>3, <1>4, <1>5, <1>6 DEF AloneOk

\* What has to be shown of a step of one end.
LEMMA EndStep ==
    ASSUME TypeOK, TypeOK', Good, NEW e \in Ends,
           key'[Peer(e)] = key[Peer(e)], next'[Peer(e)] = next[Peer(e)],
           over'[Peer(e)] = over[Peer(e)], now' = now,
           Later(e), Steady(e), NextOk(e)',
           ~over'[e] => AloneOk(e)' /\ PairOk(e)',
           ~over'[e] /\ ~over[Peer(e)] => BothOk(e)' /\ BothOk(Peer(e))',
           Under(e)' \subseteq Under(e),
           NEW M \in SUBSET Packets, Under(Peer(e))' \subseteq Under(Peer(e)) \cup M,
           \A m \in M : NetOk(Peer(e), m)'
    PROVE  Good'
<1> DEFINE p == Peer(e)
<1>1. p \in Ends /\ Peer(p) = e /\ \A x \in Ends : x = e \/ x = p BY Peers
<1>2. EndOk(e) /\ EndOk(p) BY <1>1 DEF Good
<1>3. P(p)' = P(p) BY DEF P
<1>4. /\ NextOk(p)' <=> NextOk(p)
      /\ AloneOk(p)' <=> AloneOk(p)
      /\ Settled(p)' <=> Settled(p)
  BY <1>1, AloneKept
<1>5. Later(p) BY <1>3 DEF Later
<1>6. Steady(p) BY <1>1, <1>4 DEF Steady
<1>7. ~over'[p] => PairOk(p)' BY <1>1, <1>2, PairKept DEF EndOk
<1>8. \A m \in Under(e)' : NetOk(e, m)'
  <2>1. \A m \in Under(e) : m \in Packets /\ NetOk(e, m) BY <1>2, Typed DEF EndOk
  <2>2. QED BY <1>5, <2>1, NetKept
<1>9. \A m \in Under(p)' : NetOk(p, m)'
  <2>1. \A m \in Under(p) : m \in Packets /\ NetOk(p, m) BY <1>1, <1>2, Typed DEF EndOk
  <2>2. \A m \in Under(p) : NetOk(p, m)' BY <1>1, <1>6, <2>1, NetKept
  <2>3. QED BY <2>2
<1>10. EndOk(e)'
  <2>1. (~over[e] /\ ~over[Peer(e)] => BothOk(e))' OBVIOUS
  <2>2. (~over[e] => AloneOk(e) /\ PairOk(e))' OBVIOUS
  <2>3. (\A m \in Under(e) : NetOk(e, m))' BY <1>8
  <2>4. QED BY <2>1, <2>2, <2>3 DEF EndOk
<1>11. EndOk(p)'
  <2>1. (~over[p] /\ ~over[e] => BothOk(p))' OBVIOUS
  <2>2. (~over[p] => AloneOk(p) /\ PairOk(p))' BY <1>2, <1>4, <1>7 DEF EndOk
  <2>3. (\A m \in Under(p) : NetOk(p, m))' BY <1>9
  <2>4. NextOk(p)' BY <1>2, <1>4 DEF EndOk
  <2> HIDE DEF p
  <2>5. QED BY <1>1, <2>1, <2>2, <2>3, <2>4 DEF EndOk
<1>12. QED BY <1>1, <1>10, <1>11 DEF Good

-----------------------------------------------------------------------------
(* Steps that keep an end on its key                                        *)

\* The values of the states, and the types of one end now and next.
LEMMA Levels ==
    /\ S_UNDEF = 0 /\ S_INITIAL = 1 /\ S_PRE_START = 2 /\ S_START = 3 /\ S_SENT_KEY = 4
    /\ S_GOT_KEY = 5 /\ S_ACTIVE = 6 /\ Handshake = 2 .. 5
BY DEF S_UNDEF, S_INITIAL, S_PRE_START, S_START, S_SENT_KEY, S_GOT_KEY, S_ACTIVE, Handshake

\* The numbers in the key states of an end.
LEMMA Numbers ==
    ASSUME TypeOK, NEW x \in Ends
    PROVE  /\ now \in Nat /\ next[x].serial \in Nat
           /\ P(x).state \in 0 .. 6 /\ P(x).serial \in Nat /\ P(x).must_negotiate \in Nat
           /\ P(x).deferred \in Nat /\ P(x).established \in Nat
           /\ P(x).send \subseteq {0, 1} /\ P(x).rec \subseteq {0, 1} /\ P(x).ack \subseteq {0, 1}
           /\ L(x).state \in 0 .. 6 /\ L(x).serial \in Nat /\ L(x).must_die \in Nat
           /\ L(x).deferred \in Nat
BY Typed, Fields

\* The same after a step.
LEMMA NumbersNext ==
    ASSUME TypeOK', NEW x \in Ends
    PROVE  /\ now' \in Nat /\ next'[x].serial \in Nat
           /\ P(x)'.state \in 0 .. 6 /\ P(x)'.serial \in Nat /\ P(x)'.must_negotiate \in Nat
           /\ P(x)'.deferred \in Nat /\ P(x)'.established \in Nat
           /\ P(x)'.send \subseteq {0, 1} /\ P(x)'.rec \subseteq {0, 1}
           /\ P(x)'.ack \subseteq {0, 1}
<1>1. P(x)' \in KeyStates BY DEF TypeOK, P
<1>2. now' \in Nat /\ next'[x].serial \in Nat BY Constants DEF TypeOK
<1>3. QED BY <1>1, <1>2, Fields

\* What has to be shown of a step that keeps an end on its key.
LEMMA InPlaceStep ==
    ASSUME TypeOK, TypeOK', Good, NEW e \in Ends, InPlace(e),
           P(e).rec \subseteq P(e)'.rec,
           \A pid \in {0, 1} : HasSent(e, pid, P(e).state) => HasSent(e, pid, P(e)'.state),
           P(e).state = S_ACTIVE => P(e)'.state = S_ACTIVE /\ P(e)'.deferred = P(e).deferred,
           AloneOk(e)', PairOk(e)',
           ~over[Peer(e)] => AgreeOk(e)' /\ AgreeOk(Peer(e))',
           Under(e)' \subseteq Under(e),
           NEW M \in SUBSET Packets, Under(Peer(e))' \subseteq Under(Peer(e)) \cup M,
           \A m \in M : NetOk(Peer(e), m)'
    PROVE  Good'
<1> DEFINE p == Peer(e)
<1>1. p \in Ends /\ Peer(p) = e BY Peers
<1>2. /\ ~over[e] /\ over' = over /\ next' = next /\ now' = now /\ key'[p] = key[p]
      /\ P(e)'.serial = P(e).serial
  BY DEF InPlace
<1>3. Later(e) BY <1>2 DEF Later
<1>4. Settled(e) => Settled(e)' BY <1>2 DEF Settled
<1>5. Steady(e) BY <1>2, <1>4 DEF Steady
<1>6. EndOk(e) /\ EndOk(p) BY <1>1 DEF Good
<1>7. NextOk(e)' BY <1>2, <1>6 DEF EndOk, NextOk
<1>8. P(p)' = P(p) /\ (Settled(p)' <=> Settled(p)) BY <1>2 DEF P, Settled
<1>9. ~over[p] => BothOk(e)' /\ BothOk(p)'
  <2>1. ~over[p] => AheadOk(e) /\ AheadOk(p) BY <1>1, <1>2, <1>6 DEF EndOk, BothOk
  <2>2. ~over[p] => AheadOk(e)' BY <1>2, <1>4, <1>8, <2>1 DEF AheadOk
  <2>3. AheadOk(p) => AheadOk(p)'
    <3> HIDE DEF p
    <3>1. QED BY <1>1, <1>2, <1>8 DEF AheadOk
  <2>4. QED BY <2>1, <2>2, <2>3 DEF BothOk
<1> HIDE DEF p
<1>10. QED BY <1>2, <1>3, <1>5, <1>7, <1>9, EndStep DEF p

\* An end that keeps its key keeps its number.
LEMMA SerialKept ==
    ASSUME TypeOK, TypeOK', NEW e \in Ends, InPlace(e), SerialOk(e),
           P(e).serial > 0, P(e)'.state >= S_INITIAL
    PROVE  SerialOk(e)'
<1>1. /\ next' = next /\ now' = now /\ L(e)' = L(e)
      /\ P(e)'.serial = P(e).serial /\ P(e)'.key_id = P(e).key_id
  BY DEF InPlace
<1>2. P(e).serial # 0 BY Numbers
<1>3. QED BY <1>1, <1>2 DEF SerialOk

\* A step within the handshake that leaves the clocks of the key alone.
LEMMA ClockKept ==
    ASSUME TypeOK, NEW e \in Ends, InPlace(e), ClockOk(e),
           P(e)'.must_negotiate = P(e).must_negotiate, P(e)'.deferred = P(e).deferred,
           P(e)'.established = P(e).established,
           P(e)'.state = P(e).state \/ (P(e).state \in Handshake /\ P(e)'.state \in Handshake)
    PROVE  ClockOk(e)'
<1>1. now' = now /\ L(e)' = L(e) /\ P(e)'.serial = P(e).serial BY DEF InPlace
<1>2. CASE P(e)'.state = P(e).state BY <1>1, <1>2 DEF ClockOk
<1>3. CASE P(e).state \in Handshake /\ P(e)'.state \in Handshake
  <2>1. P(e).state # S_ACTIVE /\ P(e)'.state # S_ACTIVE /\ P(e)'.state # S_INITIAL
        /\ P(e).state > S_INITIAL /\ P(e)'.state > S_INITIAL
    BY <1>3, Levels
  <2>2. QED BY <1>1, <1>3, <2>1 DEF ClockOk
<1>4. QED BY <1>2, <1>3

\* What is heard and sent next is matched by the peer.
LEMMA PairStep ==
    ASSUME TypeOK, NEW e \in Ends, InPlace(e), PairOk(e), NEW n \in Nat, n = P(e).serial,
           n > 0,
           \A pid \in P(e)'.rec : pid \in P(e).rec \/ Told(Peer(e), n, pid),
           \A pid \in {0, 1} \ P(e)'.send : HasSent(e, pid, P(e)'.state) =>
               \/ pid \notin P(e).send /\ HasSent(e, pid, P(e).state)
               \/ Heard(Peer(e), n, pid)
    PROVE  PairOk(e)'
<1> DEFINE p == Peer(e)
<1>1. over' = over /\ key'[p] = key[p] /\ P(e)'.serial = n BY DEF InPlace
<1>2. P(p)' = P(p) BY <1>1 DEF P
<1> HIDE DEF p
<1>3. \A pid : /\ Told(p, n, pid) => Told(p, P(e).serial, pid)'
               /\ Heard(p, n, pid) => Heard(p, P(e).serial, pid)'
  BY <1>1, <1>2 DEF Told, Heard, Beyond
<1>4. /\ \A pid \in P(e).rec : Told(p, n, pid)
      /\ \A pid \in {0, 1} \ P(e).send : HasSent(e, pid, P(e).state) => Heard(p, n, pid)
  BY DEF PairOk, p
<1>5. \A pid \in P(e)'.rec : Told(p, n, pid) BY <1>4 DEF p
<1>6. \A pid \in {0, 1} \ P(e)'.send : HasSent(e, pid, P(e)'.state) => Heard(p, n, pid)
  BY <1>4 DEF p
<1>7. /\ \A pid \in P(e)'.rec : Told(p, P(e).serial, pid)'
      /\ \A pid \in {0, 1} \ P(e)'.send :
            HasSent(e, pid, P(e)'.state) => Heard(p, P(e).serial, pid)'
  BY <1>3, <1>5, <1>6
<1>8. QED BY <1>7 DEF PairOk, p

\* A step that does not make a key active leaves the two ends agreed.
LEMMA AgreeKept ==
    ASSUME TypeOK, NEW e \in Ends, InPlace(e), AgreeOk(e), AgreeOk(Peer(e)),
           P(e)'.state = S_ACTIVE =>
              /\ P(e).state = S_ACTIVE /\ P(e)'.established = P(e).established
              /\ P(e)'.deferred = P(e).deferred,
           P(e).state >= S_SENT_KEY =>
              /\ P(e)'.state >= S_SENT_KEY /\ P(e)'.deferred = P(e).deferred
              /\ e = "client" /\ P(e)'.state = S_SENT_KEY => P(e).state = S_SENT_KEY
    PROVE  AgreeOk(e)' /\ AgreeOk(Peer(e))'
<1> DEFINE p == Peer(e)
<1>1. now' = now /\ P(e)'.serial = P(e).serial BY DEF InPlace
<1>2. P(p)' = P(p) BY DEF InPlace, P
<1>3. Peer(p) = e BY Peers
<1>4. AgreeOk(e)' BY <1>1, <1>2 DEF AgreeOk
<1>5. p = "server" => e = "client" BY Peers
<1> HIDE DEF p
<1>6. AgreeOk(p)' BY <1>1, <1>2, <1>3, <1>5 DEF AgreeOk, p
<1>7. QED BY <1>4, <1>6 DEF p

\* A packet of the current key that an end sends.
LEMMA NewPacket ==
    ASSUME TypeOK, TypeOK', Good, NEW e \in Ends, InPlace(e), P(e).serial > 0,
           NEW op \in {"SOFT_RESET", "CONTROL", "ACK"}, NEW pid \in {0, 1},
           op = "SOFT_RESET" => pid = 0, op # "ACK" => HasSent(e, pid, P(e)'.state),
           P(e)'.rec = P(e).rec
    PROVE  /\ {Packet(P(e), op, pid)} \in SUBSET Packets
           /\ \A m \in {Packet(P(e), op, pid)} : NetOk(Peer(e), m)'
<1> DEFINE p == Peer(e)
<1>1. p \in Ends /\ Peer(p) = e BY Peers
<1>2. Packet(P(e), op, pid) \in Packets BY Typed, Fields DEF Packet, Packets
<1>3. PICK m \in Packets : m = Packet(P(e), op, pid) BY <1>2
<1>4. /\ m.op = op /\ m.pid = pid /\ m.serial = P(e).serial /\ m.acks = P(e).ack
  BY <1>3 DEF Packet
<1>5. /\ ~over[e] /\ over' = over /\ next' = next /\ now' = now /\ key'[p] = key[p]
      /\ P(e)'.serial = P(e).serial
  BY DEF InPlace
<1>6. m.op # "ACK" => Told(e, m.serial, m.pid)' BY <1>4, <1>5 DEF Told
<1>7. P(e).ack \subseteq P(e).rec BY <1>5 DEF Good, EndOk, AloneOk, DialogOk
<1>8. \A a \in m.acks : Heard(e, m.serial, a)' BY <1>4, <1>5, <1>7 DEF Heard
<1>9. ~over[p] => /\ m.serial <= next[p].serial
                  /\ m.serial = next[p].serial => Settled(p)'
  <2>1. SUFFICES ASSUME ~over[p] PROVE /\ m.serial <= next[p].serial
                                       /\ m.serial = next[p].serial => Settled(p)
    <3>1. Settled(p)' <=> Settled(p) BY <1>5 DEF Settled, P
    <3>2. QED BY <3>1
  <2>2. SerialOk(p) /\ AheadOk(p)
    BY <1>1, <1>5, <2>1 DEF Good, EndOk, AloneOk, BothOk
  <2>3. P(p).serial + 1 = next[p].serial BY <2>2 DEF SerialOk
  <2>4. P(e).serial <= P(p).serial + 1 /\ (P(e).serial = P(p).serial + 1 => Settled(p))
    BY <1>1, <2>2 DEF AheadOk
  <2>5. QED BY <1>4, <2>3, <2>4
<1> HIDE DEF p
<1>10. NetOk(p, m)' BY <1>1, <1>4, <1>5, <1>6, <1>8, <1>9 DEF NetOk
<1>11. QED BY <1>2, <1>3, <1>10 DEF p

\* What is known of an end whose session lasts, with its peer's view.
LEMMA Unfold ==
    ASSUME Good, NEW e \in Ends, ~over[e]
    PROVE  /\ NextOk(e) /\ SerialOk(e) /\ ClockOk(e) /\ DialogOk(e) /\ PairOk(e)
           /\ ~over[Peer(e)] => /\ AheadOk(e) /\ AheadOk(Peer(e))
                                /\ AgreeOk(e) /\ AgreeOk(Peer(e))
BY Peers DEF Good, EndOk, AloneOk, BothOk

\* A key that is not active is not the first.
LEMMA NotFirst ==
    ASSUME TypeOK, Good, NEW e \in Ends, ~over[e],
           P(e).state # S_ACTIVE \/ P(e).send # {} \/ P(e).ack # {}
    PROVE  P(e).serial > 0
<1>1. SerialOk(e) BY Unfold
<1>2. P(e).serial \in Nat BY Numbers
<1>3. QED BY <1>1, <1>2 DEF SerialOk

\* S_INITIAL.
LEMMA NegotiateGood ==
    ASSUME TypeOK, Good, NEW e \in Ends, Negotiate(e)
    PROVE  TypeOK' /\ Good'
<1>1. /\ TypeOK' /\ InPlace(e) /\ P(e).state = S_INITIAL /\ P(e)'.state = S_PRE_START
      /\ P(e)'.must_negotiate = now + HandshakeWindow
      /\ P(e)'.deferred = now + HandshakeWindow
      /\ P(e)'.established = P(e).established
      /\ P(e)'.send = {0} /\ P(e)'.rec = P(e).rec /\ P(e)'.ack = {}
      /\ Under(e)' = Under(e)
      /\ Under(Peer(e))' \subseteq Under(Peer(e)) \cup {Packet(P(e), "SOFT_RESET", 0)}
  BY NegotiateEffect
<1>2. ~over[e] /\ now' = now /\ L(e)' = L(e) /\ P(e)'.serial = P(e).serial BY <1>1 DEF InPlace
<1>3. /\ SerialOk(e) /\ ClockOk(e) /\ DialogOk(e) /\ PairOk(e)
      /\ ~over[Peer(e)] => AgreeOk(e) /\ AgreeOk(Peer(e))
  BY <1>2, Unfold
<1>4. P(e).serial > 0 BY <1>1, <1>2, NotFirst, Levels
<1>5. \A pid \in {0, 1} : ~HasSent(e, pid, P(e).state) BY <1>1, Levels DEF HasSent
<1>6. HasSent(e, 0, P(e)'.state) /\ ~HasSent(e, 1, P(e)'.state) /\ ~HasGot(e, P(e)'.state)
  BY <1>1, Levels DEF HasSent, HasGot
<1>7. SerialOk(e)' BY <1>1, <1>3, <1>4, SerialKept, Levels
<1>8. ClockOk(e)'
  <2>1. /\ now \in Nat /\ HandshakeWindow \in Nat /\ TransitionWindow \in Nat
        /\ TransitionWindow >= 2 * HandshakeWindow /\ L(e).must_die \in Nat
    BY Numbers, Constants
  <2>2. L(e).state = S_UNDEF \/ L(e).state = S_ACTIVE BY <1>3 DEF SerialOk
  <2>3. L(e).state = S_ACTIVE BY <1>1, <1>3, <1>4, <2>2, Levels DEF ClockOk
  <2>4. L(e).must_die >= now + TransitionWindow BY <1>1, <1>3, <2>3 DEF ClockOk
  <2>5. QED BY <1>1, <1>2, <2>1, <2>3, <2>4, Levels DEF ClockOk
<1>9. DialogOk(e)' BY <1>1, <1>2, <1>4, <1>6, Levels DEF DialogOk
<1>10. PairOk(e)'
  <2>1. P(e).serial \in Nat BY Numbers
  <2>2. \A pid \in {0, 1} \ P(e)'.send : ~HasSent(e, pid, P(e)'.state) BY <1>1, <1>6
  <2>3. QED BY <1>1, <1>3, <1>4, <2>1, <2>2, PairStep
<1>11. ~over[Peer(e)] => AgreeOk(e)' /\ AgreeOk(Peer(e))'
  BY <1>1, <1>3, AgreeKept, Levels
<1>12. /\ {Packet(P(e), "SOFT_RESET", 0)} \in SUBSET Packets
       /\ \A m \in {Packet(P(e), "SOFT_RESET", 0)} : NetOk(Peer(e), m)'
  BY <1>1, <1>4, <1>6, NewPacket
<1>13. AloneOk(e)' BY <1>7, <1>8, <1>9 DEF AloneOk
<1>14. P(e).state # S_ACTIVE BY <1>1, Levels
<1>15. Good' BY <1>1, <1>5, <1>10, <1>11, <1>12, <1>13, <1>14, InPlaceStep
<1>16. QED BY <1>1, <1>15

\* The stages of a handshake that change its state only.
LEMMA StageGood ==
    ASSUME TypeOK, Good, NEW e \in Ends, TypeOK', InPlace(e),
           P(e).state \in Handshake, P(e)'.state \in Handshake,
           P(e)'.must_negotiate = P(e).must_negotiate, P(e)'.deferred = P(e).deferred,
           P(e)'.established = P(e).established,
           P(e)'.send = P(e).send, P(e)'.rec = P(e).rec, P(e)'.ack = P(e).ack,
           Under(e)' = Under(e), Under(Peer(e))' = Under(Peer(e)),
           HasGot(e, P(e)'.state) => P(e).rec = {0, 1},
           \A pid \in {0, 1} : HasSent(e, pid, P(e)'.state) <=> HasSent(e, pid, P(e).state),
           P(e).state >= S_SENT_KEY => P(e)'.state >= S_SENT_KEY,
           e = "client" /\ P(e)'.state = S_SENT_KEY => P(e).state = S_SENT_KEY
    PROVE  Good'
<1>1. ~over[e] /\ now' = now /\ L(e)' = L(e) /\ P(e)'.serial = P(e).serial BY DEF InPlace
<1>2. /\ SerialOk(e) /\ ClockOk(e) /\ DialogOk(e) /\ PairOk(e)
      /\ ~over[Peer(e)] => AgreeOk(e) /\ AgreeOk(Peer(e))
  BY <1>1, Unfold
<1>3. P(e).state # S_ACTIVE /\ P(e)'.state # S_ACTIVE /\ P(e)'.state >= S_INITIAL BY Levels
<1>4. P(e).serial > 0 BY <1>1, <1>3, NotFirst
<1>5. SerialOk(e)' BY <1>2, <1>3, <1>4, SerialKept
<1>6. ClockOk(e)' BY <1>2, ClockKept
<1>7. DialogOk(e)'
  <2>1. P(e).send \subseteq {0, 1} BY Numbers
  <2>2. P(e).ack \subseteq P(e).rec /\ \A pid \in P(e).send : HasSent(e, pid, P(e).state)
    BY <1>2, <1>4 DEF DialogOk
  <2>3. QED BY <1>3, <2>1, <2>2 DEF DialogOk
<1>8. PairOk(e)'
  <2>1. P(e).serial \in Nat BY Numbers
  <2>2. QED BY <1>2, <1>4, <2>1, PairStep
<1>9. ~over[Peer(e)] => AgreeOk(e)' /\ AgreeOk(Peer(e))' BY <1>2, <1>3, AgreeKept
<1>10. AloneOk(e)' BY <1>5, <1>6, <1>7 DEF AloneOk
<1>11. {} \in SUBSET Packets /\ \A m \in {} : NetOk(Peer(e), m)' OBVIOUS
<1>12. QED BY <1>3, <1>8, <1>9, <1>10, <1>11, InPlaceStep

\* S_PRE_START to S_START.
LEMMA StartGood ==
    ASSUME TypeOK, Good, NEW e \in Ends, Start(e)
    PROVE  TypeOK' /\ Good'
<1>1. /\ ~over[e] /\ P(e).state = S_PRE_START
      /\ SetPrimary(e, [key[e].primary EXCEPT !.state = S_START])
  BY DEF Start, StartStage, Stage, Processing, P
<1>2. S_START \in 0 .. 6 BY Levels
<1>3. /\ TypeOK' /\ InPlace(e) /\ P(e)'.state = S_START
      /\ P(e)'.must_negotiate = P(e).must_negotiate /\ P(e)'.deferred = P(e).deferred
      /\ P(e)'.established = P(e).established
      /\ P(e)'.send = P(e).send /\ P(e)'.rec = P(e).rec /\ P(e)'.ack = P(e).ack
      /\ Under(e)' = Under(e) /\ Under(Peer(e))' = Under(Peer(e))
  BY <1>1, <1>2, StateEffect
<1>4. /\ ~HasGot(e, P(e)'.state)
      /\ \A pid \in {0, 1} : HasSent(e, pid, P(e)'.state) <=> HasSent(e, pid, P(e).state)
  BY <1>1, <1>3, Levels DEF HasGot, HasSent
<1>5. /\ P(e).state \in Handshake /\ P(e)'.state \in Handshake
      /\ ~(P(e).state >= S_SENT_KEY) /\ P(e)'.state # S_SENT_KEY
  BY <1>1, <1>3, Levels
<1>6. QED BY <1>3, <1>4, <1>5, StageGood

\* The peer's key message is read.
LEMMA GetKeyGood ==
    ASSUME TypeOK, Good, NEW e \in Ends, GetKey(e)
    PROVE  TypeOK' /\ Good'
<1>1. /\ ~over[e] /\ P(e).state = (IF e = "server" THEN S_START ELSE S_SENT_KEY)
      /\ P(e).rec = {0, 1}
      /\ SetPrimary(e, [key[e].primary EXCEPT !.state = S_GOT_KEY])
  BY DEF GetKey, GetKeyStage, Stage, Processing, P
<1>2. S_GOT_KEY \in 0 .. 6 BY Levels
<1>3. /\ TypeOK' /\ InPlace(e) /\ P(e)'.state = S_GOT_KEY
      /\ P(e)'.must_negotiate = P(e).must_negotiate /\ P(e)'.deferred = P(e).deferred
      /\ P(e)'.established = P(e).established
      /\ P(e)'.send = P(e).send /\ P(e)'.rec = P(e).rec /\ P(e)'.ack = P(e).ack
      /\ Under(e)' = Under(e) /\ Under(Peer(e))' = Under(Peer(e))
  BY <1>1, <1>2, StateEffect
<1>4. e = "server" \/ e = "client" BY DEF Ends
<1>5. \A pid \in {0, 1} : HasSent(e, pid, P(e)'.state) <=> HasSent(e, pid, P(e).state)
  BY <1>1, <1>3, <1>4, Levels DEF HasSent
<1>6. /\ P(e).state \in Handshake /\ P(e)'.state \in Handshake
      /\ P(e)'.state >= S_SENT_KEY /\ P(e)'.state # S_SENT_KEY
  BY <1>1, <1>3, Levels
<1>7. QED BY <1>1, <1>3, <1>5, <1>6, StageGood

\* The key message is sent.
LEMMA SendKeyGood ==
    ASSUME TypeOK, Good, NEW e \in Ends, SendKey(e)
    PROVE  TypeOK' /\ Good'
<1>1. /\ TypeOK' /\ InPlace(e)
      /\ P(e).state = IF e = "server" THEN S_GOT_KEY ELSE S_START
      /\ P(e)'.state = S_SENT_KEY
      /\ P(e)'.send = P(e).send \cup {1} /\ P(e)'.rec = P(e).rec /\ P(e)'.ack = {}
      /\ P(e)'.must_negotiate = P(e).must_negotiate /\ P(e)'.deferred = P(e).deferred
      /\ P(e)'.established = P(e).established
      /\ Under(e)' = Under(e)
      /\ Under(Peer(e))' \subseteq Under(Peer(e)) \cup {Packet(P(e), "CONTROL", 1)}
  BY SendKeyEffect
<1>2. ~over[e] /\ now' = now /\ L(e)' = L(e) /\ P(e)'.serial = P(e).serial BY <1>1 DEF InPlace
<1>3. /\ SerialOk(e) /\ ClockOk(e) /\ DialogOk(e) /\ PairOk(e)
      /\ ~over[Peer(e)] => AgreeOk(e) /\ AgreeOk(Peer(e))
  BY <1>2, Unfold
<1>4. /\ P(e).state # S_ACTIVE /\ P(e)'.state # S_ACTIVE /\ P(e)'.state >= S_INITIAL
      /\ P(e).state \in Handshake /\ P(e)'.state \in Handshake
  BY <1>1, Levels
<1>5. P(e).serial > 0 BY <1>2, <1>4, NotFirst
<1>6. e = "server" \/ e = "client" BY DEF Ends
<1>7. /\ \A pid \in {0, 1} : HasSent(e, pid, P(e)'.state)
      /\ HasSent(e, 0, P(e).state) /\ ~HasSent(e, 1, P(e).state)
      /\ HasGot(e, P(e)'.state) => HasGot(e, P(e).state)
  BY <1>1, <1>6, Levels DEF HasSent, HasGot
<1>8. SerialOk(e)' BY <1>1, <1>3, <1>4, <1>5, SerialKept
<1>9. ClockOk(e)' BY <1>1, <1>3, <1>4, ClockKept
<1>10. DialogOk(e)'
  <2>1. P(e).send \subseteq {0, 1} BY Numbers
  <2>2. HasGot(e, P(e).state) => P(e).rec = {0, 1} BY <1>3, <1>5 DEF DialogOk
  <2>3. QED BY <1>1, <1>4, <1>7, <2>1, <2>2 DEF DialogOk
<1>11. PairOk(e)'
  <2>1. P(e).serial \in Nat BY Numbers
  <2>2. \A pid \in {0, 1} \ P(e)'.send : pid \notin P(e).send /\ HasSent(e, pid, P(e).state)
    BY <1>1, <1>7
  <2>3. QED BY <1>1, <1>3, <1>5, <2>1, <2>2, PairStep
<1>12. ~over[Peer(e)] => AgreeOk(e)' /\ AgreeOk(Peer(e))'
  <2>1. e = "client" => ~(P(e).state >= S_SENT_KEY) BY <1>1, Levels
  <2>2. P(e)'.state >= S_SENT_KEY BY <1>1, Levels
  <2>3. QED BY <1>1, <1>3, <1>4, <2>1, <2>2, AgreeKept
<1>13. /\ {Packet(P(e), "CONTROL", 1)} \in SUBSET Packets
       /\ \A m \in {Packet(P(e), "CONTROL", 1)} : NetOk(Peer(e), m)'
  BY <1>1, <1>5, <1>7, NewPacket
<1>14. AloneOk(e)' BY <1>8, <1>9, <1>10 DEF AloneOk
<1>15. Good' BY <1>1, <1>4, <1>7, <1>11, <1>12, <1>13, <1>14, InPlaceStep
<1>16. QED BY <1>1, <1>15

\* Everything is acknowledged: the key becomes active.
LEMMA ActivateGood ==
    ASSUME TypeOK, Good, NEW e \in Ends, Activate(e)
    PROVE  TypeOK' /\ Good'
<1> DEFINE p == Peer(e)
<1>0. p \in Ends /\ Peer(p) = e /\ (e = "server" <=> p = "client") /\ (e = "server" \/ e = "client")
  BY Peers
<1>1. /\ TypeOK' /\ InPlace(e)
      /\ P(e).state = IF e = "server" THEN S_SENT_KEY ELSE S_GOT_KEY
      /\ ~TimedOut(P(e)) /\ P(e).send = {}
      /\ P(e)'.state = S_ACTIVE /\ P(e)'.established = now
      /\ P(e)'.deferred = P(e).deferred
      /\ P(e)'.send = P(e).send /\ P(e)'.rec = P(e).rec /\ P(e)'.ack = P(e).ack
      /\ Under(e)' = Under(e) /\ Under(Peer(e))' = Under(Peer(e))
  BY ActivateEffect
<1>2. /\ ~over[e] /\ over' = over /\ now' = now /\ L(e)' = L(e) /\ P(e)'.serial = P(e).serial
      /\ P(p)' = P(p)
  BY <1>1 DEF InPlace, P
<1>3. /\ SerialOk(e) /\ ClockOk(e) /\ DialogOk(e) /\ PairOk(e)
      /\ ~over[p] => AgreeOk(e) /\ AgreeOk(p)
  BY <1>2, Unfold
<1>4. P(e).state # S_ACTIVE /\ P(e).state \in Handshake /\ P(e)'.state >= S_INITIAL
  BY <1>1, Levels
<1>5. P(e).serial > 0 BY <1>2, <1>4, NotFirst
<1>6. /\ HasGot(e, P(e).state) /\ \A pid \in {0, 1} : HasSent(e, pid, P(e).state)
      /\ \A pid \in {0, 1} : HasSent(e, pid, P(e)'.state)
  BY <1>0, <1>1, Levels DEF HasSent, HasGot
<1>7. P(e).rec = {0, 1} BY <1>3, <1>5, <1>6 DEF DialogOk
<1>8. now < P(e).deferred /\ P(e).deferred <= now + HandshakeWindow
  <2>1. now \in Nat /\ P(e).must_negotiate \in Nat BY Numbers
  <2>2. now < P(e).must_negotiate BY <1>1, <1>4, <2>1 DEF TimedOut, Handshake
  <2>3. QED BY <1>3, <1>4, <2>2 DEF ClockOk
<1>9. SerialOk(e)' BY <1>1, <1>3, <1>4, <1>5, SerialKept
<1>10. ClockOk(e)'
  <2>1. L(e).state = S_UNDEF \/ L(e).state = S_ACTIVE BY <1>3 DEF SerialOk
  <2>2. L(e).state = S_ACTIVE BY <1>3, <1>4, <1>5, <2>1 DEF ClockOk
  <2>3. L(e).must_die >= P(e).deferred + HandshakeWindow
    BY <1>1, <1>3, <2>2, Levels DEF ClockOk
  <2>4. P(e)'.state \notin Handshake /\ P(e)'.state # S_INITIAL BY <1>1, Levels
  <2>5. L(e).state # S_UNDEF BY <2>2, Levels
  <2>6. QED BY <1>1, <1>2, <1>8, <2>2, <2>3, <2>4, <2>5 DEF ClockOk
<1>11. DialogOk(e)'
  <2>1. P(e).ack \subseteq {0, 1} BY Numbers
  <2>2. QED BY <1>1, <1>7, <2>1 DEF DialogOk
<1>12. PairOk(e)'
  <2>1. P(e).serial \in Nat BY Numbers
  <2>2. QED BY <1>1, <1>3, <1>5, <1>6, <2>1, PairStep
<1>13. ~over[p] => AgreeOk(e)'
  <2>1. SUFFICES ASSUME ~over[p], P(e).serial = P(p).serial
                 PROVE  /\ P(p).deferred <= now + HandshakeWindow
                        /\ P(p).state >= S_SENT_KEY
                        /\ now < P(e).deferred
    BY <1>1, <1>2 DEF AgreeOk
  <2>2. Told(p, P(e).serial, 1) BY <1>3, <1>5, <1>7 DEF PairOk
  <2>3. P(e).serial \in Nat BY Numbers
  <2>4. HasSent(p, 1, P(p).state) BY <2>1, <2>2, <2>3 DEF Told, Beyond
  <2>5. P(p).state = S_SENT_KEY \/ P(p).state = S_ACTIVE \/ P(p).state = S_GOT_KEY
    BY <2>4 DEF HasSent
  <2>6. P(p).state >= S_SENT_KEY /\ (P(p).state \in Handshake \/ P(p).state = S_ACTIVE)
    BY <2>5, Levels
  <2>7. ClockOk(p) BY <1>0, <2>1, Unfold
  <2>8. P(p).deferred <= now + HandshakeWindow BY <2>6, <2>7 DEF ClockOk
  <2>9. QED BY <1>8, <2>6, <2>8
<1>14. ~over[p] => AgreeOk(p)'
  <2>1. P(e)'.state >= S_SENT_KEY /\ P(e)'.state # S_SENT_KEY BY <1>1, Levels
  <2>2. AgreeOk(p) => AgreeOk(p)'
    <3> HIDE DEF p
    <3>1. QED BY <1>0, <1>1, <1>2, <2>1 DEF AgreeOk
  <2>3. QED BY <1>3, <2>2
<1>15. AloneOk(e)' BY <1>9, <1>10, <1>11 DEF AloneOk
<1>16. {} \in SUBSET Packets /\ \A m \in {} : NetOk(Peer(e), m)' OBVIOUS
<1>17. Good' BY <1>1, <1>4, <1>6, <1>12, <1>13, <1>14, <1>15, <1>16, InPlaceStep
<1>18. QED BY <1>1, <1>17

\* Steps that leave the state of the key and its clocks alone.
LEMMA StillGood ==
    ASSUME TypeOK, Good, NEW e \in Ends, TypeOK', InPlace(e), P(e).serial > 0,
           P(e)'.state = P(e).state,
           P(e)'.must_negotiate = P(e).must_negotiate, P(e)'.deferred = P(e).deferred,
           P(e)'.established = P(e).established,
           P(e)'.send \subseteq P(e).send, P(e).rec \subseteq P(e)'.rec,
           P(e)'.ack \subseteq P(e)'.rec,
           \A pid \in P(e)'.rec : pid \in P(e).rec \/ Told(Peer(e), P(e).serial, pid),
           \A pid \in P(e).send : pid \in P(e)'.send \/ Heard(Peer(e), P(e).serial, pid),
           Under(e)' \subseteq Under(e),
           NEW M \in SUBSET Packets, Under(Peer(e))' \subseteq Under(Peer(e)) \cup M,
           \A m \in M : NetOk(Peer(e), m)'
    PROVE  Good'
<1>1. ~over[e] /\ now' = now /\ L(e)' = L(e) /\ P(e)'.serial = P(e).serial BY DEF InPlace
<1>2. /\ SerialOk(e) /\ ClockOk(e) /\ DialogOk(e) /\ PairOk(e)
      /\ ~over[Peer(e)] => AgreeOk(e) /\ AgreeOk(Peer(e))
  BY <1>1, Unfold
<1>3. SerialOk(e)'
  <2>1. P(e)'.state >= S_INITIAL BY <1>2 DEF SerialOk
  <2>2. QED BY <1>2, <2>1, SerialKept
<1>4. ClockOk(e)' BY <1>2, ClockKept
<1>5. DialogOk(e)'
  <2>1. P(e)'.rec \subseteq {0, 1} BY NumbersNext
  <2>2. /\ HasGot(e, P(e).state) => P(e).rec = {0, 1}
        /\ P(e).state = S_ACTIVE => P(e).send = {}
        /\ \A pid \in P(e).send : HasSent(e, pid, P(e).state)
    BY <1>2 DEF DialogOk
  <2>3. QED BY <2>1, <2>2 DEF DialogOk
<1>6. PairOk(e)'
  <2>1. P(e).serial \in Nat BY Numbers
  <2>2. QED BY <1>2, <2>1, PairStep
<1>7. ~over[Peer(e)] => AgreeOk(e)' /\ AgreeOk(Peer(e))' BY <1>2, AgreeKept
<1>8. AloneOk(e)' BY <1>3, <1>4, <1>5 DEF AloneOk
<1>9. QED BY <1>6, <1>7, <1>8, InPlaceStep

\* A control packet is sent again.
LEMMA TransmitGood ==
    ASSUME TypeOK, Good, NEW e \in Ends, Transmit(e)
    PROVE  TypeOK' /\ Good'
<1>1. PICK pid \in key[e].primary.send :
         Sent(e, key[e].primary, IF pid = 0 THEN "SOFT_RESET" ELSE "CONTROL", pid)
  BY DEF Transmit
<1>2. ~over[e] BY DEF Transmit, Processing
<1>3. pid \in P(e).send /\ pid \in {0, 1}
  <2>1. pid \in P(e).send BY DEF P
  <2>2. QED BY <2>1, Numbers
<1>4. PICK op \in {"SOFT_RESET", "CONTROL"} :
         /\ op = IF pid = 0 THEN "SOFT_RESET" ELSE "CONTROL"
         /\ Sent(e, key[e].primary, op, pid)
  BY <1>1
<1>5. op \in {"SOFT_RESET", "CONTROL", "ACK"} /\ (op = "SOFT_RESET" => pid = 0) BY <1>4
<1>6. /\ TypeOK' /\ InPlace(e) /\ P(e)'.state = P(e).state
      /\ P(e)'.send = P(e).send /\ P(e)'.rec = P(e).rec /\ P(e)'.ack = {}
      /\ P(e)'.must_negotiate = P(e).must_negotiate /\ P(e)'.deferred = P(e).deferred
      /\ P(e)'.established = P(e).established
      /\ Under(e)' = Under(e)
      /\ Under(Peer(e))' \subseteq Under(Peer(e)) \cup {Packet(P(e), op, pid)}
  BY <1>2, <1>3, <1>4, <1>5, ResentEffect
<1>7. P(e).serial > 0 BY <1>2, <1>3, NotFirst
<1>8. HasSent(e, pid, P(e)'.state)
  <2>1. DialogOk(e) BY <1>2, Unfold
  <2>2. QED BY <1>3, <1>6, <1>7, <2>1 DEF DialogOk
<1>9. /\ {Packet(P(e), op, pid)} \in SUBSET Packets
      /\ \A m \in {Packet(P(e), op, pid)} : NetOk(Peer(e), m)'
  BY <1>3, <1>5, <1>6, <1>7, <1>8, NewPacket
<1>10. Good' BY <1>6, <1>7, <1>9, StillGood
<1>11. QED BY <1>6, <1>10

\* An acknowledgement is sent on its own.
LEMMA WriteAckGood ==
    ASSUME TypeOK, Good, NEW e \in Ends, WriteAck(e)
    PROVE  TypeOK' /\ Good'
<1>1. ~over[e] /\ P(e).ack # {} /\ Sent(e, key[e].primary, "ACK", 0)
  BY DEF WriteAck, Processing, P
<1>2. /\ TypeOK' /\ InPlace(e) /\ P(e)'.state = P(e).state
      /\ P(e)'.send = P(e).send /\ P(e)'.rec = P(e).rec /\ P(e)'.ack = {}
      /\ P(e)'.must_negotiate = P(e).must_negotiate /\ P(e)'.deferred = P(e).deferred
      /\ P(e)'.established = P(e).established
      /\ Under(e)' = Under(e)
      /\ Under(Peer(e))' \subseteq Under(Peer(e)) \cup {Packet(P(e), "ACK", 0)}
  BY <1>1, ResentEffect
<1>3. P(e).serial > 0 BY <1>1, NotFirst
<1>4. /\ {Packet(P(e), "ACK", 0)} \in SUBSET Packets
      /\ \A m \in {Packet(P(e), "ACK", 0)} : NetOk(Peer(e), m)'
  BY <1>2, <1>3, NewPacket
<1>5. Good' BY <1>2, <1>3, <1>4, StillGood
<1>6. QED BY <1>2, <1>5

\* A packet of the current key is received.  Here the packet has to be of the
\* key whose id it names.
LEMMA ArrivedGood ==
    ASSUME TypeOK, Good, NoStale, NEW e \in Ends, TypeOK', InPlace(e),
           NEW m \in Under(e), P(e)' = Arrived(P(e), m), m.key_id = P(e).key_id,
           Under(e)' \subseteq Under(e), Under(Peer(e))' = Under(Peer(e))
    PROVE  Good'
<1>1. ~over[e] BY DEF InPlace
<1>2. m.serial = P(e).serial BY <1>1 DEF NoStale
<1>3. NetOk(e, m) BY DEF Good, EndOk
<1>4. m \in Packets /\ P(e) \in KeyStates BY Typed
<1>5. /\ P(e)'.state = P(e).state
      /\ P(e)'.must_negotiate = P(e).must_negotiate /\ P(e)'.deferred = P(e).deferred
      /\ P(e)'.established = P(e).established
      /\ P(e)'.send = P(e).send \ m.acks
      /\ P(e)'.rec = IF m.op = "ACK" THEN P(e).rec ELSE P(e).rec \cup {m.pid}
      /\ P(e)'.ack = IF m.op = "ACK" THEN P(e).ack ELSE P(e).ack \cup {m.pid}
  <2> DEFINE a == Arrived(P(e), m)
  <2>1. /\ a.state = P(e).state
        /\ a.must_negotiate = P(e).must_negotiate /\ a.deferred = P(e).deferred
        /\ a.established = P(e).established
        /\ a.send = P(e).send \ m.acks
        /\ a.rec = IF m.op = "ACK" THEN P(e).rec ELSE P(e).rec \cup {m.pid}
        /\ a.ack = IF m.op = "ACK" THEN P(e).ack ELSE P(e).ack \cup {m.pid}
    BY <1>4, ArrivedFields
  <2> HIDE DEF a
  <2>2. P(e)' = a BY DEF a
  <2>3. QED BY <2>1, <2>2
<1>6. /\ P(e).serial > 0
      /\ \A a \in m.acks : Heard(Peer(e), P(e).serial, a)
  BY <1>2, <1>3 DEF NetOk
<1>7. P(e).serial > 0 BY <1>2, <1>3 DEF NetOk
<1>8. m.op # "ACK" => Told(Peer(e), P(e).serial, m.pid) BY <1>2, <1>3 DEF NetOk
<1>9. P(e).ack \subseteq P(e).rec
  <2>1. DialogOk(e) BY <1>1, Unfold
  <2>2. QED BY <1>7, <2>1 DEF DialogOk
<1>10. \A pid \in P(e)'.rec : pid \in P(e).rec \/ Told(Peer(e), P(e).serial, pid)
  BY <1>5, <1>8
<1>11. \A pid \in P(e).send : pid \in P(e)'.send \/ Heard(Peer(e), P(e).serial, pid)
  BY <1>5, <1>6
<1>12. P(e).rec \subseteq P(e)'.rec /\ P(e)'.ack \subseteq P(e)'.rec BY <1>5, <1>9
<1>13. P(e)'.send \subseteq P(e).send BY <1>5
<1>14. {} \in SUBSET Packets /\ \A k \in {} : NetOk(Peer(e), k)' OBVIOUS
<1>15. QED BY <1>5, <1>7, <1>10, <1>11, <1>12, <1>13, <1>14, StillGood

-----------------------------------------------------------------------------
(* Steps that start a key, end one, or let time pass                        *)

\* An end that is settled on its key, with a peer that is no less far, starts
\* its next key.
LEMMA ResetGood ==
    ASSUME TypeOK, Good, NEW e \in Ends, TypeOK', Resets(e), Settled(e),
           P(e)'.ack \subseteq P(e)'.rec,
           NEW n \in Nat, n = next[e].serial,
           \A pid \in P(e)'.rec : Told(Peer(e), n, pid),
           ~over[Peer(e)] => /\ P(Peer(e)).serial >= P(e).serial
                             /\ P(Peer(e)).serial = P(e).serial => Settled(Peer(e)),
           Under(e)' \subseteq Under(e), Under(Peer(e))' = Under(Peer(e))
    PROVE  Good'
<1> DEFINE p == Peer(e)
<1>1. p \in Ends /\ Peer(p) = e BY Peers
<1>2. /\ ~over[e] /\ over' = over /\ now' = now /\ key'[p] = key[p] /\ next'[p] = next[p]
      /\ L(e)' = Retired(P(e))
      /\ next'[e].serial = n + 1 /\ next'[e].key_id = NextId(next[e].key_id)
      /\ P(e)'.serial = n /\ P(e)'.key_id = next[e].key_id
      /\ P(e)'.state = S_INITIAL /\ P(e)'.send = {}
  BY DEF Resets
<1>3. P(p)' = P(p) BY <1>2 DEF P
<1>4. ~over[p] => AheadOk(e) /\ AheadOk(p)
  BY <1>2, Unfold
<1>5. NextOk(e) /\ SerialOk(e) BY <1>2, Unfold
<1>6. P(e).serial + 1 = n /\ P(e).serial \in Nat /\ now \in Nat BY <1>5, Numbers DEF SerialOk
<1>7. Later(e) BY <1>2, <1>6 DEF Later
<1>8. Steady(e) BY <1>2 DEF Steady
<1>9. NextOk(e)'
  <2>1. next[e].key_id = IdOf(n) BY <1>5 DEF NextOk
  <2>2. NextId(IdOf(n)) = IdOf(n + 1) BY IdStep
  <2>3. next'[e].key_id = IdOf(next'[e].serial) BY <1>2, <2>1, <2>2
  <2>4. QED BY <1>2, <2>3 DEF NextOk
<1>10. /\ L(e)'.state = S_ACTIVE /\ L(e)'.key_id = P(e).key_id /\ L(e)'.serial = P(e).serial
       /\ L(e)'.deferred = P(e).deferred /\ L(e)'.must_die = now + TransitionWindow
  <2>1. P(e) \in KeyStates BY Typed
  <2>2. P(e).state = S_ACTIVE BY DEF Settled
  <2>3. QED BY <1>2, <1>6, <2>1, <2>2, RetiredFields
<1>11. SerialOk(e)'
  <2>1. P(e)'.key_id = IdOf(P(e)'.serial) BY <1>2, <1>5 DEF NextOk
  <2>2. L(e)'.key_id = IdOf(L(e)'.serial) BY <1>5, <1>10 DEF SerialOk
  <2>3. now >= L(e)'.deferred BY <1>10 DEF Settled
  <2>4. P(e)'.serial # 0 BY <1>2, <1>6
  <2>5. P(e)'.serial + 1 = next'[e].serial /\ L(e)'.serial + 1 = P(e)'.serial
    BY <1>2, <1>6, <1>10
  <2>6. P(e)'.state >= S_INITIAL BY <1>2, Levels
  <2>7. QED BY <1>2, <1>10, <2>1, <2>2, <2>3, <2>4, <2>5, <2>6 DEF SerialOk
<1>12. ClockOk(e)'
  <2>1. now + TransitionWindow >= now + TransitionWindow BY <1>6, Constants
  <2>2. QED BY <1>2, <1>10, <2>1, Levels DEF ClockOk
<1>13. \A pid : ~HasSent(e, pid, P(e)'.state) BY <1>2, Levels DEF HasSent
<1>14. DialogOk(e)'
  <2>1. ~HasGot(e, P(e)'.state) /\ P(e)'.state # S_ACTIVE BY <1>2, Levels DEF HasGot
  <2>2. QED BY <1>2, <2>1 DEF DialogOk
<1>15. PairOk(e)'
  <2> HIDE DEF p
  <2>1. \A pid : Told(p, n, pid) => Told(p, P(e).serial, pid)'
    BY <1>2, <1>3 DEF Told, Beyond
  <2>2. \A pid \in P(e)'.rec : Told(p, P(e).serial, pid)' BY <2>1 DEF p
  <2>3. QED BY <1>13, <2>2 DEF PairOk, p
<1>16. ~over[p] => BothOk(e)' /\ BothOk(p)'
  <2> SUFFICES ASSUME ~over[p] PROVE BothOk(e)' /\ BothOk(p)' OBVIOUS
  <2>1. /\ AheadOk(e) /\ PairOk(p) /\ DialogOk(p) BY <1>1, <1>4, Unfold
  <2>2. P(p).serial \in Nat /\ P(p).serial <= n /\ P(p).serial >= P(e).serial
    BY <1>1, <1>6, <2>1, Numbers DEF AheadOk
  <2>3. AheadOk(e)' BY <1>2, <1>3, <1>6, <2>2 DEF AheadOk
  <2>4. AgreeOk(e)' BY <1>2, Levels DEF AgreeOk
  <2>5. AheadOk(p)'
    <3>1. n <= P(p).serial + 1 BY <1>6, <2>2
    <3>2. n = P(p).serial + 1 => Settled(p)
      <4>1. n = P(p).serial + 1 => P(p).serial = P(e).serial BY <1>6, <2>2
      <4>2. QED BY <4>1
    <3>3. Settled(p)' <=> Settled(p) BY <1>2, <1>3 DEF Settled
    <3> HIDE DEF p
    <3>4. QED BY <1>1, <1>2, <1>3, <3>1, <3>2, <3>3 DEF AheadOk
  <2>6. ~(P(p).serial = n /\ P(p).state = S_ACTIVE)
    <3>1. SUFFICES ASSUME P(p).serial = n, P(p).state = S_ACTIVE PROVE FALSE OBVIOUS
    <3>2. n > 0 BY <1>6
    <3>3. 0 \in P(p).rec BY <2>1, <3>1, <3>2 DEF DialogOk, HasGot
    <3>4. Told(e, n, 0) BY <1>1, <2>1, <3>1, <3>2, <3>3 DEF PairOk
    <3>5. QED BY <1>2, <1>6, <3>4 DEF Told, Beyond
  <2>7. AgreeOk(p)'
    <3> HIDE DEF p
    <3>1. QED BY <1>1, <1>2, <1>3, <2>6 DEF AgreeOk
  <2>8. QED BY <2>3, <2>4, <2>5, <2>7 DEF BothOk
<1>17. AloneOk(e)' BY <1>11, <1>12, <1>14 DEF AloneOk
<1>18. {} \in SUBSET Packets /\ \A m \in {} : NetOk(Peer(e), m)' OBVIOUS
<1>19. over'[p] = over[p] BY <1>2
<1>20. QED BY <1>2, <1>7, <1>8, <1>9, <1>15, <1>16, <1>17, <1>18, <1>19, EndStep

\* The renegotiation trigger: by then the peer uses the key too, since its
\* handshake ended or failed in the meantime, unless the key was renegotiated
\* too soon.
LEMMA RenegotiateGood ==
    ASSUME TypeOK, Good, NEW e \in Ends, Renegotiate(e)
    PROVE  TypeOK' /\ (~rushed' => Good')
<1>0. SUFFICES ASSUME ~rushed' PROVE TypeOK' /\ Good' BY RenegotiateEffect
<1> DEFINE p == Peer(e)
<1>1. p \in Ends /\ Peer(p) = e BY Peers
<1>2. /\ TypeOK' /\ Resets(e) /\ stray' = stray /\ P(e).state = S_ACTIVE
      /\ now >= P(e).established + 2 * HandshakeWindow
      /\ P(e)'.rec = {} /\ P(e)'.ack = {}
      /\ Under(e)' = Under(e) /\ Under(Peer(e))' = Under(Peer(e))
  BY <1>0, RenegotiateEffect
<1>3. ~over[e] BY <1>2 DEF Resets
<1>4. SerialOk(e) /\ ClockOk(e) /\ DialogOk(e) /\ PairOk(e) BY <1>3, Unfold
<1>5. /\ now \in Nat /\ next[e].serial \in Nat /\ P(e).serial \in Nat /\ P(e).deferred \in Nat
      /\ P(e).established \in Nat /\ HandshakeWindow \in Nat /\ HandshakeWindow >= 1
  BY Numbers, Constants
<1>6. Settled(e)
  <2>1. P(e).deferred <= P(e).established + HandshakeWindow BY <1>2, <1>4 DEF ClockOk
  <2>2. QED BY <1>2, <1>5, <2>1 DEF Settled
<1>7. ~over[p] => P(p).serial >= P(e).serial
  <2> SUFFICES ASSUME ~over[p] PROVE P(p).serial >= P(e).serial OBVIOUS
  <2>1. P(p).serial \in Nat BY <1>1, Numbers
  <2>2. CASE P(e).serial = 0 BY <2>1, <2>2
  <2>3. CASE P(e).serial > 0
    <3>1. 0 \notin P(e).send /\ HasSent(e, 0, P(e).state)
      BY <1>2, <1>4, <2>3, Levels DEF DialogOk, HasSent
    <3>2. Heard(p, P(e).serial, 0) BY <1>4, <2>3, <3>1 DEF PairOk
    <3>3. QED BY <1>5, <2>1, <3>2 DEF Heard, Beyond
  <2>4. QED BY <1>5, <2>2, <2>3
<1>8. ~over[p] /\ P(p).serial = P(e).serial => Settled(p)
  <2> SUFFICES ASSUME ~over[p], P(p).serial = P(e).serial PROVE Settled(p) OBVIOUS
  <2>1. AgreeOk(e) /\ ClockOk(p) BY <1>1, <1>3, Unfold
  <2>2. P(p).deferred <= P(e).established + HandshakeWindow /\ P(p).state >= S_SENT_KEY
    BY <1>2, <2>1 DEF AgreeOk
  <2>3. P(p).deferred \in Nat /\ P(p).state \in 0 .. 6 BY <1>1, Numbers
  <2>4. now > P(p).deferred BY <1>2, <1>5, <2>2, <2>3
  <2>5. ~(P(p).state \in Handshake) BY <1>5, <2>1, <2>3, <2>4 DEF ClockOk
  <2>6. P(p).state = S_ACTIVE BY <2>2, <2>3, <2>5, Levels
  <2>7. QED BY <1>5, <2>3, <2>4, <2>6 DEF Settled
<1>9. \A pid \in P(e)'.rec : Told(Peer(e), next[e].serial, pid) BY <1>2
<1>10. Good' BY <1>2, <1>5, <1>6, <1>7, <1>8, <1>9, ResetGood
<1>11. QED BY <1>2, <1>10

\* Steps that touch neither the keys nor the clock.
LEMMA QuietGood ==
    ASSUME TypeOK, Good, NEW e \in Ends, TypeOK', key' = key, next' = next, over' = over,
           now' = now, Under(e)' \subseteq Under(e), Under(Peer(e))' = Under(Peer(e))
    PROVE  Good'
<1> DEFINE p == Peer(e)
<1>1. p \in Ends /\ Peer(p) = e BY Peers
<1>2. EndOk(e) /\ EndOk(p) BY <1>1 DEF Good
<1>3. P(e)' = P(e) /\ P(p)' = P(p) BY DEF P
<1>4. /\ NextOk(e)' <=> NextOk(e)
      /\ AloneOk(e)' <=> AloneOk(e)
      /\ Settled(e)' <=> Settled(e)
      /\ Settled(p)' <=> Settled(p)
  BY <1>1, AloneKept
<1>5. Later(e) /\ Later(p) BY <1>3 DEF Later
<1>6. Steady(e) BY <1>4 DEF Steady
<1>7. ~over'[e] => AloneOk(e)' /\ PairOk(e)' BY <1>2, <1>4, <1>5, PairKept DEF EndOk
<1>8. ~over'[e] /\ ~over[p] => BothOk(e)' /\ BothOk(p)'
  <2>1. AheadOk(e) => AheadOk(e)' BY <1>3, <1>4 DEF AheadOk
  <2>2. AgreeOk(e) => AgreeOk(e)' BY <1>3 DEF AgreeOk
  <2>3. (AheadOk(p) => AheadOk(p)') /\ (AgreeOk(p) => AgreeOk(p)')
    <3> HIDE DEF p
    <3>1. QED BY <1>1, <1>3, <1>4 DEF AheadOk, AgreeOk
  <2>4. QED BY <1>1, <1>2, <2>1, <2>2, <2>3 DEF EndOk, BothOk
<1>9. {} \in SUBSET Packets /\ \A m \in {} : NetOk(Peer(e), m)' OBVIOUS
<1>10. NextOk(e)' BY <1>2, <1>4 DEF EndOk
<1>11. QED BY <1>5, <1>6, <1>7, <1>8, <1>9, <1>10, EndStep

\* A packet is received.
LEMMA ReceiveGood ==
    ASSUME TypeOK, Good, NoStale, NEW e \in Ends, Receive(e)
    PROVE  TypeOK' /\ (~stray' => Good')
<1>1. /\ TypeOK' /\ Under(e)' \subseteq Under(e) /\ Under(Peer(e))' = Under(Peer(e))
  BY ReceiveEffect
<1>2. PICK m \in Under(e) :
         \/ /\ over[e] /\ key' = key /\ next' = next /\ over' = over /\ now' = now
            /\ stray' = stray
         \/ InPlace(e) /\ P(e)' = Arrived(P(e), m)
         \/ /\ Resets(e) /\ m.op = "SOFT_RESET" /\ DECRYPT_KEY_ENABLED(e, P(e))
            /\ P(e)' = Arrived(KeyState(next[e].key_id, next[e].serial), m)
            /\ stray' = (stray \/ m.serial < next[e].serial)
  BY ReceiveEffect
<1>3. m \in Packets /\ P(e) \in KeyStates /\ key[e] = [primary |-> P(e), lame |-> L(e)] BY Typed
<1>4. NetOk(e, m) BY DEF Good, EndOk
<1>5. CASE over[e] /\ key' = key /\ next' = next /\ over' = over /\ now' = now
  BY <1>1, <1>5, QuietGood
<1>6. CASE InPlace(e) /\ P(e)' = Arrived(P(e), m) /\ m.key_id = P(e).key_id
  BY <1>1, <1>6, ArrivedGood
<1>7. CASE InPlace(e) /\ P(e)' = Arrived(P(e), m) /\ m.key_id # P(e).key_id
  <2>1. P(e)' = P(e)
    <3>1. Arrived(P(e), m) = P(e) BY <1>3, <1>7, ArrivedFields
    <3>2. QED BY <1>7, <3>1
  <2>2. L(e)' = L(e) /\ key'[Peer(e)] = key[Peer(e)] BY <1>7 DEF InPlace
  <2>3. key'[e] = [primary |-> P(e)', lame |-> L(e)']
    <3>1. key'[e] \in [primary : KeyStates, lame : KeyStates] BY <1>1 DEF TypeOK
    <3>2. QED BY <3>1 DEF P, L
  <2>4. key'[e] = key[e] BY <1>3, <2>1, <2>2, <2>3
  <2>5. key' = key
    <3>1. \A x \in Ends : key'[x] = key[x] BY <2>2, <2>4, Peers
    <3>2. key = [x \in Ends |-> key[x]] /\ key' = [x \in Ends |-> key'[x]]
      BY <1>1, Zenon DEF TypeOK
    <3>3. QED BY <3>1, <3>2
  <2>6. next' = next /\ over' = over /\ now' = now BY <1>7 DEF InPlace
  <2>7. QED BY <1>1, <2>5, <2>6, QuietGood
<1>8. CASE /\ Resets(e) /\ m.op = "SOFT_RESET" /\ ~stray'
           /\ P(e)' = Arrived(KeyState(next[e].key_id, next[e].serial), m)
           /\ stray' = (stray \/ m.serial < next[e].serial)
  <2> DEFINE k == KeyState(next[e].key_id, next[e].serial)
             n == next[e].serial
             a == Arrived(k, m)
  <2>1. ~over[e] BY <1>8 DEF Resets
  <2>2. m.serial \in Nat /\ n \in Nat BY <1>3, Numbers DEF Packets
  <2>3. m.serial <= n /\ (m.serial = n => Settled(e)) BY <1>4, <2>1 DEF NetOk
  <2>4. ~(m.serial < n) BY <1>8
  <2>5. m.serial = n BY <2>2, <2>3, <2>4
  <2>6. Settled(e) BY <2>3, <2>5
  <2>7. k \in KeyStates /\ k.rec = {} /\ k.ack = {}
    <3>1. next[e].key_id \in 1 .. KeyIdMask BY Typed
    <3>2. next[e].key_id \in 0 .. KeyIdMask BY <3>1, Constants
    <3>3. QED BY <2>2, <3>2, NewKey
  <2>8. m.pid = 0 /\ Told(Peer(e), n, 0) BY <1>4, <1>8, <2>5 DEF NetOk
  <2> HIDE DEF k
  <2>9. (a.rec = {} /\ a.ack = {}) \/ (a.rec = {0} /\ a.ack = {0})
    <3>1. /\ m.key_id # k.key_id => a = k
          /\ m.key_id = k.key_id =>
                 /\ a.rec = IF m.op = "ACK" THEN k.rec ELSE k.rec \cup {m.pid}
                 /\ a.ack = IF m.op = "ACK" THEN k.ack ELSE k.ack \cup {m.pid}
      BY <1>3, <2>7, ArrivedFields
    <3> HIDE DEF a
    <3>2. QED BY <1>8, <2>7, <2>8, <3>1
  <2>10. P(e)' = a BY <1>8 DEF k
  <2> HIDE DEF a
  <2>11. P(e)'.ack \subseteq P(e)'.rec /\ \A pid \in P(e)'.rec : Told(Peer(e), n, pid)
    BY <2>8, <2>9, <2>10
  <2>12. ~over[Peer(e)] => P(Peer(e)).serial > P(e).serial
    <3>1. Beyond(Peer(e), n) \/ P(Peer(e)).serial = n BY <1>4, <2>5 DEF NetOk
    <3>2. P(Peer(e)).serial \in Nat /\ P(e).serial \in Nat BY Peers, Numbers
    <3>3. P(e).serial + 1 = n BY <2>1, Unfold DEF SerialOk
    <3>4. QED BY <2>2, <3>1, <3>2, <3>3 DEF Beyond
  <2>13. ~over[Peer(e)] => /\ P(Peer(e)).serial >= P(e).serial
                           /\ P(Peer(e)).serial = P(e).serial => Settled(Peer(e))
    <3>1. P(Peer(e)).serial \in Nat /\ P(e).serial \in Nat BY Peers, Numbers
    <3>2. QED BY <2>12, <3>1
  <2>14. Good' BY <1>1, <1>8, <2>2, <2>6, <2>11, <2>13, ResetGood
  <2>15. QED BY <1>1, <2>14
<1>9. QED BY <1>1, <1>2, <1>5, <1>6, <1>7, <1>8

\* The old key expires no earlier than the new one is settled.
LEMMA KillLameGood ==
    ASSUME TypeOK, Good, NEW e \in Ends, KillLame(e)
    PROVE  TypeOK' /\ Good'
<1> DEFINE p == Peer(e)
<1>1. p \in Ends /\ Peer(p) = e BY Peers
<1>2. /\ TypeOK' /\ L(e).state >= S_INITIAL /\ now >= L(e).must_die
      /\ P(e)' = P(e) /\ L(e)' = NoKey /\ key'[Peer(e)] = key[Peer(e)]
      /\ next' = next /\ over' = over /\ now' = now /\ stray' = stray
      /\ Under(e)' = Under(e) /\ Under(Peer(e))' = Under(Peer(e))
  BY KillLameEffect
<1>3. L(e)'.state = S_UNDEF /\ P(p)' = P(p) BY <1>2, NoKeyFields DEF P
<1>4. EndOk(e) /\ EndOk(p) BY <1>1 DEF Good
<1>5. Settled(e)' <=> Settled(e) BY <1>2 DEF Settled
<1>6. Settled(p)' <=> Settled(p) BY <1>2, <1>3 DEF Settled
<1>7. Later(e) /\ Later(p) BY <1>2, <1>3 DEF Later
<1>8. Steady(e) BY <1>2, <1>5 DEF Steady
<1>9. NextOk(e)' BY <1>2, <1>4 DEF EndOk, NextOk
<1>10. ~over[e] => AloneOk(e)' /\ PairOk(e)'
  <2> SUFFICES ASSUME ~over[e] PROVE AloneOk(e)' /\ PairOk(e)' OBVIOUS
  <2>1. SerialOk(e) /\ ClockOk(e) /\ DialogOk(e) /\ PairOk(e) BY Unfold
  <2>2. /\ now \in Nat /\ L(e).must_die \in Nat /\ P(e).state \in 0 .. 6 /\ P(e).deferred \in Nat
        /\ HandshakeWindow \in Nat /\ HandshakeWindow >= 1
        /\ TransitionWindow \in Nat /\ TransitionWindow >= 2 * HandshakeWindow
    BY Numbers, Constants
  <2>3. L(e).state = S_ACTIVE BY <1>2, <2>1, Levels DEF SerialOk
  <2>4. P(e).state # S_INITIAL
    <3>1. P(e).state = S_INITIAL => L(e).must_die >= now + TransitionWindow
      BY <2>1, <2>3 DEF ClockOk
    <3>2. QED BY <1>2, <2>2, <3>1
  <2>5. P(e).state >= S_INITIAL BY <2>1 DEF SerialOk
  <2>6. P(e).state > S_INITIAL BY <2>2, <2>4, <2>5, Levels
  <2>7. L(e).must_die >= P(e).deferred + HandshakeWindow BY <2>1, <2>3, <2>6 DEF ClockOk
  <2>8. now >= P(e).deferred + HandshakeWindow BY <1>2, <2>2, <2>7
  <2>9. P(e).state \notin Handshake
    <3>1. P(e).state \in Handshake => now <= P(e).deferred BY <2>1 DEF ClockOk
    <3>2. QED BY <2>2, <2>8, <3>1
  <2>10. P(e).state = S_ACTIVE BY <2>2, <2>6, <2>9, Levels
  <2>11. SerialOk(e)' BY <1>2, <1>3, <2>1, Levels DEF SerialOk
  <2>12. ClockOk(e)' BY <1>2, <1>3, <2>1, <2>8, <2>9, <2>10, Levels DEF ClockOk
  <2>13. DialogOk(e)' BY <1>2, <2>1 DEF DialogOk
  <2>14. PairOk(e)'
    <3> HIDE DEF p
    <3>2. PICK n \in Nat : n = P(e).serial BY Numbers
    <3>3. /\ \A pid : Told(p, n, pid) => Told(p, P(e).serial, pid)'
          /\ \A pid : Heard(p, n, pid) => Heard(p, P(e).serial, pid)'
      BY <1>2, <1>3, <3>2 DEF Told, Heard, Beyond
    <3>4. n > 0 => /\ \A pid \in P(e).rec : Told(p, n, pid)
                   /\ \A pid \in {0, 1} \ P(e).send :
                         HasSent(e, pid, P(e).state) => Heard(p, n, pid)
      BY <2>1, <3>2 DEF PairOk, p
    <3>5. QED BY <1>2, <3>2, <3>3, <3>4 DEF PairOk, p
  <2>15. QED BY <2>11, <2>12, <2>13, <2>14 DEF AloneOk
<1>11. ~over[e] /\ ~over[p] => BothOk(e)' /\ BothOk(p)'
  <2>1. AheadOk(e) => AheadOk(e)' BY <1>2, <1>3, <1>5 DEF AheadOk
  <2>2. AgreeOk(e) => AgreeOk(e)' BY <1>2, <1>3 DEF AgreeOk
  <2>3. (AheadOk(p) => AheadOk(p)') /\ (AgreeOk(p) => AgreeOk(p)')
    <3> HIDE DEF p
    <3>1. QED BY <1>1, <1>2, <1>3, <1>6 DEF AheadOk, AgreeOk
  <2>4. QED BY <1>1, <1>4, <2>1, <2>2, <2>3 DEF EndOk, BothOk
<1>12. {} \in SUBSET Packets /\ \A m \in {} : NetOk(Peer(e), m)' OBVIOUS
<1>13. Good' BY <1>2, <1>7, <1>8, <1>9, <1>10, <1>11, <1>12, EndStep
<1>14. QED BY <1>2, <1>13

\* The negotiation fails.
LEMMA FailGood ==
    ASSUME TypeOK, Good, NEW e \in Ends, Fail(e)
    PROVE  TypeOK' /\ Good'
<1>1. /\ TypeOK' /\ over'[e] /\ over'[Peer(e)] = over[Peer(e)]
      /\ key'[Peer(e)] = key[Peer(e)] /\ next' = next /\ now' = now
      /\ Under(e)' = Under(e) /\ Under(Peer(e))' = Under(Peer(e))
  BY FailEffect
<1>2. Later(e) /\ Steady(e) BY <1>1 DEF Later, Steady
<1>3. NextOk(e)' BY <1>1 DEF Good, EndOk, NextOk
<1>4. {} \in SUBSET Packets /\ \A m \in {} : NetOk(Peer(e), m)' OBVIOUS
<1>5. Good' BY <1>1, <1>2, <1>3, <1>4, EndStep
<1>6. QED BY <1>1, <1>5

\* A packet is lost.
LEMMA LoseGood ==
    ASSUME TypeOK, Good, NEW e \in Ends, Lose(e)
    PROVE  TypeOK' /\ Good'
BY LoseEffect, QuietGood

\* A second passes.
LEMMA TickGood ==
    ASSUME TypeOK, Good, Tick
    PROVE  TypeOK' /\ Good'
<1>1. /\ now < MaxNow /\ now' = now + 1 /\ key' = key /\ next' = next /\ over' = over
      /\ net' = net /\ mishaps' = mishaps /\ stray' = stray /\ rushed' = rushed
      /\ \A e \in Ends : ~Due(e)
  BY DEF Tick
<1>2. TypeOK'
  <2>1. now' \in 0 .. MaxNow BY <1>1, Constants DEF TypeOK
  <2>2. QED BY <1>1, <2>1 DEF TypeOK
<1>3. ASSUME NEW e \in Ends PROVE EndOk(e)'
  <2> DEFINE p == Peer(e)
  <2>1. p \in Ends /\ Peer(p) = e /\ (e = "server" => p = "client" /\ p # "server") BY Peers
  <2>2. P(e)' = P(e) /\ L(e)' = L(e) /\ P(p)' = P(p) /\ Under(e)' = Under(e)
    BY <1>1 DEF P, L, Under
  <2>3. now \in Nat /\ P(e).deferred \in Nat /\ L(e).deferred \in Nat
        /\ HandshakeWindow \in Nat /\ P(e).must_negotiate \in Nat
    BY Numbers, Constants
  <2>4. EndOk(e) BY DEF Good
  <2>5. Settled(e) => Settled(e)' BY <1>1, <2>2, <2>3 DEF Settled
  <2>6. NextOk(e)' BY <1>1, <2>4 DEF EndOk, NextOk
  <2>7. ~over[e] => AloneOk(e)'
    <3> SUFFICES ASSUME ~over[e] PROVE AloneOk(e)' OBVIOUS
    <3>1. SerialOk(e) /\ ClockOk(e) /\ DialogOk(e) BY Unfold
    <3>2. P(e).state # S_INITIAL /\ ~TimedOut(P(e)) BY <1>1 DEF Due, P
    <3>3. P(e).state \in Handshake => now + 1 <= P(e).deferred
      <4>1. P(e).state \in Handshake => now < P(e).must_negotiate
        BY <2>3, <3>2 DEF TimedOut, Handshake
      <4>2. QED BY <2>3, <3>1, <4>1 DEF ClockOk
    <3>4. SerialOk(e)' BY <1>1, <2>2, <2>3, <3>1 DEF SerialOk
    <3>5. ClockOk(e)'
      <4> HIDE DEF p
      <4>1. P(e).deferred <= now + HandshakeWindow => P(e).deferred <= (now + 1) + HandshakeWindow
        BY <2>3
      <4>2. now >= P(e).deferred + HandshakeWindow => now + 1 >= P(e).deferred + HandshakeWindow
        BY <2>3
      <4>3. QED BY <1>1, <2>2, <3>1, <3>2, <3>3, <4>1, <4>2 DEF ClockOk
    <3>6. DialogOk(e)' BY <2>2, <3>1 DEF DialogOk
    <3>7. QED BY <3>4, <3>5, <3>6 DEF AloneOk
  <2>8. ~over[e] => PairOk(e)'
    <3>1. Later(p) BY <1>1, <2>2 DEF Later
    <3>2. key'[e] = key[e] BY <1>1
    <3>3. QED BY <1>2, <2>4, <3>1, <3>2, PairKept DEF EndOk
  <2>9. ~over[e] /\ ~over[p] => BothOk(e)'
    <3> SUFFICES ASSUME ~over[e], ~over[p] PROVE BothOk(e)' OBVIOUS
    <3>1. AheadOk(e) /\ AgreeOk(e) /\ PairOk(e) /\ DialogOk(e) BY Unfold
    <3>2. AheadOk(e)' BY <2>2, <2>5, <3>1 DEF AheadOk
    <3>3. ~(P(e).serial = P(p).serial /\ P(e).state = S_ACTIVE
            /\ e = "server" /\ P(p).state = S_SENT_KEY)
      <4> SUFFICES ASSUME P(e).serial = P(p).serial, P(e).state = S_ACTIVE,
                          e = "server", P(p).state = S_SENT_KEY
                   PROVE  FALSE
        OBVIOUS
      <4>1. P(p).serial > 0 /\ P(p).serial \in Nat /\ P(p).rec \subseteq {0, 1}
        <5>1. P(p).state # S_ACTIVE BY Levels
        <5>2. QED BY <2>1, <5>1, NotFirst, Numbers
      <4>2. P(e).send = {} /\ \A pid \in {0, 1} : HasSent(e, pid, P(e).state)
        BY <3>1, <4>1, Levels DEF DialogOk, HasSent
      <4>3. \A pid \in {0, 1} : Heard(p, P(e).serial, pid) BY <3>1, <4>1, <4>2 DEF PairOk
      <4>4. P(p).rec = {0, 1} BY <4>1, <4>3 DEF Heard, Beyond
      <4>5. ~Due(p) /\ p # "server" BY <1>1, <2>1
      <4>6. ~lame_duck_must_die(p) /\ ~TimedOut(P(p)) BY <4>5 DEF Due, P
      <4>7. GetKeyStage(p) BY <4>4, <4>5, <4>6 DEF GetKeyStage, Stage, Processing, P
      <4>8. QED BY <4>5, <4>7 DEF Due
    <3>4. AgreeOk(e)' BY <1>1, <2>2, <3>1, <3>3 DEF AgreeOk
    <3>5. QED BY <3>2, <3>4 DEF BothOk
  <2>10. \A m \in Under(e) : NetOk(e, m)'
    <3>1. Later(p) BY <1>1, <2>2 DEF Later
    <3>2. Steady(e) BY <1>1, <2>5 DEF Steady
    <3>3. \A m \in Under(e) : m \in Packets /\ NetOk(e, m) BY <2>4, Typed DEF EndOk
    <3>4. QED BY <1>2, <3>1, <3>2, <3>3, NetKept
  <2>11. QED BY <1>1, <2>2, <2>6, <2>7, <2>8, <2>9, <2>10 DEF EndOk
<1>4. QED BY <1>2, <1>3 DEF Good

-----------------------------------------------------------------------------
(* The invariant                                                            *)

\* Both ends hold key 0, and nothing is under way.
LEMMA InitGood == Init => TypeOK /\ Good
<1> SUFFICES ASSUME Init PROVE TypeOK /\ Good OBVIOUS
<1> DEFINE k0 == [KeyState(0, 0) EXCEPT !.state = S_ACTIVE]
<1>1. KeyState(0, 0) \in KeyStates BY NewKey, Constants
<1>2. S_ACTIVE \in 0 .. 6 BY Levels
<1>3. k0 \in KeyStates BY <1>1, <1>2, Update, Zenon
<1>4. /\ k0.state = S_ACTIVE /\ k0.key_id = 0 /\ k0.serial = 0 /\ k0.deferred = 0
      /\ k0.established = 0 /\ k0.send = {} /\ k0.ack = {}
  BY DEF KeyState
<1> HIDE DEF k0
<1>5. /\ now = 0 /\ mishaps = 0 /\ stray = FALSE /\ rushed = FALSE
      /\ key = [e \in Ends |-> [primary |-> k0, lame |-> NoKey]]
      /\ next = [e \in Ends |-> [key_id |-> NextId(0), serial |-> 1]]
      /\ over = [e \in Ends |-> FALSE] /\ net = [e \in Ends |-> <<>>]
  BY DEF Init, k0
<1>6. NextId(0) = 1 BY Constants DEF NextId
<1>7. TypeOK
  <2>1. [primary |-> k0, lame |-> NoKey] \in [primary : KeyStates, lame : KeyStates]
    BY <1>3, NoKeyFields
  <2>2. key \in [Ends -> [primary : KeyStates, lame : KeyStates]] BY <1>5, <2>1
  <2>3. next \in [Ends -> [key_id : 1 .. KeyIdMask, serial : Nat]] BY <1>5, <1>6, Constants
  <2>4. net \in [Ends -> Seq(Packets)] BY <1>5
  <2>5. now \in 0 .. MaxNow /\ mishaps \in 0 .. MaxMishaps BY <1>5, Constants
  <2>6. over \in [Ends -> BOOLEAN] /\ stray \in BOOLEAN /\ rushed \in BOOLEAN BY <1>5
  <2>7. QED BY <2>2, <2>3, <2>4, <2>5, <2>6 DEF TypeOK
<1>8. ASSUME NEW e \in Ends PROVE EndOk(e)
  <2> DEFINE p == Peer(e)
  <2>1. p \in Ends BY Peers
  <2>2. P(e) = k0 /\ L(e) = NoKey /\ P(p) = k0 BY <1>5, <2>1 DEF P, L
  <2>3. next[e].key_id = 1 /\ next[e].serial = 1 BY <1>5, <1>6
  <2>4. IdOf(0) = 0 /\ IdOf(1) = 1
    <3>1. NextId(IdOf(0)) = IdOf(0 + 1) BY IdStep
    <3>2. QED BY <1>6, <3>1 DEF IdOf
  <2>5. L(e).state = S_UNDEF BY <2>2, NoKeyFields
  <2> HIDE DEF p
  <2>6. NextOk(e) BY <2>3, <2>4 DEF NextOk
  <2>7. SerialOk(e) BY <1>4, <2>2, <2>3, <2>4, <2>5, Levels DEF SerialOk
  <2>8. ClockOk(e) BY <1>4, <1>5, <2>2, <2>5, Constants, Levels DEF ClockOk
  <2>9. DialogOk(e) BY <1>4, <2>2 DEF DialogOk
  <2>10. PairOk(e) BY <1>4, <2>2 DEF PairOk
  <2>11. AheadOk(e) BY <1>4, <2>2 DEF AheadOk, p
  <2>12. AgreeOk(e) BY <1>4, <2>2, Constants, Levels DEF AgreeOk, p
  <2>13. Under(e) = {} BY <1>5 DEF Under
  <2>14. QED BY <2>6, <2>7, <2>8, <2>9, <2>10, <2>11, <2>12, <2>13 DEF EndOk, AloneOk, BothOk
<1>9. QED BY <1>7, <1>8 DEF Good

\* Every step keeps the types.
LEMMA TypeStep == TypeOK /\ [Next]_vars => TypeOK'
<1> SUFFICES ASSUME TypeOK, [Next]_vars PROVE TypeOK' OBVIOUS
<1>1. CASE UNCHANGED vars BY <1>1 DEF TypeOK, vars
<1>2. CASE Tick
  <2>1. now' \in 0 .. MaxNow BY <1>2, Constants DEF TypeOK, Tick
  <2>2. QED BY <1>2, <2>1 DEF TypeOK, Tick
<1>3. ASSUME NEW e \in Ends, TlsProcess(e) PROVE TypeOK'
  <2>1. CASE Renegotiate(e) BY <2>1, RenegotiateEffect
  <2>2. CASE KillLame(e) BY <2>2, KillLameEffect
  <2>3. CASE Negotiate(e) BY <2>3, NegotiateEffect
  <2>4. CASE Start(e)
    <3>1. ~over[e] /\ SetPrimary(e, [key[e].primary EXCEPT !.state = S_START])
      BY <2>4 DEF Start, StartStage, Stage, Processing
    <3>2. S_START \in 0 .. 6 BY Levels
    <3>3. QED BY <3>1, <3>2, StateEffect
  <2>5. CASE Activate(e) BY <2>5, ActivateEffect
  <2>6. CASE SendKey(e) BY <2>6, SendKeyEffect
  <2>7. CASE GetKey(e)
    <3>1. ~over[e] /\ SetPrimary(e, [key[e].primary EXCEPT !.state = S_GOT_KEY])
      BY <2>7 DEF GetKey, GetKeyStage, Stage, Processing
    <3>2. S_GOT_KEY \in 0 .. 6 BY Levels
    <3>3. QED BY <3>1, <3>2, StateEffect
  <2>8. CASE Fail(e) BY <2>8, FailEffect
  <2>9. CASE Transmit(e)
    <3>1. PICK pid \in key[e].primary.send :
             Sent(e, key[e].primary, IF pid = 0 THEN "SOFT_RESET" ELSE "CONTROL", pid)
      BY <2>9 DEF Transmit
    <3>2. ~over[e] BY <2>9 DEF Transmit, Processing
    <3>3. pid \in {0, 1} BY Numbers DEF P
    <3>4. PICK op \in {"SOFT_RESET", "CONTROL", "ACK"} : Sent(e, key[e].primary, op, pid)
      BY <3>1
    <3>5. QED BY <3>2, <3>3, <3>4, ResentEffect
  <2>10. CASE WriteAck(e)
    <3>1. ~over[e] /\ Sent(e, key[e].primary, "ACK", 0) BY <2>10 DEF WriteAck, Processing
    <3>2. QED BY <3>1, ResentEffect
  <2>11. QED BY <1>3, <2>1, <2>2, <2>3, <2>4, <2>5, <2>6, <2>7, <2>8, <2>9, <2>10 DEF TlsProcess
<1>4. ASSUME NEW e \in Ends, Receive(e) PROVE TypeOK' BY <1>4, ReceiveEffect
<1>5. ASSUME NEW e \in Ends, Lose(e) PROVE TypeOK' BY <1>5, LoseEffect
<1>6. QED BY <1>1, <1>2, <1>3, <1>4, <1>5 DEF Next

\* Only the renegotiation trigger says that it came too soon, and it is not
\* unsaid.
LEMMA RushedStays ==
    Next => \/ rushed' = rushed
            \/ \E e \in Ends : Renegotiate(e) /\ rushed' = (rushed \/ TooSoon(e))
<1> SUFFICES ASSUME Next, ~(rushed' = rushed)
             PROVE  \E e \in Ends : Renegotiate(e) /\ rushed' = (rushed \/ TooSoon(e))
  OBVIOUS
<1>1. ~Tick BY DEF Tick
<1>2. PICK e \in Ends : TlsProcess(e) \/ Receive(e) \/ Lose(e) BY <1>1 DEF Next
<1>3. ~Receive(e) /\ ~Lose(e) BY DEF Receive, Lose
<1>4. /\ ~KillLame(e) /\ ~Negotiate(e) /\ ~Start(e) /\ ~Activate(e) /\ ~SendKey(e)
      /\ ~GetKey(e) /\ ~Fail(e) /\ ~Transmit(e) /\ ~WriteAck(e)
  BY DEF KillLame, Negotiate, Start, Activate, SendKey, GetKey, Fail, Transmit, WriteAck,
         SetPrimary, Sent
<1>5. Renegotiate(e) BY <1>2, <1>3, <1>4 DEF TlsProcess
<1>6. QED BY <1>5 DEF Renegotiate

\* Every step keeps the two ends good, on a network without stale packets.
LEMMA GoodStep == KeyIInv /\ NoStale /\ [Next]_vars => KeyIInv'
<1> SUFFICES ASSUME TypeOK, ~stray /\ ~rushed => Good, NoStale, [Next]_vars
             PROVE  TypeOK' /\ (~stray' /\ ~rushed' => Good')
  BY DEF KeyIInv
<1>1. CASE UNCHANGED vars
  <2>1. TypeOK' BY TypeStep
  <2>2. stray' = stray /\ rushed' = rushed BY <1>1 DEF vars
  <2>3. key' = key /\ next' = next /\ over' = over /\ now' = now /\ net' = net BY <1>1 DEF vars
  <2>4. "client" \in Ends BY DEF Ends
  <2>5. Under("client")' = Under("client") /\ Under(Peer("client"))' = Under(Peer("client"))
    BY <2>3 DEF Under
  <2>6. Good => Good' BY <2>1, <2>3, <2>4, <2>5, QuietGood
  <2>7. QED BY <2>1, <2>2, <2>6
<1>2. CASE Next /\ rushed
  <2>1. TypeOK' BY <1>2, TypeStep
  <2>2. rushed' BY <1>2, RushedStays
  <2>3. QED BY <2>1, <2>2
<1>3. CASE Next /\ ~rushed
  <2>1. Good BY <1>3 DEF Next
  <2>2. CASE Tick BY <2>1, <2>2, TickGood
  <2>3. ASSUME NEW e \in Ends, TlsProcess(e) PROVE TypeOK' /\ (~rushed' => Good')
    BY <2>1, <2>3, RenegotiateGood, KillLameGood, NegotiateGood, StartGood, ActivateGood,
       SendKeyGood, GetKeyGood, FailGood, TransmitGood, WriteAckGood DEF TlsProcess
  <2>4. ASSUME NEW e \in Ends, Receive(e) PROVE TypeOK' /\ (~stray' => Good')
    BY <2>1, <2>4, ReceiveGood
  <2>5. ASSUME NEW e \in Ends, Lose(e) PROVE TypeOK' /\ Good' BY <2>1, <2>5, LoseGood
  <2>6. QED BY <1>3, <2>2, <2>3, <2>4, <2>5 DEF Next
<1>4. QED BY <1>1, <1>2, <1>3

-----------------------------------------------------------------------------
(* The data channel                                                         *)

\* The first key of a scan.
LEMMA FirstKeyIs ==
    ASSUME NEW e \in Ends, NEW hits \in SUBSET {1, 2}
    PROVE  FirstKey(e, hits) = IF 1 \in hits THEN P(e) ELSE IF 2 \in hits THEN L(e) ELSE NoKey
<1>1. Scan(e)[1] = P(e) /\ Scan(e)[2] = L(e) BY DEF Scan, P, L
<1> DEFINE c == CHOOSE i \in hits : \A j \in hits : i <= j
<1>2. CASE 1 \in hits
  <2>1. 1 \in hits /\ \A j \in hits : 1 <= j BY <1>2
  <2>2. c \in hits /\ \A j \in hits : c <= j BY <2>1
  <2>3. c = 1
    <3> HIDE DEF c
    <3>1. QED BY <1>2, <2>2
  <2>4. QED BY <1>1, <1>2, <2>3 DEF FirstKey
<1>3. CASE 1 \notin hits /\ 2 \in hits
  <2>1. hits = {2} BY <1>3
  <2>2. c \in hits BY <2>1
  <2>3. c = 2 BY <2>1, <2>2
  <2>4. QED BY <1>1, <1>3, <2>3 DEF FirstKey
<1>4. CASE hits = {} BY <1>4 DEF FirstKey
<1>5. QED BY <1>2, <1>3, <1>4

\* tls_pre_encrypt as a choice between two keys.
LEMMA EncryptIs ==
    TypeOK => \A e \in Ends :
        tls_pre_encrypt(e) =
            IF Settled(e) THEN P(e)
            ELSE IF L(e).state = S_ACTIVE /\ now >= L(e).deferred THEN L(e)
            ELSE IF P(e).state = S_ACTIVE THEN P(e)
            ELSE IF L(e).state = S_ACTIVE THEN L(e)
            ELSE NoKey
<1> SUFFICES ASSUME TypeOK, NEW e \in Ends
             PROVE  tls_pre_encrypt(e) =
                        IF Settled(e) THEN P(e)
                        ELSE IF L(e).state = S_ACTIVE /\ now >= L(e).deferred THEN L(e)
                        ELSE IF P(e).state = S_ACTIVE THEN P(e)
                        ELSE IF L(e).state = S_ACTIVE THEN L(e)
                        ELSE NoKey
  OBVIOUS
<1> DEFINE usable  == {i \in 1 .. 2 : Scan(e)[i].state >= S_ACTIVE}
           settled == {i \in usable : now >= Scan(e)[i].deferred}
<1>1. Scan(e)[1] = P(e) /\ Scan(e)[2] = L(e) BY DEF Scan, P, L
<1>2. P(e).state \in 0 .. 6 /\ L(e).state \in 0 .. 6 BY Numbers
<1>3. /\ usable \in SUBSET {1, 2} /\ settled \in SUBSET {1, 2}
      /\ 1 \in usable <=> P(e).state = S_ACTIVE
      /\ 2 \in usable <=> L(e).state = S_ACTIVE
      /\ 1 \in settled <=> Settled(e)
      /\ 2 \in settled <=> L(e).state = S_ACTIVE /\ now >= L(e).deferred
  BY <1>1, <1>2, Levels DEF Settled
<1>4. tls_pre_encrypt(e) = FirstKey(e, IF settled # {} THEN settled ELSE usable)
  BY DEF tls_pre_encrypt
<1> HIDE DEF usable, settled
<1>5. CASE settled # {}
  <2>1. tls_pre_encrypt(e) = IF 1 \in settled THEN P(e) ELSE IF 2 \in settled THEN L(e) ELSE NoKey
    BY <1>3, <1>4, <1>5, FirstKeyIs
  <2>2. 1 \in settled \/ 2 \in settled BY <1>3, <1>5
  <2>3. QED BY <1>3, <2>1, <2>2
<1>6. CASE settled = {}
  <2>1. tls_pre_encrypt(e) = IF 1 \in usable THEN P(e) ELSE IF 2 \in usable THEN L(e) ELSE NoKey
    BY <1>3, <1>4, <1>6, FirstKeyIs
  <2>2. QED BY <1>3, <1>6, <2>1
<1>7. QED BY <1>5, <1>6

\* handle_data_channel_packet as a choice between two keys.
LEMMA DecryptIs ==
    ASSUME TypeOK, NEW e \in Ends, NEW id
    PROVE  handle_data_channel_packet(e, id) =
               IF DECRYPT_KEY_ENABLED(e, P(e)) /\ P(e).key_id = id THEN P(e)
               ELSE IF DECRYPT_KEY_ENABLED(e, L(e)) /\ L(e).key_id = id THEN L(e)
               ELSE NoKey
<1> DEFINE hits == {i \in 1 .. 2 : DECRYPT_KEY_ENABLED(e, Scan(e)[i]) /\ Scan(e)[i].key_id = id}
<1>1. Scan(e)[1] = P(e) /\ Scan(e)[2] = L(e) BY DEF Scan, P, L
<1>2. /\ hits \in SUBSET {1, 2}
      /\ 1 \in hits <=> DECRYPT_KEY_ENABLED(e, P(e)) /\ P(e).key_id = id
      /\ 2 \in hits <=> DECRYPT_KEY_ENABLED(e, L(e)) /\ L(e).key_id = id
  BY <1>1
<1>3. handle_data_channel_packet(e, id) = FirstKey(e, hits) BY DEF handle_data_channel_packet
<1> HIDE DEF hits
<1>4. QED BY <1>2, <1>3, FirstKeyIs

\* An end whose session lasts always has a key to encrypt with: its own once
\* it is settled on it, the old one until then.
LEMMA EncryptGood ==
    TypeOK /\ Good => \A e \in Ends : ~over[e] =>
        \/ Settled(e) /\ tls_pre_encrypt(e) = P(e)
        \/ ~Settled(e) /\ L(e).state = S_ACTIVE /\ tls_pre_encrypt(e) = L(e)
<1> SUFFICES ASSUME TypeOK, Good, NEW e \in Ends, ~over[e]
             PROVE  \/ Settled(e) /\ tls_pre_encrypt(e) = P(e)
                    \/ ~Settled(e) /\ L(e).state = S_ACTIVE /\ tls_pre_encrypt(e) = L(e)
  OBVIOUS
<1>1. SerialOk(e) /\ ClockOk(e) BY Unfold
<1>2. /\ now \in Nat /\ P(e).serial \in Nat /\ P(e).deferred \in Nat /\ HandshakeWindow \in Nat
  BY Numbers, Constants
<1>3. CASE Settled(e) BY <1>3, EncryptIs
<1>4. CASE ~Settled(e)
  <2>1. L(e).state = S_ACTIVE
    <3>1. SUFFICES ASSUME L(e).state = S_UNDEF PROVE FALSE BY <1>1 DEF SerialOk
    <3>2. CASE P(e).serial = 0 BY <1>1, <1>2, <1>4, <3>2 DEF SerialOk, Settled
    <3>3. CASE P(e).serial > 0
      <4>1. P(e).state = S_ACTIVE /\ now >= P(e).deferred + HandshakeWindow
        BY <1>1, <3>1, <3>3 DEF ClockOk
      <4>2. QED BY <1>2, <1>4, <4>1 DEF Settled
    <3>4. QED BY <1>2, <3>2, <3>3
  <2>2. now >= L(e).deferred BY <1>1, <2>1 DEF SerialOk
  <2>3. QED BY <1>4, <2>1, <2>2, EncryptIs
<1>5. QED BY <1>3, <1>4

\* An end whose primary key is one ahead of its peer's has its peer's key as
\* its old one, and has not made its own active.
LEMMA AheadHasOld ==
    ASSUME TypeOK, Good, NEW e \in Ends, ~over[e], ~over[Peer(e)],
           P(e).serial = P(Peer(e)).serial + 1
    PROVE  /\ P(e).state # S_ACTIVE /\ L(e).state = S_ACTIVE
           /\ L(e).serial = P(Peer(e)).serial /\ L(e).key_id = IdOf(P(Peer(e)).serial)
<1> DEFINE p == Peer(e)
<1>1. p \in Ends BY Peers
<1>2. SerialOk(e) /\ ClockOk(e) /\ DialogOk(e) /\ PairOk(e) BY Unfold
<1>3. P(e).serial \in Nat /\ P(p).serial \in Nat /\ L(e).serial \in Nat /\ P(e).serial > 0
  BY <1>1, Numbers
<1>4. P(e).state # S_ACTIVE
  <2>1. SUFFICES ASSUME P(e).state = S_ACTIVE PROVE FALSE OBVIOUS
  <2>2. 0 \in P(e).rec BY <1>2, <1>3, <2>1 DEF DialogOk, HasGot
  <2>3. Told(p, P(e).serial, 0) BY <1>2, <1>3, <2>2 DEF PairOk
  <2>4. QED BY <1>3, <2>3 DEF Told, Beyond
<1>5. L(e).state = S_ACTIVE BY <1>2, <1>3, <1>4 DEF SerialOk, ClockOk
<1>6. L(e).serial + 1 = P(e).serial /\ L(e).key_id = IdOf(L(e).serial) BY <1>2, <1>5 DEF SerialOk
<1>7. L(e).serial = P(p).serial BY <1>3, <1>6
<1>8. QED BY <1>4, <1>5, <1>6, <1>7

\* The peer finds the key of a packet, and it is the key it was encrypted with.
LEMMA DecryptGood ==
    ASSUME TypeOK, Good, NEW e \in Ends, ~over[e], ~over[Peer(e)]
    PROVE  LET found == handle_data_channel_packet(Peer(e), tls_pre_encrypt(e).key_id)
           IN  found # NoKey /\ found.serial = tls_pre_encrypt(e).serial
<1> DEFINE p == Peer(e)
           id == tls_pre_encrypt(e).key_id
           found == handle_data_channel_packet(p, id)
<1>1. p \in Ends /\ Peer(p) = e /\ (e = "server" \/ p = "server") /\ (e = "server" => p = "client")
  BY Peers
<1>2. /\ SerialOk(e) /\ ClockOk(e) /\ DialogOk(e) /\ PairOk(e)
      /\ SerialOk(p) /\ ClockOk(p)
      /\ AheadOk(e) /\ AheadOk(p) /\ AgreeOk(e) /\ AgreeOk(p)
  BY <1>1, Unfold
<1>3. /\ now \in Nat /\ HandshakeWindow \in Nat
      /\ P(e).serial \in Nat /\ P(e).deferred \in Nat /\ L(e).serial \in Nat
      /\ P(e).state \in 0 .. 6
      /\ P(p).serial \in Nat /\ P(p).deferred \in Nat /\ P(p).established \in Nat
      /\ P(p).state \in 0 .. 6 /\ L(p).serial \in Nat
  BY <1>1, Numbers, Constants
<1>4. \/ P(p).serial = P(e).serial
      \/ P(p).serial = P(e).serial + 1
      \/ P(e).serial = P(p).serial + 1
  <2>1. P(p).serial <= P(e).serial + 1 /\ P(e).serial <= P(p).serial + 1
    BY <1>1, <1>2 DEF AheadOk
  <2>2. QED BY <1>3, <2>1
<1>5. found = IF DECRYPT_KEY_ENABLED(p, P(p)) /\ P(p).key_id = id THEN P(p)
              ELSE IF DECRYPT_KEY_ENABLED(p, L(p)) /\ L(p).key_id = id THEN L(p)
              ELSE NoKey
  BY <1>1, DecryptIs
<1>6. \A ks : ks.state = S_ACTIVE => DECRYPT_KEY_ENABLED(p, ks) BY Levels DEF DECRYPT_KEY_ENABLED
<1>7. \A ks : ks.state >= S_SENT_KEY => ks # NoKey
  <2>1. ~(NoKey.state >= S_SENT_KEY) BY NoKeyFields, Levels
  <2>2. QED BY <2>1
<1>8. P(e).key_id = IdOf(P(e).serial) /\ P(p).key_id = IdOf(P(p).serial) BY <1>2 DEF SerialOk
<1>9. S_ACTIVE >= S_SENT_KEY BY Levels
<1>10. CASE Settled(e) /\ tls_pre_encrypt(e) = P(e)
  <2>1. id = IdOf(P(e).serial) /\ P(e).state = S_ACTIVE /\ now >= P(e).deferred
    BY <1>8, <1>10 DEF Settled
  <2>2. CASE P(p).serial = P(e).serial
    <3>1. P(p).state >= S_SENT_KEY /\ ~(e = "server" /\ P(p).state = S_SENT_KEY)
      BY <1>2, <1>3, <2>1, <2>2 DEF AgreeOk
    <3>2. DECRYPT_KEY_ENABLED(p, P(p)) BY <1>1, <1>3, <3>1, Levels DEF DECRYPT_KEY_ENABLED
    <3>3. found = P(p) BY <1>5, <1>8, <2>1, <2>2, <3>2
    <3>4. QED BY <1>7, <1>10, <2>2, <3>1, <3>3
  <2>3. CASE P(p).serial = P(e).serial + 1
    <3>1. /\ L(p).state = S_ACTIVE /\ L(p).serial = P(e).serial
          /\ L(p).key_id = IdOf(P(e).serial)
      BY <1>1, <2>3, AheadHasOld
    <3>2. IdOf(P(e).serial) # IdOf(P(e).serial + 1) BY <1>3, IdStep
    <3>3. found = L(p) BY <1>5, <1>6, <1>8, <2>1, <2>3, <3>1, <3>2
    <3>4. L(p) # NoKey BY <1>7, <1>9, <3>1
    <3>5. QED BY <1>10, <3>1, <3>3, <3>4
  <2>4. CASE P(e).serial = P(p).serial + 1 BY <2>1, <2>4, AheadHasOld
  <2>5. QED BY <1>4, <2>2, <2>3, <2>4
<1>11. CASE ~Settled(e) /\ L(e).state = S_ACTIVE /\ tls_pre_encrypt(e) = L(e)
  <2>1. /\ L(e).serial + 1 = P(e).serial /\ L(e).key_id = IdOf(L(e).serial)
        /\ id = IdOf(L(e).serial)
    BY <1>2, <1>11 DEF SerialOk
  <2>2. IdOf(L(e).serial) # IdOf(L(e).serial + 1) BY <1>3, IdStep
  <2>3. CASE P(p).serial = P(e).serial
    <3>1. P(p).key_id # id BY <1>8, <2>1, <2>2, <2>3
    <3>2. L(p).state = S_ACTIVE
      <4>1. SUFFICES ASSUME L(p).state = S_UNDEF PROVE FALSE BY <1>2 DEF SerialOk
      <4>2. P(p).serial > 0 BY <1>3, <2>1, <2>3
      <4>3. P(p).state = S_ACTIVE /\ now >= P(p).deferred + HandshakeWindow
        BY <1>2, <4>1, <4>2 DEF ClockOk
      <4>4. P(p).established < P(p).deferred BY <1>2, <4>2, <4>3 DEF ClockOk
      <4>5. P(e).deferred <= P(p).established + HandshakeWindow /\ P(e).state >= S_SENT_KEY
        BY <1>1, <1>2, <2>3, <4>3 DEF AgreeOk
      <4>6. now > P(e).deferred BY <1>3, <4>3, <4>4, <4>5
      <4>7. P(e).state # S_ACTIVE BY <1>3, <1>11, <4>6 DEF Settled
      <4>8. P(e).state \in Handshake BY <1>3, <4>5, <4>7, Levels
      <4>9. now <= P(e).deferred BY <1>2, <4>8 DEF ClockOk
      <4>10. QED BY <1>3, <4>6, <4>9
    <3>3. L(p).serial + 1 = P(p).serial /\ L(p).key_id = IdOf(L(p).serial)
      BY <1>2, <3>2 DEF SerialOk
    <3>4. L(p).serial = L(e).serial BY <1>3, <2>1, <2>3, <3>3
    <3>5. found = L(p) BY <1>5, <1>6, <2>1, <3>1, <3>2, <3>3, <3>4
    <3>6. L(p) # NoKey BY <1>7, <1>9, <3>2
    <3>7. QED BY <1>11, <3>4, <3>5, <3>6
  <2>4. CASE P(p).serial = P(e).serial + 1 BY <1>2, <1>11, <2>4 DEF AheadOk
  <2>5. CASE P(e).serial = P(p).serial + 1
    <3>1. P(p).state = S_ACTIVE BY <1>1, <1>2, <2>5 DEF AheadOk, Settled
    <3>2. P(p).serial = L(e).serial BY <1>3, <2>1, <2>5
    <3>3. found = P(p) BY <1>5, <1>6, <1>8, <2>1, <3>1, <3>2
    <3>4. P(p) # NoKey BY <1>7, <1>9, <3>1
    <3>5. QED BY <1>11, <3>2, <3>3, <3>4
  <2>6. QED BY <1>4, <2>3, <2>4, <2>5
<1>12. QED BY <1>10, <1>11, EncryptGood

\* The inductive invariant gives the invariant of the run.
LEMMA KeyIInvImplies == KeyIInv => KeyInv
<1> SUFFICES ASSUME KeyIInv PROVE KeyInv OBVIOUS
<1>1. TypeOK BY DEF KeyIInv
<1>2. PeerCanDecrypt BY <1>1, DecryptGood DEF KeyIInv, PeerCanDecrypt
<1>3. QED BY <1>1, <1>2 DEF KeyInv

\* When there is a key to encrypt with.
LEMMA CanEncrypt ==
    TypeOK => \A e \in Ends :
        tls_pre_encrypt(e) # NoKey <=> P(e).state = S_ACTIVE \/ L(e).state = S_ACTIVE
<1> SUFFICES ASSUME TypeOK, NEW e \in Ends
             PROVE  tls_pre_encrypt(e) # NoKey <=> P(e).state = S_ACTIVE \/ L(e).state = S_ACTIVE
  OBVIOUS
<1>1. NoKey.state # S_ACTIVE BY NoKeyFields, Levels
<1>2. P(e).state = S_ACTIVE => P(e) # NoKey BY <1>1
<1>3. L(e).state = S_ACTIVE => L(e) # NoKey BY <1>1
<1>4. Settled(e) => P(e).state = S_ACTIVE BY DEF Settled
<1>5. QED BY <1>2, <1>3, <1>4, EncryptIs

\* The same after a step.
LEMMA CanEncryptNext ==
    /\ (TypeOK => \A e \in Ends :
           tls_pre_encrypt(e) # NoKey <=> P(e).state = S_ACTIVE \/ L(e).state = S_ACTIVE)'
    /\ (TypeOK /\ Good => \A e \in Ends : ~over[e] =>
           \/ Settled(e) /\ tls_pre_encrypt(e) = P(e)
           \/ ~Settled(e) /\ L(e).state = S_ACTIVE /\ tls_pre_encrypt(e) = L(e))'
BY CanEncrypt, EncryptGood, PTL

\* No step takes the key to encrypt with away from an end.
LEMMA SendKeyStep ==
    KeyIInv /\ KeyIInv' /\ [Next]_vars =>
        \A e \in Ends : tls_pre_encrypt(e) # NoKey =>
            \/ tls_pre_encrypt(e)' # NoKey
            \/ over[e] /\ lame_duck_must_die(e)
            \/ over'[e] /\ ~over[e] /\ key[e].lame.state = S_UNDEF
            \/ stray' \/ rushed
<1> SUFFICES ASSUME KeyIInv, KeyIInv', [Next]_vars, NEW e \in Ends,
                    tls_pre_encrypt(e) # NoKey, ~stray', ~rushed,
                    ~(over[e] /\ lame_duck_must_die(e)),
                    ~(over'[e] /\ ~over[e] /\ L(e).state = S_UNDEF)
             PROVE  tls_pre_encrypt(e)' # NoKey
  BY DEF L
<1>1. TypeOK /\ TypeOK' BY DEF KeyIInv
<1>2. ~rushed' => Good' BY DEF KeyIInv
<1>4. tls_pre_encrypt(e)' # NoKey <=> P(e)'.state = S_ACTIVE \/ L(e)'.state = S_ACTIVE
  BY <1>1, CanEncryptNext
<1>5. P(e).state = S_ACTIVE \/ L(e).state = S_ACTIVE BY <1>1, CanEncrypt
<1>3. CASE rushed'
  <2>1. ~UNCHANGED vars BY <1>3 DEF vars
  <2>2. PICK x \in Ends : Renegotiate(x) BY <1>3, <2>1, RushedStays
  <2>3. /\ key'[Peer(x)] = key[Peer(x)] /\ L(x)' = Retired(P(x)) /\ P(x).state = S_ACTIVE
    BY <1>1, <2>2, RenegotiateEffect DEF Resets
  <2>4. Retired(P(x)).state = P(x).state BY <1>1, Typed, RetiredFields
  <2>5. e = x \/ e = Peer(x) BY Peers
  <2>6. CASE e = x BY <1>4, <2>3, <2>4, <2>6
  <2>7. CASE e = Peer(x)
    <3>1. P(e)' = P(e) /\ L(e)' = L(e) BY <2>3, <2>7 DEF P, L
    <3>2. QED BY <1>4, <1>5, <3>1
  <2>8. QED BY <2>5, <2>6, <2>7
<1>6. CASE ~over'[e] /\ ~rushed'
  <2>2. Settled(e)' \/ L(e)'.state = S_ACTIVE BY <1>1, <1>2, <1>6, CanEncryptNext
  <2>3. Settled(e)' => P(e)'.state = S_ACTIVE BY DEF Settled
  <2>4. QED BY <1>4, <2>2, <2>3
<1>7. CASE key'[e] = key[e]
  <2>1. P(e)' = P(e) /\ L(e)' = L(e) BY <1>7 DEF P, L
  <2>2. QED BY <1>4, <1>5, <2>1
<1>8. CASE over'[e] /\ key'[e] # key[e]
  <2>1. ~UNCHANGED vars BY <1>8 DEF vars
  <2>2. ~Tick BY <1>8 DEF Tick
  <2>3. ~stray BY <2>1 DEF Next
  <2>4. PICK x \in Ends : TlsProcess(x) \/ Receive(x) \/ Lose(x) BY <2>1, <2>2 DEF Next
  <2>5. Peer(x) \in Ends /\ (e = x \/ e = Peer(x)) BY Peers
  <2>6. (~over[x] /\ over'[x] /\ Fail(x)) \/ over' = over
    <3>1. CASE TlsProcess(x)
      BY <3>1, <1>1, FailEffect DEF TlsProcess, Renegotiate, KillLame, Negotiate, Start, Activate,
         SendKey, GetKey, Transmit, WriteAck, SetPrimary, Sent
    <3>2. CASE Receive(x) BY <3>2 DEF Receive
    <3>3. CASE Lose(x) BY <3>3 DEF Lose
    <3>4. QED BY <2>4, <3>1, <3>2, <3>3
  <2>7. CASE Fail(x)
    <3>1. /\ key'[Peer(x)] = key[Peer(x)] /\ ~over[x]
          /\ L(x)' = (IF L(x).state >= S_ACTIVE THEN L(x) ELSE NoKey)
      BY <1>1, <2>7, FailEffect
    <3>2. e = x BY <1>8, <2>5, <3>1
    <3>3. Good BY <2>3 DEF KeyIInv
    <3>4. SerialOk(e) BY <1>1, <3>1, <3>2, <3>3, Unfold
    <3>5. L(e).state = S_ACTIVE /\ L(e).state >= S_ACTIVE
      BY <1>8, <3>1, <3>2, <3>4, Levels DEF SerialOk
    <3>6. L(e)' = L(e) BY <3>1, <3>2, <3>5
    <3>7. QED BY <1>4, <3>5, <3>6
  <2>8. CASE over' = over /\ KillLame(x)
    <3>1. key'[Peer(x)] = key[Peer(x)] BY <1>1, <2>8, KillLameEffect
    <3>2. e = x BY <1>8, <2>5, <3>1
    <3>3. QED BY <1>8, <2>8, <3>2 DEF KillLame
  <2>9. CASE over' = over /\ ~KillLame(x) /\ ~Fail(x)
    <3>1. over[e] BY <1>8, <2>9
    <3>2. CASE TlsProcess(x)
      <4>1. ~over[x] /\ key'[Peer(x)] = key[Peer(x)]
        <5>1. CASE Renegotiate(x) BY <1>1, <5>1, RenegotiateEffect DEF Resets
        <5>2. CASE Negotiate(x) BY <1>1, <5>2, NegotiateEffect DEF InPlace
        <5>3. CASE Activate(x) BY <1>1, <5>3, ActivateEffect DEF InPlace
        <5>4. CASE SendKey(x) BY <1>1, <5>4, SendKeyEffect DEF InPlace
        <5>5. CASE Start(x) \/ GetKey(x) \/ Transmit(x) \/ WriteAck(x)
          <6>1. ~over[x]
            BY <5>5 DEF Start, StartStage, GetKey, GetKeyStage, Stage, Transmit, WriteAck, Processing
          <6>2. PICK ks : key' = [key EXCEPT ![x].primary = ks]
            BY <5>5 DEF Start, GetKey, Transmit, WriteAck, SetPrimary, Sent
          <6>3. key'[Peer(x)] = key[Peer(x)] BY <1>1, <2>5, <6>2, Peers DEF TypeOK
          <6>4. QED BY <6>1, <6>3
        <5>6. QED BY <2>9, <3>2, <5>1, <5>2, <5>3, <5>4, <5>5 DEF TlsProcess
      <4>2. QED BY <1>8, <2>5, <3>1, <4>1
    <3>3. CASE Receive(x)
      <4>1. \/ over[x] /\ key' = key
            \/ ~over[x] /\ key'[Peer(x)] = key[Peer(x)]
        BY <1>1, <3>3, ReceiveEffect DEF InPlace, Resets
      <4>2. QED BY <1>8, <2>5, <3>1, <4>1
    <3>4. CASE Lose(x) BY <1>8, <3>4 DEF Lose
    <3>5. QED BY <2>4, <3>2, <3>3, <3>4
  <2>10. QED BY <2>6, <2>7, <2>8, <2>9
<1>9. QED BY <1>3, <1>6, <1>7, <1>8

-----------------------------------------------------------------------------
(* The theorems                                                             *)

\* Types, on any network: key ids always fit their field of the packet header,
\* however often key_state_init counts them round.
THEOREM RekeyTypes == Spec => []TypeOK
<1>1. Init => TypeOK BY InitGood
<1>2. QED BY <1>1, TypeStep, PTL DEF Spec

\* KeyInv of the run, for any windows in their proportion, any periods and any
\* number of renegotiations, TLS errors, losses and overtaken packets: until a
\* delayed reset is obeyed or a key is renegotiated by volume before two
\* handshakes fitted into its life, the key with which an end encrypts (tls_pre_encrypt) is the key its peer finds for the id
\* (handle_data_channel_packet), on a network where a control packet does not
\* outlive the reuse of its key id.
THEOREM PeersAgree == Spec /\ []NoStale => []KeyInv
<1>1. Init => KeyIInv BY InitGood DEF KeyIInv
<1>2. QED BY <1>1, GoodStep, KeyIInvImplies, PTL DEF Spec

\* KeepsSendKey of the run, under the same assumption: neither a renegotiation,
\* early or late, nor a failure while the old key lives leaves an end without a
\* key to encrypt with.
THEOREM SendKeyKept == Spec /\ []NoStale => KeepsSendKey
<1>1. Init => KeyIInv BY InitGood DEF KeyIInv
<1>2. KeyIInv /\ KeyIInv' /\ [Next]_vars =>
         [\A e \in Ends : tls_pre_encrypt(e) # NoKey =>
             \/ tls_pre_encrypt(e)' # NoKey
             \/ over[e] /\ lame_duck_must_die(e)
             \/ over'[e] /\ ~over[e] /\ key[e].lame.state = S_UNDEF
             \/ stray' \/ rushed]_vars
  BY SendKeyStep
<1>3. QED BY <1>1, <1>2, GoodStep, PTL DEF Spec, KeepsSendKey

=====
