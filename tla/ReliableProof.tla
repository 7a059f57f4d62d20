--------------------------- MODULE ReliableProof ---------------------------
(***************************************************************************)
(* Proofs about Reliable: the reliability layer implements a FIFO channel, *)
(* whatever the sizes of its buffers and the number of messages.           *)
(***************************************************************************)
EXTENDS Reliable, FiniteSetTheorems, SequenceTheorems, TLAPS

-----------------------------------------------------------------------------
(* Ids                                                                     *)

\* What the constants are.
LEMMA Constants ==
  /\ SendSize \in Nat \ {0} /\ RecSize \in Nat \ {0} /\ AckSize \in Nat \ {0}
  /\ SendAckMax \in Nat \ {0} /\ MaxMsgs \in Nat /\ Half \in Nat \ {0}
  /\ MaxMsgs <= Half /\ RecSize < Half /\ 2^IdWidth = 2 * Half
BY ReliableAssumption, IdAssumption

\* Remainders of numbers that are at most one modulus too large.
LEMMA SmallMod ==
  ASSUME NEW m \in Nat \ {0}, NEW x \in Nat
  PROVE  /\ x < m => x % m = x
         /\ m <= x /\ x < 2 * m => x % m = x - m
<1>1. x < m => x % m = x BY SMT
<1>2. m <= x /\ x < 2 * m => x % m = x - m BY SMT
<1>3. QED BY <1>1, <1>2

\* The ids of messages do not wrap.
LEMMA WrapSame ==
  ASSUME NEW n \in Nat, n < 2 * Half
  PROVE  Wrap(n) = n
<1>1. n % (2 * Half) = n BY Constants, SmallMod
<1>2. QED BY <1>1, Constants DEF Wrap

\* reliable_pid_min compares numbers.
LEMMA MinMeans ==
  ASSUME NEW a \in Nat, NEW b \in Nat, a < Half, b <= Half
  PROVE  reliable_pid_min(a, b) <=> a < b
<1> DEFINE m == 2 * Half
<1>0. Half \in Nat \ {0} /\ m \in Nat \ {0} BY Constants
<1>1. Minus(a, b) = (a + m - b) % m BY Constants DEF Minus
<1> DEFINE x == a + m - b
<1>2. x \in Nat BY <1>0
<1>3. CASE a < b
  <2>0. x < m BY <1>0, <1>3
  <2>1. x % m = x
    <3> HIDE DEF m, x
    <3> QED BY <1>0, <1>2, <2>0, SmallMod
  <2>2. ~ (a + m - b < Half) BY <1>0
  <2>3. QED BY <1>1, <1>3, <2>1, <2>2 DEF reliable_pid_min, reliable_pid_in_range1
<1>4. CASE ~ (a < b)
  <2>0. m <= x /\ x < 2 * m BY <1>0, <1>4
  <2>1. x % m = x - m
    <3> HIDE DEF m, x
    <3> QED BY <1>0, <1>2, <2>0, SmallMod
  <2>2. (a + m - b) - m < Half BY <1>0, <1>4
  <2>3. QED BY <1>1, <1>4, <2>1, <2>2 DEF reliable_pid_min, reliable_pid_in_range1
<1>5. QED BY <1>3, <1>4

\* The range test of the receive buffer compares numbers.
LEMMA RangeMeans ==
  ASSUME NEW a \in Nat, NEW b \in Nat, b <= Half
  PROVE  reliable_wont_break_sequentiality(a) /\ recId = b <=> a < b + RecSize /\ recId = b
<1>1. Wrap(b + RecSize) = b + RecSize BY Constants, WrapSame
<1>2. Wrap(b + RecSize) >= b BY <1>1, Constants
<1>3. QED
  BY <1>1, <1>2 DEF reliable_wont_break_sequentiality, reliable_pid_in_range2

-----------------------------------------------------------------------------
(* The invariant                                                           *)

\* A record that carries a message: its id is the message's number less one.
Sound(p) == p.msg \in 1 .. given /\ p.id = p.msg - 1

SendEntries == [id : Ids, msg : Msgs, due : BOOLEAN]

\* The counters count.
CountInv ==
  /\ given \in 0 .. MaxMsgs /\ sendId = given
  /\ delivered \in Seq(Msgs) /\ recId = Len(delivered) /\ Len(delivered) <= given

\* What is buffered or under way is sound.
PacketInv ==
  /\ send \subseteq SendEntries /\ \A e \in send : Sound(e)
  /\ net \subseteq Entries /\ \A p \in net : Sound(p)
  /\ rec \subseteq Entries
  /\ \A p \in rec : Sound(p) /\ recId <= p.id /\ p.id < recId + RecSize

\* The buffers are finite and not too long.
SizeInv ==
  /\ IsFiniteSet(send) /\ Cardinality(send) <= SendSize
  /\ IsFiniteSet(rec) /\ Cardinality(rec) <= RecSize

\* The receiver has the message of an id.
Has(id) == id < recId \/ \E e \in rec : e.id = id

\* It has it after the step.
HasNext(id) == id < recId' \/ \E e \in rec' : e.id = id

\* What is acknowledged, the receiver has; what the sender has forgotten too.
AckInv ==
  /\ ackq \in Seq(Ids) /\ Len(ackq) <= AckSize
  /\ \A i \in 1 .. Len(ackq) : Has(ackq[i])
  /\ ackNet \subseteq Ids /\ \A id \in ackNet : Has(id)

ForgetInv == \A m \in 1 .. given : (\A e \in send : e.msg # m) => Has(m - 1)

IInv == CountInv /\ PacketInv /\ SizeInv /\ AckInv /\ ForgetInv

\* Messages and ids are numbers in their ranges.
LEMMA Ranges ==
  ASSUME CountInv
  PROVE  /\ given \in Nat /\ recId \in Nat /\ recId <= given /\ given <= MaxMsgs
         /\ MaxMsgs <= Half /\ 0 .. MaxMsgs \subseteq Ids
         /\ Len(delivered) \in Nat
         /\ \A p : Sound(p) => p.id \in Nat /\ p.id < given /\ p.id < Half /\ p.id \in Ids
                               /\ p.msg \in Msgs
<1>1. Len(delivered) \in Nat BY DEF CountInv
<1>2. /\ given \in Nat /\ recId \in Nat /\ recId <= given /\ given <= MaxMsgs
      /\ MaxMsgs <= Half
  BY <1>1, Constants DEF CountInv
<1>3. 0 .. MaxMsgs \subseteq Ids BY Constants DEF Ids
<1>4. ASSUME NEW p, Sound(p)
      PROVE  p.id \in Nat /\ p.id < given /\ p.id < Half /\ p.id \in Ids /\ p.msg \in Msgs
  BY <1>2, <1>3, <1>4, Constants DEF Sound, Msgs
<1>5. QED BY <1>1, <1>2, <1>3, <1>4

\* Packets with one id are one packet.
LEMMA SameId ==
  ASSUME CountInv, NEW p \in Entries, NEW q \in Entries, Sound(p), Sound(q), p.id = q.id
  PROVE  p = q
<1>1. p.msg = q.msg BY Ranges DEF Sound, Msgs
<1>2. p = [id |-> p.id, msg |-> p.msg] /\ q = [id |-> q.id, msg |-> q.msg] BY DEF Entries
<1>3. QED BY <1>1, <1>2

-----------------------------------------------------------------------------
(* Steps                                                                   *)

\* mark_active_outgoing: one more message, with the next id.
LEMMA GiveStep ==
  ASSUME IInv, Give
  PROVE  IInv'
<1> DEFINE new == [id |-> sendId, msg |-> given + 1, due |-> TRUE]
<1>0. CountInv /\ PacketInv /\ SizeInv /\ AckInv /\ ForgetInv BY DEF IInv
<1>1. /\ given < MaxMsgs /\ given' = given + 1 /\ send' = send \cup {new}
      /\ sendId' = Wrap(sendId + 1) /\ Cardinality(send) < SendSize
      /\ UNCHANGED <<rec, recId, delivered, ackq, net, ackNet>>
  BY DEF Give, OutputSequenced, recVars
<1>2. CountInv'
  <2>1. sendId' = given + 1 BY <1>0, <1>1, WrapSame, Ranges, Constants DEF CountInv
  <2>2. given \in Nat /\ Len(delivered) \in Nat BY <1>0, Ranges
  <2>3. QED BY <1>0, <1>1, <2>1, <2>2, Constants DEF CountInv
<1>3. \A p : Sound(p) => Sound(p)' BY <1>0, <1>1, Ranges DEF Sound
<1>4. new.msg \in 1 .. given + 1 /\ new.id = new.msg - 1 BY <1>0, Ranges DEF CountInv
<1>5. new \in SendEntries
  <2>1. sendId \in Ids /\ given + 1 \in Msgs BY <1>0, <1>1, Ranges, Constants DEF CountInv, Msgs
  <2>2. QED BY <2>1 DEF SendEntries
<1>6. PacketInv'
  <2>1. send' \subseteq SendEntries BY <1>0, <1>1, <1>5 DEF PacketInv
  <2>2. ASSUME NEW e \in send' PROVE Sound(e)'
    <3>1. CASE e \in send BY <1>0, <1>3, <3>1 DEF PacketInv
    <3>2. CASE e = new BY <1>1, <1>4, <3>2 DEF Sound
    <3>3. QED BY <1>1, <2>2, <3>1, <3>2
  <2>3. QED BY <1>0, <1>1, <1>3, <2>1, <2>2 DEF PacketInv
<1>7. SizeInv'
  <2>1. /\ IsFiniteSet(send \cup {new})
        /\ Cardinality(send \cup {new}) = IF new \in send THEN Cardinality(send)
                                                          ELSE Cardinality(send) + 1
    BY <1>0, FS_AddElement DEF SizeInv
  <2>2. Cardinality(send) \in Nat BY <1>0, FS_CardinalityType DEF SizeInv
  <2>3. QED BY <1>0, <1>1, <2>1, <2>2, Constants DEF SizeInv
<1>8. AckInv' BY <1>0, <1>1, Zenon DEF AckInv, Has
<1>9. ForgetInv'
  <2> SUFFICES ASSUME NEW m \in 1 .. given + 1, \A e \in send' : e.msg # m
               PROVE  Has(m - 1)
    BY <1>1, Zenon DEF ForgetInv, Has
  <2>1. new \in send' /\ new.msg = given + 1 BY <1>1
  <2>2. m \in 1 .. given BY <1>0, <2>1, Ranges
  <2>3. QED BY <1>0, <1>1, <2>2 DEF ForgetInv
<1>10. QED BY <1>2, <1>6, <1>7, <1>8, <1>9 DEF IInv

\* A step that only touches the sender's entries keeps the invariant if it keeps
\* their messages, or drops what the receiver has.
LEMMA SenderStep ==
  ASSUME IInv, UNCHANGED <<sendId, given, rec, recId, delivered, ackq, ackNet>>,
         send' \subseteq SendEntries,
         \A e \in send' : Sound(e),
         \A e \in send : (\E f \in send' : f.msg = e.msg) \/ Has(e.id),
         IsFiniteSet(send') /\ Cardinality(send') <= SendSize,
         net' \subseteq Entries, \A p \in net' : Sound(p)
  PROVE  IInv'
<1>0. CountInv /\ PacketInv /\ SizeInv /\ AckInv /\ ForgetInv BY DEF IInv
<1>1. CountInv' BY <1>0, Zenon DEF CountInv
<1>2. PacketInv' BY <1>0, Zenon DEF PacketInv, Sound
<1>3. SizeInv' BY <1>0, Zenon DEF SizeInv
<1>4. AckInv' BY <1>0, Zenon DEF AckInv, Has
<1>5. ForgetInv'
  <2> SUFFICES ASSUME NEW m \in 1 .. given, \A e \in send' : e.msg # m
               PROVE  Has(m - 1)
    BY Zenon DEF ForgetInv, Has
  <2>1. CASE \A e \in send : e.msg # m BY <1>0, <2>1 DEF ForgetInv
  <2>2. ASSUME NEW e \in send, e.msg = m PROVE Has(m - 1)
    <3>1. Has(e.id) BY <2>2
    <3>2. e.id = m - 1 BY <1>0, <2>2 DEF PacketInv, Sound
    <3>3. QED BY <3>1, <3>2
  <2>3. QED BY <2>1, <2>2
<1>6. QED BY <1>1, <1>2, <1>3, <1>4, <1>5 DEF IInv

\* An entry becomes due, or waits: it stays the entry of its message.
LEMMA SwapStep ==
  ASSUME IInv, NEW e \in send, NEW d \in BOOLEAN,
         send' = (send \ {e}) \cup {[e EXCEPT !.due = d]}
  PROVE  /\ send' \subseteq SendEntries
         /\ \A f \in send' : Sound(f)
         /\ \A f \in send : \E g \in send' : g.msg = f.msg
         /\ IsFiniteSet(send') /\ Cardinality(send') <= SendSize
<1> DEFINE new == [e EXCEPT !.due = d]
<1>0. PacketInv /\ SizeInv BY DEF IInv
<1>1. e \in SendEntries /\ Sound(e) BY <1>0 DEF PacketInv
<1>2. new \in SendEntries /\ new.id = e.id /\ new.msg = e.msg BY <1>1 DEF SendEntries
<1>3. Sound(new) BY <1>1, <1>2 DEF Sound
<1>4. send' \subseteq SendEntries /\ \A f \in send' : Sound(f)
  BY <1>0, <1>2, <1>3 DEF PacketInv
<1>5. \A f \in send : \E g \in send' : g.msg = f.msg BY <1>2
<1>6. IsFiniteSet(send') /\ Cardinality(send') <= SendSize
  <2>1. IsFiniteSet(send \ {e}) /\ Cardinality(send \ {e}) = Cardinality(send) - 1
    BY <1>0, FS_RemoveElement DEF SizeInv
  <2>2. /\ IsFiniteSet((send \ {e}) \cup {new})
        /\ Cardinality((send \ {e}) \cup {new})
             = IF new \in send \ {e} THEN Cardinality(send \ {e})
                                     ELSE Cardinality(send \ {e}) + 1
    BY <2>1, FS_AddElement
  <2>3. Cardinality(send) \in Nat BY <1>0, FS_CardinalityType DEF SizeInv
  <2>4. QED BY <1>0, <2>1, <2>2, <2>3, Constants DEF SizeInv
<1>7. QED BY <1>4, <1>5, <1>6

\* reliable_send: a copy of an entry goes under way.
LEMMA SendStep ==
  ASSUME IInv, Send
  PROVE  IInv'
<1>1. PICK e \in send : /\ send' = (send \ {e}) \cup {[e EXCEPT !.due = FALSE]}
                        /\ net' = net \cup {[id |-> e.id, msg |-> e.msg]}
                        /\ UNCHANGED <<sendId, given, rec, recId, delivered, ackq, ackNet>>
  BY DEF Send, recVars
<1> DEFINE p == [id |-> e.id, msg |-> e.msg]
<1>2. PacketInv BY DEF IInv
<1>3. e \in SendEntries /\ Sound(e) BY <1>2 DEF PacketInv
<1>4. p \in Entries /\ p.id = e.id /\ p.msg = e.msg BY <1>3 DEF SendEntries, Entries
<1>5. net' \subseteq Entries /\ \A q \in net' : Sound(q)
  BY <1>1, <1>2, <1>3, <1>4 DEF PacketInv, Sound
<1>6. QED BY <1>1, <1>5, SwapStep, SenderStep

\* The clock reaches the next_try of an entry.
LEMMA TimeoutStep ==
  ASSUME IInv, NEW m, Timeout(m)
  PROVE  IInv'
<1>1. PICK e \in send : /\ send' = (send \ {e}) \cup {[e EXCEPT !.due = TRUE]}
                        /\ UNCHANGED <<sendId, given, rec, recId, delivered, ackq, net, ackNet>>
  BY DEF Timeout, recVars
<1>2. net' \subseteq Entries /\ \A q \in net' : Sound(q) BY <1>1 DEF IInv, PacketInv
<1>3. QED BY <1>1, <1>2, SwapStep, SenderStep

\* reliable_schedule_now.
LEMMA ScheduleStep ==
  ASSUME IInv, ScheduleNow
  PROVE  IInv'
<1>0. PacketInv /\ SizeInv BY DEF IInv
<1>1. /\ send' = {[e EXCEPT !.due = TRUE] : e \in send}
      /\ UNCHANGED <<sendId, given, rec, recId, delivered, ackq, net, ackNet>>
  BY DEF ScheduleNow, recVars
<1>2. \A e \in send : /\ [e EXCEPT !.due = TRUE] \in SendEntries
                      /\ [e EXCEPT !.due = TRUE].id = e.id
                      /\ [e EXCEPT !.due = TRUE].msg = e.msg
  BY <1>0 DEF PacketInv, SendEntries
<1>3. send' \subseteq SendEntries BY <1>1, <1>2
<1>4. ASSUME NEW f \in send' PROVE Sound(f)
  <2>1. PICK e \in send : f = [e EXCEPT !.due = TRUE] BY <1>1, <1>4
  <2>2. f.id = e.id /\ f.msg = e.msg BY <1>2, <2>1
  <2>3. QED BY <1>0, <2>2 DEF PacketInv, Sound
<1>5. \A e \in send : \E f \in send' : f.msg = e.msg BY <1>1, <1>2
<1>6. IsFiniteSet(send') /\ Cardinality(send') <= SendSize
  <2> DEFINE h == [e \in send |-> [e EXCEPT !.due = TRUE]]
  <2>1. h \in Surjection(send, send') BY <1>1 DEF Surjection
  <2>2. IsFiniteSet(send') /\ Cardinality(send') <= Cardinality(send)
    BY <1>0, <2>1, FS_Surjection DEF SizeInv
  <2>3. Cardinality(send) \in Nat /\ Cardinality(send') \in Nat
    BY <1>0, <2>2, FS_CardinalityType DEF SizeInv
  <2>4. QED BY <1>0, <2>2, <2>3, Constants DEF SizeInv
<1>7. net' \subseteq Entries /\ \A q \in net' : Sound(q) BY <1>0, <1>1 DEF PacketInv
<1>8. QED BY <1>1, <1>3, <1>4, <1>5, <1>6, <1>7, SenderStep

\* reliable_send_purge: an acknowledged id is one the receiver has.
LEMMA RecvAckStep ==
  ASSUME IInv, NEW id \in ackNet, RecvAck(id)
  PROVE  IInv'
<1>0. PacketInv /\ SizeInv /\ AckInv BY DEF IInv
<1>1. /\ send' = {e \in send : e.id # id}
      /\ UNCHANGED <<sendId, given, rec, recId, delivered, ackq, net, ackNet>>
  BY DEF RecvAck, recVars
<1>2. Has(id) BY <1>0 DEF AckInv
<1>3. send' \subseteq SendEntries /\ (\A f \in send' : Sound(f)) BY <1>0, <1>1 DEF PacketInv
<1>4. \A e \in send : (\E f \in send' : f.msg = e.msg) \/ Has(e.id) BY <1>1, <1>2
<1>5. IsFiniteSet(send') /\ Cardinality(send') <= SendSize
  <2>1. send' \in SUBSET send BY <1>1
  <2>2. IsFiniteSet(send') /\ Cardinality(send') <= Cardinality(send)
    BY <1>0, <2>1, FS_Subset DEF SizeInv
  <2>3. Cardinality(send) \in Nat /\ Cardinality(send') \in Nat
    BY <1>0, <2>2, FS_CardinalityType DEF SizeInv
  <2>4. QED BY <1>0, <2>2, <2>3, Constants DEF SizeInv
<1>6. net' \subseteq Entries /\ \A q \in net' : Sound(q) BY <1>0, <1>1 DEF PacketInv
<1>7. QED BY <1>1, <1>3, <1>4, <1>5, <1>6, SenderStep

\* The receiver's array of acknowledgements takes an id that it has.
LEMMA AckStep ==
  ASSUME AckInv, NEW id \in Ids, NEW q, q = Acknowledge(ackq, id)
  PROVE  /\ q \in Seq(Ids) /\ Len(q) <= AckSize
         /\ \A i \in 1 .. Len(q) : q[i] = id \/ \E j \in 1 .. Len(ackq) : q[i] = ackq[j]
<1>0. ackq \in Seq(Ids) /\ Len(ackq) \in Nat /\ Len(ackq) <= AckSize BY DEF AckInv
<1>1. CASE q = ackq BY <1>0, <1>1
<1>2. CASE q = Append(ackq, id) /\ ~ (Len(ackq) >= AckSize)
  <2>1. /\ q \in Seq(Ids) /\ Len(q) = Len(ackq) + 1
        /\ \A i \in 1 .. Len(ackq) : q[i] = ackq[i]
        /\ q[Len(ackq) + 1] = id
    BY <1>0, <1>2, AppendProperties
  <2>2. Len(q) <= AckSize BY <1>0, <1>2, <2>1, Constants
  <2>3. \A i \in 1 .. Len(q) : i \in 1 .. Len(ackq) \/ i = Len(ackq) + 1 BY <1>0, <2>1
  <2>4. QED BY <2>1, <2>2, <2>3, Zenon
<1>3. QED BY <1>1, <1>2, Zenon DEF Acknowledge

\* The end of tls_pre_decrypt: what is acknowledged is in the buffer, put there
\* now or before, or was delivered.
LEMMA RecvDataStep ==
  ASSUME IInv, NEW p \in net, RecvData(p)
  PROVE  IInv'
<1>0. CountInv /\ PacketInv /\ SizeInv /\ AckInv /\ ForgetInv BY DEF IInv
<1>1. UNCHANGED <<send, sendId, given, recId, delivered, net, ackNet>>
  BY DEF RecvData, sendVars
<1>2. p \in Entries /\ Sound(p) BY <1>0 DEF PacketInv
<1>3. /\ p.id \in Nat /\ p.id < Half /\ p.id \in Ids
      /\ recId \in Nat /\ recId <= Half
  BY <1>0, <1>2, Ranges, Constants
<1>4. CASE UNCHANGED <<rec, ackq>>
  <2>1. CountInv' /\ SizeInv' BY <1>0, <1>1, <1>4, Zenon DEF CountInv, SizeInv
  <2>2. PacketInv' BY <1>0, <1>1, <1>4, Zenon DEF PacketInv, Sound
  <2>3. AckInv' /\ ForgetInv' BY <1>0, <1>1, <1>4, Zenon DEF AckInv, ForgetInv, Has
  <2>4. QED BY <2>1, <2>2, <2>3 DEF IInv
<1>5. CASE /\ reliable_can_get /\ reliable_wont_break_sequentiality(p.id)
           /\ rec' = IF reliable_not_replay(p.id) THEN rec \cup {p} ELSE rec
           /\ ackq' = Acknowledge(ackq, p.id)
  <2>1. p.id < recId + RecSize BY <1>3, <1>5, RangeMeans
  <2>2. reliable_not_replay(p.id) => recId <= p.id
    BY <1>3, MinMeans DEF reliable_not_replay
  <2>3. ~ reliable_not_replay(p.id) => Has(p.id)
    BY <1>3, MinMeans DEF reliable_not_replay, Has
  <2>4. rec \subseteq rec' BY <1>5
  <2>5. \A id : Has(id) => HasNext(id) BY <1>1, <2>4, Zenon DEF Has, HasNext
  <2>6. HasNext(p.id)
    <3>1. CASE reliable_not_replay(p.id)
      <4>1. p \in rec' BY <1>5, <3>1
      <4>2. \E e \in rec' : e.id = p.id BY <4>1
      <4>3. QED BY <4>2 DEF HasNext
    <3>2. CASE ~ reliable_not_replay(p.id) BY <2>3, <2>5, <3>2
    <3>3. QED BY <3>1, <3>2
  <2>7. CountInv' BY <1>0, <1>1, Zenon DEF CountInv
  <2>8. PacketInv'
    <3>1. rec' \subseteq Entries BY <1>0, <1>2, <1>5 DEF PacketInv
    <3>2. \A r \in rec' : Sound(r) /\ recId <= r.id /\ r.id < recId + RecSize
      BY <1>0, <1>2, <1>5, <2>1, <2>2 DEF PacketInv
    <3>3. QED BY <1>0, <1>1, <3>1, <3>2, Zenon DEF PacketInv, Sound
  <2>9. SizeInv'
    <3>1. Cardinality(rec) \in Nat /\ Cardinality(rec) < RecSize
      BY <1>0, <1>5, FS_CardinalityType DEF SizeInv, reliable_can_get
    <3>2. /\ IsFiniteSet(rec \cup {p})
          /\ Cardinality(rec \cup {p}) = IF p \in rec THEN Cardinality(rec)
                                                      ELSE Cardinality(rec) + 1
      BY <1>0, FS_AddElement DEF SizeInv
    <3>3. IsFiniteSet(rec') /\ Cardinality(rec') <= RecSize
      BY <1>0, <1>5, <3>1, <3>2, Constants DEF SizeInv
    <3>4. QED BY <1>0, <1>1, <3>3, Zenon DEF SizeInv
  <2>10. AckInv'
    <3>1. /\ ackq' \in Seq(Ids) /\ Len(ackq') <= AckSize
          /\ \A i \in 1 .. Len(ackq') :
               ackq'[i] = p.id \/ \E j \in 1 .. Len(ackq) : ackq'[i] = ackq[j]
      BY <1>0, <1>3, <1>5, AckStep
    <3>2. \A i \in 1 .. Len(ackq') : HasNext(ackq'[i])
      BY <1>0, <2>5, <2>6, <3>1, Zenon DEF AckInv
    <3>3. \A id \in ackNet : HasNext(id) BY <1>0, <2>5, Zenon DEF AckInv
    <3>4. QED BY <1>0, <1>1, <3>1, <3>2, <3>3, Zenon DEF AckInv, Has, HasNext
  <2>11. ForgetInv'
    <3> SUFFICES ASSUME NEW m \in 1 .. given, \A e \in send : e.msg # m
                 PROVE  m - 1 < recId \/ \E e \in rec' : e.id = m - 1
      BY <1>1, Zenon DEF ForgetInv, Has
    <3>1. Has(m - 1) BY <1>0 DEF ForgetInv
    <3>2. QED BY <2>4, <3>1 DEF Has
  <2>12. QED BY <2>7, <2>8, <2>9, <2>10, <2>11 DEF IInv
<1>6. QED BY <1>4, <1>5, Zenon DEF RecvData

\* What Deliver does.
LEMMA DeliverEffect ==
  ASSUME IInv, Deliver
  PROVE  /\ UNCHANGED <<send, sendId, given, ackq, net, ackNet>>
         /\ recId' = recId + 1
         /\ delivered' = Append(delivered, Len(delivered) + 1)
         /\ Len(delivered) < given
         /\ \E e \in rec : e.id = recId /\ rec' = rec \ {e}
<1>0. CountInv /\ PacketInv BY DEF IInv
<1>1. PICK e \in rec :
        /\ e.id = recId /\ rec' = rec \ {e} /\ recId' = Wrap(e.id + 1)
        /\ delivered' = Append(delivered, e.msg)
        /\ UNCHANGED <<send, sendId, given, ackq, net, ackNet>>
  BY DEF Deliver, sendVars
<1>2. Sound(e) BY <1>0 DEF PacketInv
<1>3. e.msg = Len(delivered) + 1 /\ Len(delivered) < given
  BY <1>0, <1>1, <1>2, Ranges DEF Sound, CountInv
<1>4. recId' = recId + 1
  <2>1. recId \in Nat /\ recId + 1 < 2 * Half BY <1>0, <1>1, <1>2, Ranges, Constants
  <2>2. QED BY <1>1, <2>1, WrapSame
<1>5. QED BY <1>1, <1>3, <1>4

\* reliable_get_buf_sequenced and reliable_mark_deleted.
LEMMA DeliverStep ==
  ASSUME IInv, Deliver
  PROVE  IInv'
<1>0. CountInv /\ PacketInv /\ SizeInv /\ AckInv /\ ForgetInv BY DEF IInv
<1>1. PICK e \in rec : e.id = recId /\ rec' = rec \ {e} BY DeliverEffect
<1>2. /\ UNCHANGED <<send, sendId, given, ackq, net, ackNet>>
      /\ recId' = recId + 1
      /\ delivered' = Append(delivered, Len(delivered) + 1)
      /\ Len(delivered) < given
  BY DeliverEffect
<1>3. /\ recId \in Nat /\ given \in Nat /\ Len(delivered) \in Nat /\ given <= MaxMsgs
      /\ delivered \in Seq(Msgs)
  BY <1>0, Ranges DEF CountInv
<1>4. CountInv'
  <2>1. Len(delivered) + 1 \in Msgs BY <1>2, <1>3, Constants DEF Msgs
  <2>2. delivered' \in Seq(Msgs) /\ Len(delivered') = Len(delivered) + 1
    BY <1>2, <1>3, <2>1, AppendProperties
  <2>3. QED BY <1>0, <1>2, <1>3, <2>2 DEF CountInv
<1>5. ASSUME NEW id \in Nat, Has(id) PROVE HasNext(id)
  <2>1. CASE id < recId BY <1>2, <1>3, <1>5, <2>1 DEF HasNext
  <2>2. CASE id = recId BY <1>2, <1>3, <2>2 DEF HasNext
  <2>3. CASE id # recId /\ \E f \in rec : f.id = id BY <1>1, <2>3 DEF HasNext
  <2>4. QED BY <1>5, <2>1, <2>2, <2>3 DEF Has
<1>6. PacketInv'
  <2>1. ASSUME NEW f \in rec' PROVE Sound(f) /\ recId + 1 <= f.id /\ f.id < recId + 1 + RecSize
    <3>1. f \in rec /\ f # e BY <1>1, <2>1
    <3>2. f \in Entries /\ e \in Entries /\ Sound(f) /\ Sound(e)
          /\ recId <= f.id /\ f.id < recId + RecSize
      BY <1>0, <3>1 DEF PacketInv
    <3>3. f.id # recId BY <1>0, <1>1, <3>1, <3>2, SameId
    <3>4. f.id \in Nat BY <1>0, <3>2, Ranges
    <3>5. QED BY <1>3, <3>2, <3>3, <3>4, Constants
  <2>2. \A f \in rec' : Sound(f)' /\ recId' <= f.id /\ f.id < recId' + RecSize
    BY <1>2, <2>1 DEF Sound
  <2>3. rec' \subseteq Entries BY <1>0, <1>1 DEF PacketInv
  <2>4. QED BY <1>0, <1>2, <2>2, <2>3, Zenon DEF PacketInv, Sound
<1>7. SizeInv'
  <2>1. rec' \in SUBSET rec BY <1>1
  <2>2. IsFiniteSet(rec') /\ Cardinality(rec') <= Cardinality(rec)
    BY <1>0, <2>1, FS_Subset DEF SizeInv
  <2>3. Cardinality(rec) \in Nat /\ Cardinality(rec') \in Nat
    BY <1>0, <2>2, FS_CardinalityType DEF SizeInv
  <2>4. QED BY <1>0, <1>2, <2>2, <2>3, Constants DEF SizeInv
<1>8. AckInv'
  <2>1. Ids \subseteq Nat BY Constants DEF Ids
  <2>2. \A i \in 1 .. Len(ackq) : HasNext(ackq[i])
    <3>0. ackq \in Seq(Ids) BY <1>0 DEF AckInv
    <3>1. \A i \in 1 .. Len(ackq) : ackq[i] \in Ids BY <3>0
    <3>2. \A i \in 1 .. Len(ackq) : Has(ackq[i]) BY <1>0 DEF AckInv
    <3>3. QED BY <1>5, <2>1, <3>1, <3>2
  <2>3. \A id \in ackNet : HasNext(id) BY <1>0, <1>5, <2>1 DEF AckInv
  <2>4. QED BY <1>0, <1>2, <2>2, <2>3, Zenon DEF AckInv, Has, HasNext
<1>9. ForgetInv'
  <2>1. ASSUME NEW m \in 1 .. given, \A f \in send : f.msg # m PROVE HasNext(m - 1)
    <3>1. Has(m - 1) BY <1>0, <2>1 DEF ForgetInv
    <3>2. m - 1 \in Nat BY <1>3
    <3>3. QED BY <1>5, <3>1, <3>2
  <2>2. QED BY <1>2, <2>1, Zenon DEF ForgetInv, Has, HasNext
<1>10. QED BY <1>4, <1>6, <1>7, <1>8, <1>9 DEF IInv

\* The smaller of two numbers.
LEMMA MinOfTwo ==
  ASSUME NEW a \in Nat, NEW b \in Nat
  PROVE  Min({a, b}) \in Nat /\ Min({a, b}) <= a /\ Min({a, b}) <= b
<1>1. \E x \in {a, b} : \A y \in {a, b} : x =< y
  <2>1. CASE a <= b BY <2>1
  <2>2. CASE b <= a BY <2>2
  <2>3. QED BY <2>1, <2>2
<1>2. Min({a, b}) \in {a, b} /\ \A y \in {a, b} : Min({a, b}) =< y BY <1>1 DEF Min
<1>3. QED BY <1>2

\* reliable_ack_write: ids leave the array for the network.
LEMMA WriteAckStep ==
  ASSUME IInv, NEW max \in Nat, WriteAck(max)
  PROVE  IInv'
<1> DEFINE n == Min({Len(ackq), max})
<1>0. CountInv /\ PacketInv /\ SizeInv /\ AckInv /\ ForgetInv BY DEF IInv
<1>1. /\ ackNet' = ackNet \cup {ackq[i] : i \in 1 .. n}
      /\ ackq' = SubSeq(ackq, n + 1, Len(ackq))
      /\ UNCHANGED <<send, sendId, given, rec, recId, delivered, net>>
  BY DEF WriteAck, sendVars
<1>2. ackq \in Seq(Ids) /\ Len(ackq) \in Nat /\ Len(ackq) <= AckSize BY <1>0 DEF AckInv
<1>3. n \in Nat /\ n <= Len(ackq) BY <1>2, MinOfTwo
<1> HIDE DEF n
<1>4. \A i \in 1 .. Len(ackq) : ackq[i] \in Ids /\ Has(ackq[i]) BY <1>0, <1>2 DEF AckInv
<1>5. /\ ackq' \in Seq(Ids)
      /\ Len(ackq') = IF n + 1 <= Len(ackq) THEN Len(ackq) - (n + 1) + 1 ELSE 0
      /\ \A i \in 1 .. Len(ackq) - (n + 1) + 1 : ackq'[i] = ackq[n + 1 + i - 1]
  <2>1. \A i \in n + 1 .. Len(ackq) : ackq[i] \in Ids BY <1>2, <1>3, <1>4
  <2>2. n + 1 \in Int /\ Len(ackq) \in Int BY <1>2, <1>3
  <2>3. QED BY <1>1, <2>1, <2>2, SubSeqProperties
<1>6. Len(ackq') \in Nat /\ Len(ackq') <= AckSize BY <1>2, <1>3, <1>5, Constants
<1>7. ASSUME NEW i \in 1 .. Len(ackq') PROVE Has(ackq'[i])
  <2>1. n + 1 + i - 1 \in 1 .. Len(ackq) /\ i \in 1 .. Len(ackq) - (n + 1) + 1
    BY <1>2, <1>3, <1>5, <1>7
  <2>2. QED BY <1>4, <1>5, <2>1
<1>8. ackNet' \subseteq Ids /\ \A id \in ackNet' : Has(id)
  <2>1. \A i \in 1 .. n : i \in 1 .. Len(ackq) BY <1>2, <1>3
  <2>2. QED BY <1>0, <1>1, <1>4, <2>1 DEF AckInv
<1>9. AckInv' BY <1>1, <1>5, <1>6, <1>7, <1>8, Zenon DEF AckInv, Has
<1>10. CountInv' /\ SizeInv' BY <1>0, <1>1, Zenon DEF CountInv, SizeInv
<1>11. PacketInv' BY <1>0, <1>1, Zenon DEF PacketInv, Sound
<1>12. ForgetInv' BY <1>0, <1>1, Zenon DEF ForgetInv, Has
<1>13. QED BY <1>9, <1>10, <1>11, <1>12 DEF IInv

\* The network loses something, or nothing happens.
LEMMA LoseStep ==
  ASSUME IInv, UNCHANGED <<send, sendId, given, rec, recId, delivered, ackq>>,
         net' \subseteq net, ackNet' \subseteq ackNet
  PROVE  IInv'
<1>0. CountInv /\ PacketInv /\ SizeInv /\ AckInv /\ ForgetInv BY DEF IInv
<1>1. CountInv' /\ SizeInv' BY <1>0, Zenon DEF CountInv, SizeInv
<1>2. PacketInv'
  <2>1. net' \subseteq Entries /\ \A p \in net' : Sound(p) BY <1>0 DEF PacketInv
  <2>2. QED BY <1>0, <2>1, Zenon DEF PacketInv, Sound
<1>3. AckInv'
  <2>1. ackNet' \subseteq Ids /\ \A id \in ackNet' : Has(id) BY <1>0 DEF AckInv
  <2>2. QED BY <1>0, <2>1, Zenon DEF AckInv, Has
<1>4. ForgetInv' BY <1>0, Zenon DEF ForgetInv, Has
<1>5. QED BY <1>1, <1>2, <1>3, <1>4 DEF IInv

-----------------------------------------------------------------------------
(* What the invariant says                                                 *)

\* A full receive buffer has RecSize different ids out of RecSize: all of them.
LEMMA FullDrains ==
  ASSUME IInv
  PROVE  FullBufferDrains
<1>0. CountInv /\ PacketInv /\ SizeInv BY DEF IInv
<1>1. recId \in Nat /\ RecSize \in Nat \ {0} BY <1>0, Ranges, Constants
<1> SUFFICES ASSUME Cardinality(rec) = RecSize, \A e \in rec : e.id # recId PROVE FALSE
  BY DEF FullBufferDrains
<1> DEFINE T == recId + 1 .. recId + RecSize - 1
           h == [e \in rec |-> e.id]
<1>2. h \in [rec -> T]
  <2>1. ASSUME NEW e \in rec PROVE e.id \in T
    <3>1. e.id \in Nat BY <1>0, Ranges DEF PacketInv
    <3>2. recId <= e.id /\ e.id < recId + RecSize /\ e.id # recId BY <1>0 DEF PacketInv
    <3>3. QED BY <1>1, <3>1, <3>2
  <2>2. QED BY <2>1
<1>3. IsFiniteSet(T) /\ Cardinality(T) < RecSize
  <2>1. recId + 1 \in Int /\ recId + RecSize - 1 \in Int BY <1>1
  <2>2. /\ IsFiniteSet(T)
        /\ Cardinality(T) = IF recId + 1 > recId + RecSize - 1 THEN 0
                            ELSE (recId + RecSize - 1) - (recId + 1) + 1
    BY <2>1, FS_Interval
  <2>3. QED BY <1>1, <2>2
<1>4. PICK x \in rec, y \in rec : x # y /\ h[x] = h[y]
  <2> HIDE DEF T, h
  <2> QED BY <1>0, <1>2, <1>3, FS_PigeonHole DEF SizeInv
<1>5. x.id = y.id BY <1>4
<1>6. x = y BY <1>0, <1>5, SameId DEF PacketInv
<1>7. QED BY <1>4, <1>6

\* The message that is expected next is with the sender, so its oldest entry is
\* not beyond it.
LEMMA RepeatsHeard ==
  ASSUME IInv
  PROVE  RepeatsAreHeard
<1>0. CountInv /\ PacketInv /\ ForgetInv BY DEF IInv
<1>1. /\ recId \in Nat /\ given \in Nat /\ recId <= given /\ recId <= Half
      /\ RecSize \in Nat \ {0}
  BY <1>0, Ranges, Constants
<1> SUFFICES ASSUME \A r \in rec : r.id # recId,
                    NEW e \in send, \A f \in send : e.msg <= f.msg
             PROVE  reliable_wont_break_sequentiality(e.id)
  BY DEF RepeatsAreHeard
<1>2. Sound(e) /\ e.id \in Nat /\ e.id < given BY <1>0, Ranges DEF PacketInv
<1>3. e.id <= recId
  <2>1. CASE recId = given BY <1>1, <1>2, <2>1
  <2>2. CASE recId < given
    <3>1. recId + 1 \in 1 .. given /\ (recId + 1) - 1 = recId BY <1>1, <2>2
    <3>2. ~ Has(recId) BY <1>1 DEF Has
    <3>3. PICK f \in send : f.msg = recId + 1 BY <1>0, <3>1, <3>2 DEF ForgetInv
    <3>4. QED BY <1>1, <1>2, <3>3 DEF Sound
  <2>3. QED BY <1>1, <2>1, <2>2
<1>4. e.id < recId + RecSize BY <1>1, <1>2, <1>3
<1>5. QED BY <1>1, <1>2, <1>4, RangeMeans

\* What the sender forgot the receiver has.
LEMMA Forgotten ==
  ASSUME IInv
  PROVE  ForgottenIsReceived
<1>0. CountInv /\ PacketInv /\ ForgetInv BY DEF IInv
<1> SUFFICES ASSUME NEW m \in 1 .. given, \A e \in send : e.msg # m
             PROVE  m <= Len(delivered) \/ \E e \in rec : e.msg = m
  BY DEF ForgottenIsReceived
<1>1. Has(m - 1) BY <1>0 DEF ForgetInv
<1>2. CASE m - 1 < recId BY <1>0, <1>2, Ranges DEF CountInv
<1>3. ASSUME NEW e \in rec, e.id = m - 1 PROVE e.msg = m
  BY <1>0, <1>3, Ranges DEF PacketInv, Sound
<1>4. QED BY <1>1, <1>2, <1>3 DEF Has

\* The types.
LEMMA Typed ==
  ASSUME IInv
  PROVE  TypeOK
<1>0. CountInv /\ PacketInv /\ SizeInv /\ AckInv BY DEF IInv
<1>1. sendId \in Ids /\ recId \in Ids
  <2>1. given \in 0 .. MaxMsgs /\ recId \in 0 .. MaxMsgs
    BY <1>0, Ranges, Constants
  <2>2. QED BY <1>0, <2>1, Ranges DEF CountInv
<1>2. QED
  BY <1>0, <1>1, Zenon DEF TypeOK, CountInv, PacketInv, SizeInv, AckInv, SendEntries

-----------------------------------------------------------------------------
(* Theorems                                                                *)

\* Nothing was given, buffered or sent.
LEMMA InitIInv == Init => IInv
<1> SUFFICES ASSUME Init PROVE IInv OBVIOUS
<1>1. CountInv BY Constants DEF Init, CountInv
<1>2. PacketInv BY DEF Init, PacketInv
<1>3. SizeInv BY FS_EmptySet, Constants DEF Init, SizeInv
<1>4. AckInv BY Constants DEF Init, AckInv
<1>5. ForgetInv BY DEF Init, ForgetInv
<1>6. QED BY <1>1, <1>2, <1>3, <1>4, <1>5 DEF IInv

\* Every step keeps the invariant.
LEMMA NextIInv == IInv /\ [Next]_vars => IInv'
<1> SUFFICES ASSUME IInv, [Next]_vars PROVE IInv' OBVIOUS
<1>1. CASE Give BY <1>1, GiveStep
<1>2. CASE Send BY <1>2, SendStep
<1>3. CASE ScheduleNow BY <1>3, ScheduleStep
<1>4. CASE Deliver BY <1>4, DeliverStep
<1>5. CASE Lose BY <1>5, LoseStep DEF Lose, sendVars, recVars
<1>6. CASE \E m \in Msgs : Timeout(m) BY <1>6, TimeoutStep
<1>7. CASE \E id \in ackNet : RecvAck(id) BY <1>7, RecvAckStep
<1>8. CASE \E p \in net : RecvData(p) BY <1>8, RecvDataStep
<1>9. CASE WriteAck(SendAckMax) \/ WriteAck(AckSize) BY <1>9, WriteAckStep, Constants
<1>10. CASE UNCHANGED vars BY <1>10, LoseStep DEF vars, sendVars, recVars
<1>11. QED BY <1>1, <1>2, <1>3, <1>4, <1>5, <1>6, <1>7, <1>8, <1>9, <1>10 DEF Next

(* The inductive invariant holds over every loss, repetition and order of  *)
(* packets and acknowledgements.                                           *)
THEOREM ReliableInv == Spec => []IInv
BY InitIInv, NextIInv, PTL DEF Spec

(* No array overflows, and a full receive buffer holds the packet that is  *)
(* delivered next (reliable_wont_break_sequentiality), for all sizes.      *)
THEOREM BuffersSafe == Spec => []BufferInv
<1>1. IInv => BufferInv BY FullDrains, Typed DEF BufferInv
<1>2. QED BY <1>1, ReliableInv, PTL

(* reliable_send_purge forgets only what the receiver has delivered or     *)
(* buffered.                                                               *)
THEOREM ForgottenReceived == Spec => []ForgottenIsReceived
BY Forgotten, ReliableInv, PTL

(* The oldest packet that the sender repeats passes the range test of a    *)
(* receiver that has delivered what it can, and is acknowledged again.     *)
THEOREM OldestHeard == Spec => []RepeatsAreHeard
BY RepeatsHeard, ReliableInv, PTL

(* The reliability layer implements the FIFO channel: TLS gets the packets *)
(* in the order in which they were given, each once, although the network  *)
(* loses, repeats and reorders them.                                       *)
THEOREM ReliableImplementsChannel == Spec => ImplementsChannel
<1>1. Init => Channel!ChannelInit BY DEF Init, Channel!ChannelInit
<1>2. IInv /\ [Next]_vars => [Channel!Give \/ Channel!Deliver]_<<given, delivered>>
  <2> SUFFICES ASSUME IInv, [Next]_vars
               PROVE  \/ Channel!Give \/ Channel!Deliver
                      \/ UNCHANGED <<given, delivered>>
    BY Zenon
  <2>1. CASE Give BY <2>1 DEF Give, recVars, Channel!Give
  <2>2. CASE Deliver BY <2>2, DeliverEffect DEF Channel!Deliver
  <2>3. CASE Send \/ ScheduleNow \/ Lose BY <2>3 DEF Send, ScheduleNow, Lose, sendVars, recVars
  <2>4. CASE \E m \in Msgs : Timeout(m) BY <2>4 DEF Timeout, recVars
  <2>5. CASE \E id \in ackNet : RecvAck(id) BY <2>5 DEF RecvAck, recVars
  <2>6. CASE \E p \in net : RecvData(p) BY <2>6 DEF RecvData, sendVars
  <2>7. CASE WriteAck(SendAckMax) \/ WriteAck(AckSize) BY <2>7 DEF WriteAck, sendVars
  <2>8. CASE UNCHANGED vars BY <2>8 DEF vars, sendVars, recVars
  <2>9. QED BY <2>1, <2>2, <2>3, <2>4, <2>5, <2>6, <2>7, <2>8, Zenon DEF Next
<1>3. QED BY <1>1, <1>2, ReliableInv, PTL DEF Spec, ImplementsChannel, Channel!ChannelSpec

=============================================================================
