------------------------------ MODULE Reliable -----------------------------
(***************************************************************************)
(* The reliability layer of OpenVPN's control channel (reliable.c), one    *)
(* direction of it: a sender's send_reliable, a receiver's rec_reliable    *)
(* and rec_ack, and a network that loses, repeats and reorders packets.    *)
(*                                                                         *)
(* Packet ids have a width and wrap; message k is the k-th packet handed   *)
(* to mark_active_outgoing.  The array of entries is a set: which slot a   *)
(* packet sits in makes no difference.  Time is abstract: an entry is due  *)
(* or waits for its next_try.                                              *)
(***************************************************************************)
EXTENDS Naturals, Sequences, FiniteSets, FiniteSetsExt

CONSTANTS
  IdWidth,    \* bits of packet_id_type, 32 in the code
  SendSize,   \* TLS_RELIABLE_N_SEND_BUFFERS
  RecSize,    \* TLS_RELIABLE_N_REC_BUFFERS
  AckSize,    \* RELIABLE_ACK_SIZE
  SendAckMax, \* CONTROL_SEND_ACK_MAX
  MaxMsgs     \* bound: messages of one key state

Ids  == 0 .. 2^IdWidth - 1
Half == 2^(IdWidth - 1)
Msgs == 1 .. MaxMsgs

ASSUME ReliableAssumption ==
  /\ {IdWidth, SendSize, RecSize, AckSize, SendAckMax} \subseteq Nat \ {0}
  /\ MaxMsgs \in Nat
  /\ SendSize + RecSize <= Half

\* The ids of one key state stay in the lower half of their range, where the
\* comparisons of ids are those of numbers; the rest is arithmetic.
ASSUME IdAssumption ==
  /\ Half \in Nat \ {0} /\ 2^IdWidth = 2 * Half
  /\ MaxMsgs <= Half

VARIABLES
  send,       \* active entries of send_reliable
  sendId,     \* send_reliable.packet_id: the next id to give
  given,      \* messages handed over so far
  rec,        \* active entries of rec_reliable
  recId,      \* rec_reliable.packet_id: the next id to deliver
  delivered,  \* the messages handed to the TLS object
  ackq,       \* rec_ack
  net,        \* control packets under way
  ackNet      \* acknowledged ids under way; the ids of one record travel on
              \* their own, because the sender purges them one by one

sendVars == <<send, sendId, given>>
recVars  == <<rec, recId, delivered, ackq>>
vars     == <<sendVars, recVars, net, ackNet>>

Init ==
  /\ send = {} /\ sendId = 0 /\ given = 0
  /\ rec = {} /\ recId = 0 /\ delivered = <<>> /\ ackq = <<>>
  /\ net = {} /\ ackNet = {}

-----------------------------------------------------------------------------
(* Arithmetic of packet ids, modulo 2^IdWidth.                             *)

Wrap(n) == n % 2^IdWidth
Minus(a, b) == (a + 2^IdWidth - b) % 2^IdWidth

\* "verify that test - base < extent while allowing for base or test wraparound"
reliable_pid_in_range1(test, base, extent) == Minus(test, base) < extent

\* "verify that test < base + extent while allowing for base or test wraparound"
reliable_pid_in_range2(test, base, extent) ==
  IF Wrap(base + extent) >= base
  THEN test < Wrap(base + extent)
  ELSE Wrap(test + Half) < Wrap(Wrap(base + Half) + extent)

\* "verify that p1 < p2 while allowing for p1 or p2 wraparound"
reliable_pid_min(p1, p2) == ~reliable_pid_in_range1(p1, p2, Half)

-----------------------------------------------------------------------------
(* Sending.                                                                *)

\* reliable_get_buf_output_sequenced finds a buffer: one is free, and the oldest
\* unacknowledged packet is less than a window behind.
OutputSequenced ==
  /\ \A e \in send : (\A f \in send : ~reliable_pid_min(f.id, e.id))
                       => reliable_pid_in_range1(sendId, e.id, SendSize)
  /\ Cardinality(send) < SendSize

\* reliable_mark_active_outgoing: next_try = 0, so the entry is due at once.
Give ==
  /\ given < MaxMsgs
  /\ OutputSequenced
  /\ send' = send \cup {[id |-> sendId, msg |-> given + 1, due |-> TRUE]}
  /\ sendId' = Wrap(sendId + 1)
  /\ given' = given + 1
  /\ UNCHANGED <<recVars, net, ackNet>>

\* reliable_send: the first of the entries that are due; it waits after that.
Send ==
  \E e \in send :
    /\ e.due
    /\ \A f \in send : f.due => ~reliable_pid_min(f.id, e.id)
    /\ send' = (send \ {e}) \cup {[e EXCEPT !.due = FALSE]}
    /\ net' = net \cup {[id |-> e.id, msg |-> e.msg]}
    /\ UNCHANGED <<sendId, given, recVars, ackNet>>

\* The clock reaches the next_try of the entry of message m.
Timeout(m) ==
  \E e \in send :
    /\ e.msg = m /\ ~e.due
    /\ send' = (send \ {e}) \cup {[e EXCEPT !.due = TRUE]}
    /\ UNCHANGED <<sendId, given, recVars, net, ackNet>>

\* reliable_schedule_now: a burst makes every entry due.
ScheduleNow ==
  /\ send' = {[e EXCEPT !.due = TRUE] : e \in send}
  /\ UNCHANGED <<sendId, given, recVars, net, ackNet>>

\* reliable_ack_read and reliable_send_purge.
RecvAck(id) ==
  /\ id \in ackNet
  /\ send' = {e \in send : e.id # id}
  /\ UNCHANGED <<sendId, given, recVars, net, ackNet>>

-----------------------------------------------------------------------------
(* Receiving.                                                              *)

\* Mutant: one buffer too few is used.
CanGetLess == Cardinality(rec) + 1 < RecSize

reliable_can_get == Cardinality(rec) < RecSize

reliable_not_replay(id) ==
  /\ ~reliable_pid_min(id, recId)
  /\ \A e \in rec : e.id # id

\* Mutant: any id that is not a replay will do.
WontBreakAnything(id) == id \in Ids

\* Mutant: what was delivered is out of range too.
WontBreakNewOnly(id) == reliable_pid_in_range1(id, recId, RecSize)

reliable_wont_break_sequentiality(id) == reliable_pid_in_range2(id, recId, RecSize)

\* Mutant: neither the entries of the array nor its length are looked at.
AcknowledgeAlways(q, id) == Append(q, id)

\* reliable_ack_acknowledge_packet_id: no repetition, and nothing if it is full.
Acknowledge(q, id) ==
  IF (\E i \in DOMAIN q : q[i] = id) \/ Len(q) >= AckSize THEN q ELSE Append(q, id)

\* Mutant: an acknowledgement is written also for what was dropped.
RecvDataAcksAll(p) ==
  /\ p \in net
  /\ IF reliable_can_get /\ reliable_wont_break_sequentiality(p.id) /\ reliable_not_replay(p.id)
     THEN rec' = rec \cup {p} ELSE UNCHANGED rec
  /\ ackq' = Acknowledge(ackq, p.id)
  /\ UNCHANGED <<sendVars, recId, delivered, net, ackNet>>

\* Mutant: a replay is not acknowledged.
RecvDataReplayUnacked(p) ==
  /\ p \in net
  /\ IF reliable_can_get /\ reliable_wont_break_sequentiality(p.id)
        /\ reliable_not_replay(p.id)
     THEN rec' = rec \cup {p} /\ ackq' = Acknowledge(ackq, p.id)
     ELSE UNCHANGED <<rec, ackq>>
  /\ UNCHANGED <<sendVars, recId, delivered, net, ackNet>>

\* The end of tls_pre_decrypt: a replay is acknowledged too.
RecvData(p) ==
  /\ p \in net
  /\ IF reliable_can_get /\ reliable_wont_break_sequentiality(p.id)
     THEN /\ rec' = IF reliable_not_replay(p.id) THEN rec \cup {p} ELSE rec
          /\ ackq' = Acknowledge(ackq, p.id)
     ELSE UNCHANGED <<rec, ackq>>
  /\ UNCHANGED <<sendVars, recId, delivered, net, ackNet>>

\* Mutant: the next buffer is the oldest that is there.
DeliverOldest ==
  \E e \in rec :
    /\ \A f \in rec : ~reliable_pid_min(f.id, e.id)
    /\ rec' = rec \ {e}
    /\ recId' = Wrap(e.id + 1)
    /\ delivered' = Append(delivered, e.msg)
    /\ UNCHANGED <<sendVars, ackq, net, ackNet>>

\* reliable_get_buf_sequenced, the write into the TLS object, and
\* reliable_mark_deleted with inc_pid.
Deliver ==
  \E e \in rec :
    /\ e.id = recId
    /\ rec' = rec \ {e}
    /\ recId' = Wrap(e.id + 1)
    /\ delivered' = Append(delivered, e.msg)
    /\ UNCHANGED <<sendVars, ackq, net, ackNet>>

\* reliable_ack_write: the first acknowledgements ride on a control packet, or
\* all of them go out by themselves.
WriteAck(max) ==
  /\ ackq # <<>>
  /\ LET n == Min({Len(ackq), max})
     IN  /\ ackNet' = ackNet \cup {ackq[i] : i \in 1 .. n}
         /\ ackq' = SubSeq(ackq, n + 1, Len(ackq))
  /\ UNCHANGED <<sendVars, rec, recId, delivered, net>>

\* A packet stays under way until it is lost, so it may arrive often and late.
Lose ==
  \/ \E p \in net : net' = net \ {p} /\ UNCHANGED <<sendVars, recVars, ackNet>>
  \/ \E id \in ackNet : ackNet' = ackNet \ {id} /\ UNCHANGED <<sendVars, recVars, net>>

-----------------------------------------------------------------------------
Next ==
  \/ Give \/ Send \/ ScheduleNow \/ Deliver \/ Lose
  \/ \E m \in Msgs : Timeout(m)
  \/ \E id \in ackNet : RecvAck(id)
  \/ \E p \in net : RecvData(p)
  \/ WriteAck(SendAckMax) \/ WriteAck(AckSize)

Spec == Init /\ [][Next]_vars

(* The event loop runs, time passes, and a packet that is sent again and   *)
(* again gets through sometime.                                            *)
FairSpec ==
  /\ Spec
  /\ WF_vars(Send) /\ WF_vars(Deliver) /\ WF_vars(WriteAck(AckSize))
  /\ \A m \in Msgs : WF_vars(Timeout(m))
  /\ \A m \in Msgs : SF_vars(\E p \in net : p.msg = m /\ RecvData(p))
  /\ \A m \in Msgs : SF_vars(RecvAck(Wrap(m - 1)))

-----------------------------------------------------------------------------
(* Properties.                                                             *)

Entries  == [id : Ids, msg : Msgs]

\* Every variable has its type and no array overflows.
TypeOK ==
  /\ send \subseteq [id : Ids, msg : Msgs, due : BOOLEAN] /\ Cardinality(send) <= SendSize
  /\ sendId \in Ids /\ given \in 0 .. MaxMsgs
  /\ rec \subseteq Entries /\ Cardinality(rec) <= RecSize
  /\ recId \in Ids /\ delivered \in Seq(Msgs)
  /\ ackq \in Seq(Ids) /\ Len(ackq) <= AckSize
  /\ net \subseteq Entries
  /\ ackNet \subseteq Ids

\* The sender forgets a packet only once the receiver has it, delivered or in its
\* buffer: an acknowledgement is never given for a packet that is dropped.
ForgottenIsReceived ==
  \A m \in 1 .. given :
    (\A e \in send : e.msg # m) => m <= Len(delivered) \/ \E e \in rec : e.msg = m

\* A full receive buffer holds the packet that is delivered next: "make sure that
\* incoming packet ID won't deadlock the receive buffer" (reliable.c).
FullBufferDrains ==
  Cardinality(rec) = RecSize => \E e \in rec : e.id = recId

\* Once the receiver has passed on what it can, the oldest packet that the
\* sender repeats is in the receiver's range, and is taken or acknowledged once
\* more: a lost acknowledgement never leaves the sender alone with a packet
\* (tls_pre_decrypt acknowledges only what passes the range test).
RepeatsAreHeard ==
  (\A e \in rec : e.id # recId)
    => \A e \in send : (\A f \in send : e.msg <= f.msg)
                         => reliable_wont_break_sequentiality(e.id)

\* The layer implements a FIFO channel.
Channel == INSTANCE FifoChannel
ImplementsChannel == Channel!ChannelSpec

\* What is handed to the layer is delivered, if the network lets some of the
\* repetitions through (the messages of one key state are finitely many).
AllDelivered == <>[](Len(delivered) = given)

\* The sender gets rid of what it sent: every acknowledgement arrives in the end,
\* and FULL_SYNC (ssl.c) can become true.
AllAcknowledged == <>[](send = {})

\* The invariant of the two buffers: types, sizes that are never exceeded, and
\* a full receive buffer that holds what empties it.
BufferInv == TypeOK /\ FullBufferDrains

=============================================================================
