------------------------------ MODULE PacketId ------------------------------
(***************************************************************************)
(* The packet ids of OpenVPN's data and control channels (packet_id.c):    *)
(* the sender's counter and the receiver's sliding window, over a network  *)
(* that loses, repeats and reorders packets.                               *)
(*                                                                         *)
(* An id on the wire is a pair: a time stamp, which is 0 in the short form *)
(* of the data channel, and a number.  The receiver keeps the highest pair *)
(* and one mark for each of the last SeqBacktrack numbers: unseen, expired *)
(* or the time at which it was accepted.  With SeqBacktrack = 0 (a TCP     *)
(* transport) it keeps the pair alone and wants consecutive numbers.       *)
(***************************************************************************)
EXTENDS Naturals, Sequences, FiniteSets

CONSTANTS
  PacketIdMax,    \* PACKET_ID_MAX
  Windows,        \* what --replay-window n may be, 0 over TCP
  TimeBacktrack,  \* --replay-window n t, in seconds
  ReapInterval,   \* SEQ_REAP_INTERVAL
  MaxNow          \* bound: the clock stops here

ASSUME PacketIdAssumption ==
  /\ PacketIdMax \in Nat \ {0}
  /\ Windows \subseteq Nat
  /\ TimeBacktrack \in Nat
  /\ ReapInterval \in Nat
  /\ MaxNow \in Nat \ {0, 1}

VARIABLES
  mode,       \* the window of the receiver, and whether ids carry a time stamp
              \* (they do with tls-auth and tls-crypt)
  now,        \* the clock, in seconds; both ends read the same one
  send,       \* the sender's packet_id_send
  rec,        \* the receiver's packet_id_rec
  wire,       \* the ids sent so far: the network may deliver each at any
              \* later time, again, or not at all
  accepted    \* the ids accepted so far, with the time of each acceptance and
              \* how often the id had been accepted before

vars == <<mode, now, send, rec, wire, accepted>>

SeqBacktrack == mode.window
LongForm     == mode.long

SEQ_UNSEEN == 0
SEQ_EXPIRED == 1

PacketNet == [time : 0 .. MaxNow, id : 1 .. PacketIdMax]

Init ==
  /\ mode \in [window : Windows, long : BOOLEAN]
  /\ now = 2
  /\ send = [time |-> 0, id |-> 0]
  /\ rec = [time |-> 0, id |-> 0, last_reap |-> 0, seq |-> <<>>]
  /\ wire = <<>>
  /\ accepted = {}

\* `now' only grows, by as much as the system clock moved.
Tick == /\ now < MaxNow
        /\ \E t \in now + 1 .. MaxNow : now' = t
        /\ UNCHANGED <<mode, send, rec, wire, accepted>>

------------------------------------------------------------------------------
(* The sender *)

Stamp == IF send.time = 0 THEN now ELSE send.time

\* Mutant: the number rolls over within the same second.
WriteSameSecond ==
  LET next == IF send.id = PacketIdMax THEN [time |-> now, id |-> 1]
                                       ELSE [time |-> Stamp, id |-> send.id + 1]
      net  == [time |-> IF LongForm THEN next.time ELSE 0, id |-> next.id]
  IN  /\ send.id = PacketIdMax => LongForm /\ now >= Stamp
      /\ send' = next
      /\ wire' = Append(wire, net)
      /\ UNCHANGED <<mode, now, rec, accepted>>

\* The number only rolls over in the long form, once the time has moved on;
\* otherwise packet_id_write fails and the packet is dropped.
Write ==
  LET next == IF send.id = PacketIdMax THEN [time |-> now, id |-> 1]
                                       ELSE [time |-> Stamp, id |-> send.id + 1]
      net  == [time |-> IF LongForm THEN next.time ELSE 0, id |-> next.id]
  IN  /\ send.id = PacketIdMax => LongForm /\ now > Stamp
      /\ send' = next
      /\ wire' = Append(wire, net)
      /\ UNCHANGED <<mode, now, rec, accepted>>

------------------------------------------------------------------------------
(* The receiver *)

\* Mutant: only the numbers that are old themselves expire.
ExpiresAlone(r, i) ==
  r.seq[i] \notin {SEQ_EXPIRED, SEQ_UNSEEN} /\ r.seq[i] + TimeBacktrack < now

\* Everything behind the newest number that is older than TimeBacktrack
\* seconds expires with it.
Expires(r, i) ==
  /\ \A j \in 1 .. i : r.seq[j] # SEQ_EXPIRED
  /\ \E k \in 1 .. i : r.seq[k] # SEQ_UNSEEN /\ r.seq[k] + TimeBacktrack < now

packet_id_reap(r) ==
  [r EXCEPT !.last_reap = now,
            !.seq = IF TimeBacktrack = 0 THEN r.seq
                    ELSE [i \in 1 .. Len(r.seq) |->
                            IF Expires(r, i) THEN SEQ_EXPIRED ELSE r.seq[i]]]

packet_id_reap_test(r) ==
  IF r.last_reap + ReapInterval <= now THEN packet_id_reap(r) ELSE r

\* Mutant: the oldest number of the window is taken to be outside it.
BacktrackTestShort(r, pin) ==
  \/ pin.time > r.time
  \/ /\ pin.time = r.time
     /\ \/ pin.id > r.id
        \/ /\ r.id - pin.id + 1 < Len(r.seq)
           /\ r.seq[r.id - pin.id + 1] = SEQ_UNSEEN

BacktrackTest(r, pin) ==
  \/ pin.time > r.time
  \/ /\ pin.time = r.time
     /\ \/ pin.id > r.id
        \/ /\ r.id - pin.id < Len(r.seq)
           /\ r.seq[r.id - pin.id + 1] = SEQ_UNSEEN

\* Mutant: over TCP the number need only not go back.
LinearTestLoose(r, pin) ==
  \/ pin.time = r.time /\ (r.id = 0 \/ pin.id >= r.id)
  \/ pin.time > r.time /\ pin.id = 1

LinearTest(r, pin) ==
  \/ pin.time = r.time /\ (r.id = 0 \/ pin.id = r.id + 1)
  \/ pin.time > r.time /\ pin.id = 1

packet_id_test(r, pin) ==
  IF SeqBacktrack > 0 THEN BacktrackTest(r, pin) ELSE LinearTest(r, pin)

\* Does the packet start a new window?
Restarts(r, pin) ==
  \/ Len(r.seq) = 0
  \/ pin.time > r.time
  \/ pin.id >= SeqBacktrack /\ pin.id - SeqBacktrack > r.id

Restarted(r, pin) ==
  IF Restarts(r, pin)
  THEN [r EXCEPT !.time = pin.time,
                 !.id = IF pin.id > SeqBacktrack THEN pin.id - SeqBacktrack ELSE 0,
                 !.seq = <<>>]
  ELSE r

\* Mutant: the list has no capacity.
PushedUnbounded(seq, n) ==
  [i \in 1 .. Len(seq) + n |-> IF i <= n THEN SEQ_UNSEEN ELSE seq[i - n]]

\* CIRC_LIST_PUSH of n unseen numbers: the newest is the first of the list.
Pushed(seq, n) ==
  [i \in 1 .. (IF Len(seq) + n < SeqBacktrack THEN Len(seq) + n ELSE SeqBacktrack) |->
     IF i <= n THEN SEQ_UNSEEN ELSE seq[i - n]]

Slid(r, pin) ==
  IF r.id < pin.id
  THEN [r EXCEPT !.id = pin.id, !.seq = Pushed(r.seq, pin.id - r.id)]
  ELSE r

\* Mutant: the newest number is marked, whichever was accepted.
MarkedNewest(r, pin) == [r EXCEPT !.seq = [r.seq EXCEPT ![1] = now]]

Marked(r, pin) ==
  IF r.id - pin.id < Len(r.seq)
  THEN [r EXCEPT !.seq = [r.seq EXCEPT ![r.id - pin.id + 1] = now]]
  ELSE r

packet_id_add(r, pin) ==
  IF SeqBacktrack > 0
  THEN Marked(Slid(Restarted(r, pin), pin), pin)
  ELSE [r EXCEPT !.time = pin.time, !.id = pin.id]

TimesAccepted(pin) == Cardinality({a \in accepted : a.net = pin})

\* crypto_check_replay, for an authentic packet.
CheckReplay(pin) ==
  LET r == packet_id_reap_test(rec)
  IN  /\ IF packet_id_test(r, pin)
         THEN /\ rec' = packet_id_add(r, pin)
              /\ accepted' = accepted \cup {[net |-> pin, at |-> now, before |-> TimesAccepted(pin)]}
         ELSE rec' = r /\ UNCHANGED accepted
      /\ UNCHANGED <<mode, now, send, wire>>

Next == Tick \/ Write \/ \E i \in 1 .. Len(wire) : CheckReplay(wire[i])

Spec == Init /\ [][Next]_vars

------------------------------------------------------------------------------
(* Properties *)

(* A pair accepted is remembered: the types of the two records, and the    *)
(* window always covers the last SeqBacktrack numbers, all of them while   *)
(* fewer were seen.                                                        *)
TypeOK ==
  /\ mode \in [window : Windows, long : BOOLEAN]
  /\ now \in Nat
  /\ send \in [time : Nat, id : 0 .. PacketIdMax]
  /\ rec.time \in Nat /\ rec.id \in 0 .. PacketIdMax /\ rec.last_reap \in Nat
  /\ rec.seq \in Seq(Nat)
  /\ Len(rec.seq) = IF rec.id < SeqBacktrack THEN rec.id ELSE SeqBacktrack
  /\ wire \in Seq(PacketNet)
  /\ accepted \subseteq [net : PacketNet, at : Nat, before : Nat]

Sent == {wire[i] : i \in 1 .. Len(wire)}

(* No false alarm: a number that is inside the window, was not accepted    *)
(* and has no newer number accepted more than TimeBacktrack seconds ago    *)
(* passes packet_id_test, however the packets around it were reordered.    *)
FreshIsHeard ==
  \A pin \in Sent :
    (/\ SeqBacktrack > 0
     /\ pin.time = rec.time
     /\ pin.id + SeqBacktrack > rec.id
     /\ \A a \in accepted : a.net # pin
     /\ \A a \in accepted : a.net.time = pin.time /\ a.net.id > pin.id
                              => a.at + TimeBacktrack >= now \/ TimeBacktrack = 0)
    => packet_id_test(packet_id_reap_test(rec), pin)

(* A straggler is refused: once a newer number was accepted more than      *)
(* TimeBacktrack seconds plus one reap interval ago, no older number of    *)
(* the same time stamp passes, although the list is only reaped when a     *)
(* packet comes in.                                                        *)
LateIsRefused ==
  \A pin \in Sent, a \in accepted :
    (/\ SeqBacktrack > 0 /\ TimeBacktrack > 0
     /\ a.net.time = pin.time
     /\ a.net.id > pin.id
     /\ a.at + TimeBacktrack + ReapInterval < now)
    => ~ packet_id_test(packet_id_reap_test(rec), pin)

Once == INSTANCE AtMostOnce WITH
          Ids <- PacketNet,
          sent <- wire,
          accepted <- {<<a.net, a.before>> : a \in accepted}

(* "check that no packet-id is accepted more than once" (packet_id.h), and *)
(* that the sender gives none out twice: the roll-over of the number, the  *)
(* restarts of the window, the reaping and every order of arrival included.*)
ImplementsAtMostOnce == Once!OnceSpec

\* The invariant of the receiver's window: types, a length that is never
\* exceeded, and no acceptance after packet_id_reap has expired a number.
WindowInv == TypeOK /\ LateIsRefused

=============================================================================
