--------------------------- MODULE PacketIdProof ---------------------------
(***************************************************************************)
(* Proofs about PacketId: the sender and the receiver implement AtMostOnce *)
(* for any window, time limit and reap interval, and the window refuses    *)
(* and hears what it should.                                               *)
(***************************************************************************)
EXTENDS PacketId, FiniteSetTheorems, TLAPS

-----------------------------------------------------------------------------
(* The invariant of a window                                               *)

Recs == [time : Nat, id : 0 .. PacketIdMax, last_reap : Nat, seq : Seq(Nat)]
Accs == [net : PacketNet, at : Nat, before : Nat]

\* The predicates below have the window w, the set acc of acceptances and the
\* time t as parameters.

\* A list covers the last w numbers.
Shape(r, w) == r \in Recs /\ Len(r.seq) = IF r.id < w THEN r.id ELSE w

\* Behind an expired number everything has expired.
Suffix(r) ==
  \A i, j \in 1 .. Len(r.seq) : i <= j /\ r.seq[i] = SEQ_EXPIRED => r.seq[j] = SEQ_EXPIRED

\* The last reaping left no mark that was old by then.
Reaped(r, t) ==
  /\ r.last_reap <= t
  /\ TimeBacktrack # 0 =>
       \A i \in 1 .. Len(r.seq) :
         r.seq[i] \notin {SEQ_UNSEEN, SEQ_EXPIRED} => r.last_reap <= r.seq[i] + TimeBacktrack

\* What was accepted is not newer than the list, and is marked if it is on it.
Covers(r, acc) ==
  \A a \in acc :
    /\ a.net.time <= r.time
    /\ a.net.time = r.time =>
         /\ a.net.id <= r.id
         /\ \A i \in 1 .. Len(r.seq) :
              i = r.id - a.net.id + 1 => r.seq[i] \in {SEQ_EXPIRED, a.at}

\* A mark stands for an acceptance.
Stands(r, acc) ==
  \A i \in 1 .. Len(r.seq) :
    r.seq[i] \notin {SEQ_UNSEEN, SEQ_EXPIRED} =>
      \E a \in acc : a.net.time = r.time /\ a.net.id = r.id - i + 1 /\ a.at = r.seq[i]

\* What has expired is behind an old acceptance, or is one.
Gone(r, acc, t) ==
  \A i \in 1 .. Len(r.seq) :
    r.seq[i] = SEQ_EXPIRED =>
      /\ TimeBacktrack # 0
      /\ \E a \in acc : /\ a.net.time = r.time /\ r.id - i + 1 <= a.net.id
                        /\ a.at + TimeBacktrack < t

Window(r, acc, w, t) ==
  Shape(r, w) /\ Suffix(r) /\ Reaped(r, t) /\ Covers(r, acc) /\ Stands(r, acc) /\ Gone(r, acc, t)

\* A list given by a function on an interval.
LEMMA ListOf ==
  ASSUME NEW n \in Nat, NEW f \in [1 .. n -> Nat]
  PROVE  f \in Seq(Nat) /\ Len(f) = n
BY SMT

\* What the constants are.
LEMMA Constants ==
  /\ PacketIdMax \in Nat \ {0} /\ TimeBacktrack \in Nat /\ ReapInterval \in Nat
  /\ MaxNow \in Nat /\ 2 <= MaxNow
  /\ \A w \in Windows : w \in Nat
BY PacketIdAssumption

\* The fields of a packet and of an acceptance.
LEMMA Fields ==
  /\ \A p \in PacketNet : p.time \in Nat /\ p.time <= MaxNow /\ p.id \in Nat
                          /\ 1 <= p.id /\ p.id <= PacketIdMax
  /\ \A a \in Accs : a.net \in PacketNet /\ a.at \in Nat /\ a.before \in Nat
<1>1. \A p \in PacketNet : p.time \in Nat /\ p.time <= MaxNow /\ p.id \in Nat
                           /\ 1 <= p.id /\ p.id <= PacketIdMax
  BY Constants DEF PacketNet
<1>2. \A a \in Accs : a.net \in PacketNet /\ a.at \in Nat /\ a.before \in Nat BY DEF Accs
<1>3. QED BY <1>1, <1>2

\* The fields of a window.
LEMMA ShapeFields ==
  ASSUME NEW w \in Nat, NEW r, Shape(r, w)
  PROVE  /\ r.time \in Nat /\ r.id \in Nat /\ r.id <= PacketIdMax /\ r.last_reap \in Nat
         /\ r.seq \in Seq(Nat) /\ Len(r.seq) \in Nat
         /\ Len(r.seq) <= w /\ Len(r.seq) <= r.id
         /\ \A i \in 1 .. Len(r.seq) : r.seq[i] \in Nat
         /\ r = [time |-> r.time, id |-> r.id, last_reap |-> r.last_reap, seq |-> r.seq]
<1>1. r \in Recs /\ Len(r.seq) = IF r.id < w THEN r.id ELSE w BY DEF Shape
<1>2. /\ r.time \in Nat /\ r.id \in 0 .. PacketIdMax /\ r.last_reap \in Nat
      /\ r.seq \in Seq(Nat)
      /\ r = [time |-> r.time, id |-> r.id, last_reap |-> r.last_reap, seq |-> r.seq]
  BY <1>1 DEF Recs
<1>3. Len(r.seq) \in Nat /\ \A i \in 1 .. Len(r.seq) : r.seq[i] \in Nat BY <1>2
<1>4. QED BY <1>1, <1>2, <1>3, Constants

-----------------------------------------------------------------------------
(* Reaping                                                                 *)

\* Reaping keeps the invariant, the pair and the length.
LEMMA ReapWindow ==
  ASSUME NEW w \in Nat, NEW acc, NEW r, Window(r, acc, w, now), now \in Nat
  PROVE  /\ Window(packet_id_reap(r), acc, w, now)
         /\ packet_id_reap(r).time = r.time /\ packet_id_reap(r).id = r.id
         /\ Len(packet_id_reap(r).seq) = Len(r.seq)
<1> DEFINE n == Len(r.seq)
           f == IF TimeBacktrack = 0 THEN r.seq
                ELSE [i \in 1 .. n |-> IF Expires(r, i) THEN SEQ_EXPIRED ELSE r.seq[i]]
           s == packet_id_reap(r)
<1>0. Shape(r, w) /\ Suffix(r) /\ Reaped(r, now) /\ Covers(r, acc) /\ Stands(r, acc)
      /\ Gone(r, acc, now)
  BY DEF Window
<1>1. /\ r.time \in Nat /\ r.id \in Nat /\ r.id <= PacketIdMax /\ n \in Nat
      /\ r.seq \in Seq(Nat) /\ \A i \in 1 .. n : r.seq[i] \in Nat
  BY <1>0, ShapeFields
<1>2. f \in Seq(Nat) /\ Len(f) = n
  <2>1. CASE TimeBacktrack = 0 BY <1>1, <2>1
  <2>2. CASE TimeBacktrack # 0
    <3>1. f \in [1 .. n -> Nat] BY <1>1, <2>2 DEF SEQ_EXPIRED
    <3> HIDE DEF f, n
    <3>2. QED BY <1>1, <3>1, ListOf
  <2>3. QED BY <2>1, <2>2
<1>3. \A i \in 1 .. n : f[i] = IF TimeBacktrack # 0 /\ Expires(r, i) THEN SEQ_EXPIRED
                                                                 ELSE r.seq[i]
  OBVIOUS
<1>4. /\ s = [time |-> r.time, id |-> r.id, last_reap |-> now, seq |-> f]
  <2>1. r = [time |-> r.time, id |-> r.id, last_reap |-> r.last_reap, seq |-> r.seq]
    BY <1>0, ShapeFields
  <2>2. s = [r EXCEPT !.last_reap = now, !.seq = f] BY DEF packet_id_reap
  <2> HIDE DEF s, f
  <2>3. QED BY <2>1, <2>2
<1>5. s.time = r.time /\ s.id = r.id /\ s.last_reap = now /\ s.seq = f
  <2> HIDE DEF s, f
  <2> QED BY <1>4
<1> HIDE DEF s, f, n
<1>6. ASSUME NEW i \in 1 .. n, f[i] = SEQ_EXPIRED, r.seq[i] # SEQ_EXPIRED
      PROVE  /\ TimeBacktrack # 0 /\ (\A j \in 1 .. i : r.seq[j] # SEQ_EXPIRED)
             /\ \E k \in 1 .. i : r.seq[k] # SEQ_UNSEEN /\ r.seq[k] + TimeBacktrack < now
  BY <1>3, <1>6 DEF Expires
<1>7. \A i \in 1 .. n : r.seq[i] = SEQ_EXPIRED => f[i] = SEQ_EXPIRED BY <1>3
<1>8. Shape(s, w)
  <2>1. s \in Recs BY <1>0, <1>1, <1>2, <1>4 DEF Recs, Shape
  <2>2. QED BY <1>0, <1>2, <1>5, <2>1 DEF Shape, n
<1>9. Suffix(s)
  <2> SUFFICES ASSUME NEW i \in 1 .. n, NEW j \in 1 .. n, i <= j, f[i] = SEQ_EXPIRED
               PROVE  f[j] = SEQ_EXPIRED
    BY <1>2, <1>5 DEF Suffix
  <2>1. CASE \E e \in 1 .. j : r.seq[e] = SEQ_EXPIRED
    <3>1. PICK e \in 1 .. j : r.seq[e] = SEQ_EXPIRED BY <2>1
    <3>2. e \in 1 .. n /\ e <= j BY <1>1
    <3>3. r.seq[j] = SEQ_EXPIRED BY <1>0, <3>1, <3>2 DEF Suffix, n
    <3>4. QED BY <1>7, <3>3
  <2>2. CASE \A e \in 1 .. j : r.seq[e] # SEQ_EXPIRED
    <3>1. i \in 1 .. j BY <1>1
    <3>2. /\ TimeBacktrack # 0
          /\ \E k \in 1 .. i : r.seq[k] # SEQ_UNSEEN /\ r.seq[k] + TimeBacktrack < now
      BY <1>6, <2>2, <3>1
    <3>3. \E k \in 1 .. j : r.seq[k] # SEQ_UNSEEN /\ r.seq[k] + TimeBacktrack < now
      BY <1>1, <3>2
    <3>4. Expires(r, j) BY <2>2, <3>3 DEF Expires
    <3>5. QED BY <1>3, <3>2, <3>4
  <2>3. QED BY <2>1, <2>2
<1>10. Reaped(s, now)
  <2> SUFFICES ASSUME TimeBacktrack # 0, NEW i \in 1 .. n,
                      f[i] \notin {SEQ_UNSEEN, SEQ_EXPIRED}
               PROVE  now <= f[i] + TimeBacktrack
    BY <1>2, <1>5 DEF Reaped
  <2>1. f[i] = r.seq[i] /\ ~ Expires(r, i) BY <1>3
  <2>2. r.seq[i] \in Nat BY <1>1
  <2>3. CASE \E e \in 1 .. i : r.seq[e] = SEQ_EXPIRED
    <3>1. PICK e \in 1 .. i : r.seq[e] = SEQ_EXPIRED BY <2>3
    <3>2. e \in 1 .. n /\ e <= i BY <1>1
    <3>3. r.seq[i] = SEQ_EXPIRED BY <1>0, <3>1, <3>2 DEF Suffix, n
    <3>4. QED BY <2>1, <3>3
  <2>4. CASE ~ (r.seq[i] + TimeBacktrack < now) BY <2>1, <2>2, <2>4, Constants
  <2>5. i \in 1 .. i BY <1>1
  <2>6. QED BY <2>1, <2>3, <2>4, <2>5 DEF Expires
<1>11. Covers(s, acc)
  <2>1. \A i \in 1 .. n : f[i] = SEQ_EXPIRED \/ f[i] = r.seq[i] BY <1>3
  <2>2. QED BY <1>0, <1>2, <1>5, <2>1 DEF Covers, n
<1>12. Stands(s, acc)
  <2>1. \A i \in 1 .. n : f[i] # SEQ_EXPIRED => f[i] = r.seq[i] BY <1>3
  <2>2. QED BY <1>0, <1>2, <1>5, <2>1 DEF Stands, n
<1>13. Gone(s, acc, now)
  <2> SUFFICES ASSUME NEW i \in 1 .. n, f[i] = SEQ_EXPIRED
               PROVE  /\ TimeBacktrack # 0
                      /\ \E a \in acc : /\ a.net.time = r.time /\ r.id - i + 1 <= a.net.id
                                        /\ a.at + TimeBacktrack < now
    BY <1>2, <1>5 DEF Gone
  <2>1. CASE r.seq[i] = SEQ_EXPIRED BY <1>0, <2>1 DEF Gone, n
  <2>2. CASE r.seq[i] # SEQ_EXPIRED
    <3>1. PICK k \in 1 .. i : r.seq[k] # SEQ_UNSEEN /\ r.seq[k] + TimeBacktrack < now
      BY <1>6, <2>2
    <3>2. k \in 1 .. n /\ r.seq[k] # SEQ_EXPIRED BY <1>1, <1>6, <2>2
    <3>3. PICK a \in acc : a.net.time = r.time /\ a.net.id = r.id - k + 1 /\ a.at = r.seq[k]
      BY <1>0, <3>1, <3>2 DEF Stands, n
    <3>4. r.id - i + 1 <= a.net.id BY <1>1, <3>3
    <3>5. QED BY <1>6, <2>2, <3>1, <3>3, <3>4
  <2>3. QED BY <2>1, <2>2
<1>14. Window(s, acc, w, now) BY <1>8, <1>9, <1>10, <1>11, <1>12, <1>13 DEF Window
<1>15. Len(s.seq) = n BY <1>2, <1>5
<1>16. QED BY <1>5, <1>14, <1>15 DEF s, n

\* The same for the reaping that is not always due.
LEMMA ReapTestWindow ==
  ASSUME NEW w \in Nat, NEW acc, NEW r, Window(r, acc, w, now), now \in Nat
  PROVE  /\ Window(packet_id_reap_test(r), acc, w, now)
         /\ packet_id_reap_test(r).time = r.time /\ packet_id_reap_test(r).id = r.id
         /\ Len(packet_id_reap_test(r).seq) = Len(r.seq)
<1>1. CASE packet_id_reap_test(r) = packet_id_reap(r) BY <1>1, ReapWindow
<1>2. CASE packet_id_reap_test(r) = r BY <1>2
<1>3. QED BY <1>1, <1>2, Zenon DEF packet_id_reap_test

-----------------------------------------------------------------------------
(* Accepting                                                               *)

\* What packet_id_test lets pass was not accepted before.
LEMMA TestIsFresh ==
  ASSUME NEW acc \in SUBSET Accs, NEW r, Window(r, acc, SeqBacktrack, now),
         SeqBacktrack \in Nat, \A a \in acc : a.at >= 2,
         NEW pin \in PacketNet, packet_id_test(r, pin), NEW a \in acc
  PROVE  a.net # pin
<1> SUFFICES ASSUME a.net = pin PROVE FALSE OBVIOUS
<1>0. Shape(r, SeqBacktrack) /\ Covers(r, acc) BY DEF Window
<1>1. /\ r.time \in Nat /\ r.id \in Nat /\ Len(r.seq) \in Nat
      /\ pin.time \in Nat /\ pin.id \in Nat /\ 1 <= pin.id /\ a.at \in Nat /\ a.at >= 2
  BY <1>0, ShapeFields, Fields
<1>2. pin.time <= r.time /\ (pin.time = r.time => pin.id <= r.id) BY <1>0 DEF Covers
<1>3. CASE SeqBacktrack > 0
  <2>1. BacktrackTest(r, pin) BY <1>3 DEF packet_id_test
  <2>2. /\ pin.time = r.time /\ pin.id <= r.id /\ r.id - pin.id < Len(r.seq)
        /\ r.seq[r.id - pin.id + 1] = SEQ_UNSEEN
    BY <1>1, <1>2, <2>1 DEF BacktrackTest
  <2>3. r.id - pin.id + 1 \in 1 .. Len(r.seq) BY <1>1, <2>2
  <2>4. r.seq[r.id - pin.id + 1] \in {SEQ_EXPIRED, a.at} BY <1>0, <2>2, <2>3 DEF Covers
  <2>5. QED BY <1>1, <2>2, <2>4 DEF SEQ_UNSEEN, SEQ_EXPIRED
<1>4. CASE ~ (SeqBacktrack > 0)
  <2>1. LinearTest(r, pin) BY <1>4 DEF packet_id_test
  <2>2. QED BY <1>1, <1>2, <2>1 DEF LinearTest
<1>5. QED BY <1>3, <1>4

\* A window that is ready for the mark of pin.
Open(r, pin, acc, w, t) ==
  /\ Window(r, acc, w, t)
  /\ r.time = pin.time /\ pin.id <= r.id /\ r.id - pin.id < Len(r.seq)
  /\ r.seq[r.id - pin.id + 1] = SEQ_UNSEEN

\* A packet from far ahead, or with a new time stamp, starts a new window.
LEMMA RestartOpens ==
  ASSUME NEW acc \in SUBSET Accs, NEW r, Window(r, acc, SeqBacktrack, now),
         SeqBacktrack \in Nat, SeqBacktrack > 0, now \in Nat,
         NEW pin \in PacketNet, BacktrackTest(r, pin), Restarts(r, pin)
  PROVE  Open(Slid(Restarted(r, pin), pin), pin, acc, SeqBacktrack, now)
<1> DEFINE w == SeqBacktrack
           low == IF pin.id > w THEN pin.id - w ELSE 0
           n == pin.id - low
           f == Pushed(<<>>, n)
           s == Slid(Restarted(r, pin), pin)
<1>0. Shape(r, w) /\ Reaped(r, now) /\ Covers(r, acc) BY DEF Window
<1>1. /\ r.time \in Nat /\ r.id \in Nat /\ r.last_reap \in Nat
      /\ pin.time \in Nat /\ pin.id \in Nat /\ 1 <= pin.id /\ pin.id <= PacketIdMax
      /\ r = [time |-> r.time, id |-> r.id, last_reap |-> r.last_reap, seq |-> r.seq]
  BY <1>0, ShapeFields, Fields
<1>2. Restarted(r, pin) = [time |-> pin.time, id |-> low, last_reap |-> r.last_reap, seq |-> <<>>]
  <2>1. Restarted(r, pin) = [r EXCEPT !.time = pin.time, !.id = low, !.seq = <<>>]
    BY DEF Restarted
  <2> HIDE DEF low
  <2>2. QED BY <1>1, <2>1
<1>3. low \in Nat /\ low < pin.id /\ n \in Nat /\ (n = w \/ (n = pin.id /\ pin.id <= w))
  BY <1>1
<1>4. s = [time |-> pin.time, id |-> pin.id, last_reap |-> r.last_reap, seq |-> f]
  <2> DEFINE q == [time |-> pin.time, id |-> low, last_reap |-> r.last_reap, seq |-> <<>>]
  <2>1. q.id = low /\ q.seq = <<>> OBVIOUS
  <2>2. Slid(q, pin) = [q EXCEPT !.id = pin.id, !.seq = f] BY <1>3, <2>1 DEF Slid
  <2> HIDE DEF low, f
  <2>3. Slid(q, pin) = [time |-> pin.time, id |-> pin.id, last_reap |-> r.last_reap, seq |-> f]
    BY <2>2
  <2>4. QED BY <1>2, <2>3
<1> DEFINE m == IF pin.id < w THEN pin.id ELSE w
<1>5. f = [i \in 1 .. m |-> SEQ_UNSEEN]
  <2>1. f = [i \in 1 .. (IF Len(<<>>) + n < w THEN Len(<<>>) + n ELSE w) |->
               IF i <= n THEN SEQ_UNSEEN ELSE <<>>[i - n]]
    BY DEF Pushed
  <2>2. Len(<<>>) = 0 OBVIOUS
  <2>3. m \in Nat /\ m <= n /\ m = IF 0 + n < w THEN 0 + n ELSE w BY <1>1, <1>3
  <2>4. \A i \in 1 .. m : i <= n BY <1>3, <2>3
  <2> HIDE DEF m, n, f
  <2>5. f = [i \in 1 .. m |-> IF i <= n THEN SEQ_UNSEEN ELSE <<>>[i - n]]
    BY <2>1, <2>2, <2>3
  <2>6. QED BY <2>4, <2>5
<1>6. m \in Nat /\ 1 <= m /\ m <= w /\ m <= pin.id BY <1>1
<1>7. s.time = pin.time /\ s.id = pin.id /\ s.last_reap = r.last_reap /\ s.seq = f
  <2> HIDE DEF s, f
  <2> QED BY <1>4
<1>8. f \in Seq(Nat) /\ Len(f) = m /\ \A i \in 1 .. m : f[i] = SEQ_UNSEEN
  <2> HIDE DEF f, m
  <2>1. f \in [1 .. m -> Nat] BY <1>5 DEF SEQ_UNSEEN
  <2>2. QED BY <1>5, <1>6, <2>1, ListOf
<1>9. Shape(s, w)
  <2>1. s \in Recs
    <3> HIDE DEF s, f, m, w
    <3> QED BY <1>1, <1>4, <1>8 DEF Recs
  <2> HIDE DEF s, f
  <2>2. QED BY <1>7, <1>8, <2>1 DEF Shape
<1>10. Covers(s, acc)
  <2> HIDE DEF s, f, m
  <2> SUFFICES ASSUME NEW a \in acc
               PROVE  /\ a.net.time <= pin.time
                      /\ a.net.time = pin.time =>
                           /\ a.net.id <= pin.id
                           /\ \A i \in 1 .. m : i # pin.id - a.net.id + 1
    BY <1>7, <1>8 DEF Covers
  <2>1. a.net.time \in Nat /\ a.net.id \in Nat /\ 1 <= a.net.id BY Fields
  <2>2. a.net.time <= r.time /\ (a.net.time = r.time => a.net.id <= r.id) BY <1>0 DEF Covers
  <2>3. r.time <= pin.time BY <1>1 DEF BacktrackTest
  <2>4. ASSUME a.net.time = pin.time PROVE r.id < pin.id - w /\ a.net.id <= r.id
    <3>1. a.net.time = r.time BY <1>1, <2>1, <2>2, <2>3, <2>4
    <3>2. r.id >= 1 BY <1>1, <2>1, <2>2, <3>1
    <3>3. Len(r.seq) # 0 BY <1>0, <1>1, <3>2 DEF Shape
    <3>4. pin.id >= w /\ pin.id - w > r.id BY <1>1, <2>4, <3>1, <3>3 DEF Restarts
    <3>5. QED BY <1>1, <2>2, <3>1, <3>4
  <2>5. QED BY <1>1, <1>6, <2>1, <2>2, <2>3, <2>4
<1>11. Suffix(s) /\ Stands(s, acc) /\ Gone(s, acc, now) /\ Reaped(s, now)
  <2> HIDE DEF s, f, m
  <2>1. \A i \in 1 .. Len(s.seq) : s.seq[i] = SEQ_UNSEEN /\ SEQ_UNSEEN # SEQ_EXPIRED
    BY <1>7, <1>8 DEF SEQ_UNSEEN, SEQ_EXPIRED
  <2>2. Suffix(s) BY <2>1, Zenon DEF Suffix
  <2>3. Stands(s, acc) BY <2>1, Zenon DEF Stands
  <2>4. Gone(s, acc, now) BY <2>1, Zenon DEF Gone
  <2>5. Reaped(s, now)
    <3>1. s.last_reap <= now BY <1>0, <1>7 DEF Reaped
    <3>2. QED BY <2>1, <3>1, Zenon DEF Reaped
  <2>6. QED BY <2>2, <2>3, <2>4, <2>5
<1>12. s.id - pin.id = 0 /\ Len(s.seq) = m /\ s.seq[1] = SEQ_UNSEEN
  <2> HIDE DEF s, f, m
  <2> QED BY <1>1, <1>6, <1>7, <1>8
<1>13. QED
  <2> HIDE DEF s, f, m
  <2>1. Window(s, acc, w, now) BY <1>9, <1>10, <1>11 DEF Window
  <2>2. s.id - pin.id + 1 = 1 /\ s.id - pin.id < Len(s.seq) BY <1>6, <1>12
  <2>3. Open(s, pin, acc, w, now) BY <1>1, <1>7, <1>12, <2>1, <2>2 DEF Open
  <2>4. QED BY <2>3 DEF s

\* A packet a little ahead slides the window.
LEMMA SlideOpens ==
  ASSUME NEW acc \in SUBSET Accs, NEW r, Window(r, acc, SeqBacktrack, now),
         SeqBacktrack \in Nat, SeqBacktrack > 0, now \in Nat,
         NEW pin \in PacketNet, pin.time = r.time, r.id < pin.id
  PROVE  Open(Slid(r, pin), pin, acc, SeqBacktrack, now)
<1> DEFINE w == SeqBacktrack
           l == Len(r.seq)
           n == pin.id - r.id
           m == IF pin.id < w THEN pin.id ELSE w
           f == Pushed(r.seq, n)
           s == Slid(r, pin)
<1>0. Shape(r, w) /\ Suffix(r) /\ Reaped(r, now) /\ Covers(r, acc) /\ Stands(r, acc)
      /\ Gone(r, acc, now)
  BY DEF Window
<1>1. /\ r.time \in Nat /\ r.id \in Nat /\ r.last_reap \in Nat /\ l \in Nat
      /\ pin.time \in Nat /\ pin.id \in Nat /\ 1 <= pin.id /\ pin.id <= PacketIdMax
      /\ (\A i \in 1 .. l : r.seq[i] \in Nat)
      /\ r = [time |-> r.time, id |-> r.id, last_reap |-> r.last_reap, seq |-> r.seq]
  BY <1>0, ShapeFields, Fields
<1>2. n \in Nat /\ 1 <= n /\ m \in Nat /\ 1 <= m BY <1>1
<1>3. m = IF l + n < w THEN l + n ELSE w BY <1>0, <1>1 DEF Shape
<1>4. m <= l + n BY <1>1, <1>2, <1>3
<1>5. f = [i \in 1 .. m |-> IF i <= n THEN SEQ_UNSEEN ELSE r.seq[i - n]]
  <2>1. f = [i \in 1 .. (IF l + n < w THEN l + n ELSE w) |->
               IF i <= n THEN SEQ_UNSEEN ELSE r.seq[i - n]]
    BY DEF Pushed
  <2> HIDE DEF f, m, n, l
  <2>2. QED BY <1>3, <2>1
<1>6. s = [time |-> r.time, id |-> pin.id, last_reap |-> r.last_reap, seq |-> f]
  <2>1. s = [r EXCEPT !.id = pin.id, !.seq = f] BY DEF Slid
  <2> HIDE DEF s, f
  <2>2. QED BY <1>1, <2>1
<1> HIDE DEF s, f, m, n, l
<1>7. s.time = r.time /\ s.id = pin.id /\ s.last_reap = r.last_reap /\ s.seq = f BY <1>6
<1>8. \A i \in 1 .. m : i <= n \/ (i - n \in 1 .. l /\ n < i) BY <1>1, <1>2, <1>4
<1>9. ASSUME NEW i \in 1 .. m
      PROVE  \/ i <= n /\ f[i] = SEQ_UNSEEN
             \/ n < i /\ i - n \in 1 .. l /\ f[i] = r.seq[i - n]
  <2>1. f[i] = IF i <= n THEN SEQ_UNSEEN ELSE r.seq[i - n] BY <1>5
  <2>2. QED BY <1>2, <1>8, <2>1
<1>10. f \in Seq(Nat) /\ Len(f) = m
  <2>1. \A i \in 1 .. m : f[i] \in Nat BY <1>1, <1>9 DEF SEQ_UNSEEN
  <2>2. f \in [1 .. m -> Nat] BY <1>5, <2>1
  <2>3. QED BY <1>2, <2>2, ListOf
<1>11. Shape(s, w)
  <2>1. s \in Recs BY <1>1, <1>6, <1>10 DEF Recs
  <2>2. QED BY <1>7, <1>10, <2>1 DEF Shape, m
<1>12. SEQ_UNSEEN # SEQ_EXPIRED BY DEF SEQ_UNSEEN, SEQ_EXPIRED
<1>13. Suffix(s)
  <2> SUFFICES ASSUME NEW i \in 1 .. m, NEW j \in 1 .. m, i <= j, f[i] = SEQ_EXPIRED
               PROVE  f[j] = SEQ_EXPIRED
    BY <1>7, <1>10 DEF Suffix
  <2>1. n < i /\ i - n \in 1 .. l /\ r.seq[i - n] = SEQ_EXPIRED BY <1>9, <1>12
  <2>2. n < j BY <1>2, <2>1
  <2>3. j - n \in 1 .. l /\ f[j] = r.seq[j - n] BY <1>2, <1>9, <2>2
  <2>4. i - n <= j - n BY <1>2
  <2>5. QED BY <1>0, <2>1, <2>3, <2>4 DEF Suffix, l
<1>14. Reaped(s, now)
  <2>1. s.last_reap <= now BY <1>0, <1>7 DEF Reaped
  <2>2. ASSUME TimeBacktrack # 0, NEW i \in 1 .. m, f[i] \notin {SEQ_UNSEEN, SEQ_EXPIRED}
        PROVE  r.last_reap <= f[i] + TimeBacktrack
    <3>1. i - n \in 1 .. l /\ f[i] = r.seq[i - n] BY <1>9, <2>2
    <3>2. QED BY <1>0, <2>2, <3>1 DEF Reaped, l
  <2>3. QED BY <1>7, <1>10, <2>1, <2>2 DEF Reaped
<1>15. Covers(s, acc)
  <2> SUFFICES ASSUME NEW a \in acc
               PROVE  /\ a.net.time <= r.time
                      /\ a.net.time = r.time =>
                           /\ a.net.id <= pin.id
                           /\ \A i \in 1 .. m : i = pin.id - a.net.id + 1
                                               => f[i] \in {SEQ_EXPIRED, a.at}
    BY <1>7, <1>10 DEF Covers
  <2>1. a.net.time \in Nat /\ a.net.id \in Nat /\ 1 <= a.net.id BY Fields
  <2>2. /\ a.net.time <= r.time
        /\ a.net.time = r.time =>
             /\ a.net.id <= r.id
             /\ \A i \in 1 .. l : i = r.id - a.net.id + 1 => r.seq[i] \in {SEQ_EXPIRED, a.at}
    BY <1>0 DEF Covers, l
  <2>3. ASSUME a.net.time = r.time, NEW i \in 1 .. m, i = pin.id - a.net.id + 1
        PROVE  f[i] \in {SEQ_EXPIRED, a.at}
    <3>1. a.net.id <= r.id BY <2>2, <2>3
    <3>2. n < i /\ i - n = r.id - a.net.id + 1 BY <1>1, <2>1, <2>3, <3>1 DEF n
    <3>3. i - n \in 1 .. l /\ f[i] = r.seq[i - n] BY <1>2, <1>9, <3>2
    <3>4. QED BY <2>2, <2>3, <3>2, <3>3
  <2>4. a.net.time = r.time => a.net.id <= pin.id BY <1>1, <2>1, <2>2
  <2>5. QED BY <2>2, <2>3, <2>4
<1>16. Stands(s, acc)
  <2> SUFFICES ASSUME NEW i \in 1 .. m, f[i] \notin {SEQ_UNSEEN, SEQ_EXPIRED}
               PROVE  \E a \in acc : /\ a.net.time = r.time /\ a.net.id = pin.id - i + 1
                                     /\ a.at = f[i]
    BY <1>7, <1>10 DEF Stands
  <2>1. i - n \in 1 .. l /\ f[i] = r.seq[i - n] BY <1>9
  <2>2. PICK a \in acc : a.net.time = r.time /\ a.net.id = r.id - (i - n) + 1 /\ a.at = f[i]
    BY <1>0, <2>1 DEF Stands, l
  <2>3. r.id - (i - n) + 1 = pin.id - i + 1 BY <1>1 DEF n
  <2>4. QED BY <2>2, <2>3
<1>17. Gone(s, acc, now)
  <2> SUFFICES ASSUME NEW i \in 1 .. m, f[i] = SEQ_EXPIRED
               PROVE  /\ TimeBacktrack # 0
                      /\ \E a \in acc : /\ a.net.time = r.time /\ pin.id - i + 1 <= a.net.id
                                        /\ a.at + TimeBacktrack < now
    BY <1>7, <1>10 DEF Gone
  <2>1. i - n \in 1 .. l /\ r.seq[i - n] = SEQ_EXPIRED BY <1>9, <1>12
  <2>2. /\ TimeBacktrack # 0
        /\ \E a \in acc : /\ a.net.time = r.time /\ r.id - (i - n) + 1 <= a.net.id
                          /\ a.at + TimeBacktrack < now
    BY <1>0, <2>1 DEF Gone, l
  <2>3. r.id - (i - n) + 1 = pin.id - i + 1 BY <1>1 DEF n
  <2>4. QED BY <2>2, <2>3
<1>18. Window(s, acc, w, now) BY <1>11, <1>13, <1>14, <1>15, <1>16, <1>17 DEF Window
<1>19. s.id - pin.id = 0 /\ s.seq[1] = SEQ_UNSEEN /\ Len(s.seq) = m
  BY <1>1, <1>2, <1>7, <1>9, <1>10
<1>20. s.id - pin.id + 1 = 1 /\ s.id - pin.id < Len(s.seq) BY <1>2, <1>19
<1>21. Open(s, pin, acc, w, now) BY <1>1, <1>7, <1>18, <1>19, <1>20 DEF Open
<1>22. QED BY <1>21 DEF s

\* The mark of an accepted packet.
LEMMA MarkWindow ==
  ASSUME NEW acc \in SUBSET Accs, NEW w \in Nat, NEW r, now \in Nat, 2 <= now,
         NEW pin \in PacketNet, Open(r, pin, acc, w, now),
         \A a \in acc : a.at >= 2, NEW new \in Accs, new.net = pin, new.at = now
  PROVE  Window(Marked(r, pin), acc \cup {new}, w, now)
<1> DEFINE l == Len(r.seq)
           k == r.id - pin.id + 1
           f == [r.seq EXCEPT ![k] = now]
           s == Marked(r, pin)
           all == acc \cup {new}
<1>0. Shape(r, w) /\ Suffix(r) /\ Reaped(r, now) /\ Covers(r, acc) /\ Stands(r, acc)
      /\ Gone(r, acc, now)
  BY DEF Window, Open
<1>1. /\ r.time \in Nat /\ r.id \in Nat /\ r.id <= PacketIdMax /\ r.last_reap \in Nat
      /\ l \in Nat /\ r.seq \in Seq(Nat) /\ (\A i \in 1 .. l : r.seq[i] \in Nat)
      /\ pin.time \in Nat /\ pin.id \in Nat /\ 1 <= pin.id
      /\ r = [time |-> r.time, id |-> r.id, last_reap |-> r.last_reap, seq |-> r.seq]
  BY <1>0, ShapeFields, Fields
<1>2. r.time = pin.time /\ pin.id <= r.id /\ r.id - pin.id < l /\ r.seq[k] = SEQ_UNSEEN
  BY DEF Open
<1>3. k \in 1 .. l BY <1>1, <1>2
<1>4. s = [time |-> r.time, id |-> r.id, last_reap |-> r.last_reap, seq |-> f]
  <2>1. s = [r EXCEPT !.seq = f] BY <1>2 DEF Marked
  <2> HIDE DEF s, f
  <2>2. QED BY <1>1, <2>1
<1>5. f \in Seq(Nat) /\ Len(f) = l BY <1>1, <1>3
<1>6. f[k] = now /\ \A i \in 1 .. l : i # k => f[i] = r.seq[i] BY <1>1, <1>3
<1> HIDE DEF s, f, l, k
<1>7. s.time = r.time /\ s.id = r.id /\ s.last_reap = r.last_reap /\ s.seq = f BY <1>4
<1>8. now \notin {SEQ_UNSEEN, SEQ_EXPIRED} /\ SEQ_UNSEEN # SEQ_EXPIRED
  BY DEF SEQ_UNSEEN, SEQ_EXPIRED
<1>9. Shape(s, w)
  <2>1. s \in Recs BY <1>0, <1>1, <1>4, <1>5 DEF Recs, Shape
  <2>2. QED BY <1>0, <1>5, <1>7, <2>1 DEF Shape, l
<1>10. Suffix(s)
  <2> SUFFICES ASSUME NEW i \in 1 .. l, NEW j \in 1 .. l, i <= j, f[i] = SEQ_EXPIRED
               PROVE  f[j] = SEQ_EXPIRED
    BY <1>5, <1>7 DEF Suffix
  <2>1. i # k /\ r.seq[i] = SEQ_EXPIRED BY <1>6, <1>8
  <2>2. r.seq[j] = SEQ_EXPIRED BY <1>0, <2>1 DEF Suffix, l
  <2>3. j # k BY <1>2, <1>8, <2>2
  <2>4. QED BY <1>6, <2>2, <2>3
<1>11. Reaped(s, now)
  <2>1. r.last_reap <= now BY <1>0 DEF Reaped
  <2>2. ASSUME TimeBacktrack # 0, NEW i \in 1 .. l, f[i] \notin {SEQ_UNSEEN, SEQ_EXPIRED}
        PROVE  r.last_reap <= f[i] + TimeBacktrack
    <3>1. CASE i = k BY <1>1, <1>6, <2>1, <3>1, Constants
    <3>2. CASE i # k BY <1>0, <1>6, <2>2, <3>2 DEF Reaped, l
    <3>3. QED BY <3>1, <3>2
  <2>3. QED BY <1>5, <1>7, <2>1, <2>2 DEF Reaped
<1>12. Covers(s, all)
  <2> SUFFICES ASSUME NEW a \in all
               PROVE  /\ a.net.time <= r.time
                      /\ a.net.time = r.time =>
                           /\ a.net.id <= r.id
                           /\ \A i \in 1 .. l : i = r.id - a.net.id + 1
                                               => f[i] \in {SEQ_EXPIRED, a.at}
    BY <1>5, <1>7 DEF Covers
  <2>1. CASE a = new BY <1>1, <1>2, <1>6, <2>1 DEF k
  <2>2. CASE a \in acc
    <3>1. /\ a.net.time <= r.time
          /\ a.net.time = r.time =>
               /\ a.net.id <= r.id
               /\ \A i \in 1 .. l : i = r.id - a.net.id + 1 => r.seq[i] \in {SEQ_EXPIRED, a.at}
      BY <1>0, <2>2 DEF Covers, l
    <3>2. ASSUME a.net.time = r.time, NEW i \in 1 .. l, i = r.id - a.net.id + 1
          PROVE  f[i] \in {SEQ_EXPIRED, a.at}
      <4>1. CASE i = k
        <5>1. r.seq[k] \in {SEQ_EXPIRED, a.at} BY <3>1, <3>2, <4>1
        <5>2. a.at >= 2 BY <2>2
        <5>3. QED BY <1>2, <5>1, <5>2 DEF SEQ_UNSEEN, SEQ_EXPIRED
      <4>2. CASE i # k BY <1>6, <3>1, <3>2, <4>2
      <4>3. QED BY <4>1, <4>2
    <3>3. QED BY <3>1, <3>2
  <2>3. QED BY <2>1, <2>2
<1>13. Stands(s, all)
  <2> SUFFICES ASSUME NEW i \in 1 .. l, f[i] \notin {SEQ_UNSEEN, SEQ_EXPIRED}
               PROVE  \E a \in all : /\ a.net.time = r.time /\ a.net.id = r.id - i + 1
                                     /\ a.at = f[i]
    BY <1>5, <1>7 DEF Stands
  <2>1. CASE i = k
    <3>1. new.net.time = r.time /\ new.net.id = r.id - i + 1 /\ new.at = f[i]
      BY <1>1, <1>2, <1>6, <2>1 DEF k
    <3>2. QED BY <3>1
  <2>2. CASE i # k
    <3>1. \E a \in acc : a.net.time = r.time /\ a.net.id = r.id - i + 1 /\ a.at = r.seq[i]
      BY <1>0, <1>6, <2>2 DEF Stands, l
    <3>2. QED BY <1>6, <2>2, <3>1
  <2>3. QED BY <2>1, <2>2
<1>14. Gone(s, all, now)
  <2> SUFFICES ASSUME NEW i \in 1 .. l, f[i] = SEQ_EXPIRED
               PROVE  /\ TimeBacktrack # 0
                      /\ \E a \in all : /\ a.net.time = r.time /\ r.id - i + 1 <= a.net.id
                                        /\ a.at + TimeBacktrack < now
    BY <1>5, <1>7 DEF Gone
  <2>1. r.seq[i] = SEQ_EXPIRED BY <1>6, <1>8
  <2>2. QED BY <1>0, <2>1 DEF Gone, l
<1>15. Window(s, all, w, now) BY <1>9, <1>10, <1>11, <1>12, <1>13, <1>14 DEF Window
<1>16. QED BY <1>15 DEF s

\* packet_id_add, with the window or without.
LEMMA AddWindow ==
  ASSUME NEW acc \in SUBSET Accs, NEW r, Window(r, acc, SeqBacktrack, now),
         SeqBacktrack \in Nat, now \in Nat, 2 <= now, \A a \in acc : a.at >= 2,
         NEW pin \in PacketNet, packet_id_test(r, pin),
         NEW new \in Accs, new.net = pin, new.at = now
  PROVE  Window(packet_id_add(r, pin), acc \cup {new}, SeqBacktrack, now)
<1>0. Shape(r, SeqBacktrack) /\ Covers(r, acc) /\ Reaped(r, now) BY DEF Window
<1>1. /\ r.time \in Nat /\ r.id \in Nat /\ Len(r.seq) \in Nat /\ r.last_reap \in Nat
      /\ Len(r.seq) <= SeqBacktrack
      /\ r = [time |-> r.time, id |-> r.id, last_reap |-> r.last_reap, seq |-> r.seq]
      /\ pin.time \in Nat /\ pin.id \in Nat /\ 1 <= pin.id /\ pin.id <= PacketIdMax
  BY <1>0, ShapeFields, Fields
<1>2. CASE SeqBacktrack > 0
  <2>1. BacktrackTest(r, pin) BY <1>2 DEF packet_id_test
  <2>2. Open(Slid(Restarted(r, pin), pin), pin, acc, SeqBacktrack, now)
    <3>1. CASE Restarts(r, pin) BY <1>2, <2>1, <3>1, RestartOpens
    <3>2. CASE ~ Restarts(r, pin)
      <4>1. Restarted(r, pin) = r BY <3>2 DEF Restarted
      <4>2. pin.time = r.time BY <1>1, <2>1, <3>2 DEF Restarts, BacktrackTest
      <4>3. CASE r.id < pin.id BY <1>2, <4>1, <4>2, <4>3, SlideOpens
      <4>4. CASE ~ (r.id < pin.id)
        <5>1. Slid(r, pin) = r BY <4>4 DEF Slid
        <5>2. r.id - pin.id < Len(r.seq) /\ r.seq[r.id - pin.id + 1] = SEQ_UNSEEN
          BY <1>1, <2>1, <4>2, <4>4 DEF BacktrackTest
        <5>3. Open(r, pin, acc, SeqBacktrack, now) BY <1>1, <4>2, <4>4, <5>2 DEF Open
        <5>4. QED BY <4>1, <5>1, <5>3
      <4>5. QED BY <4>3, <4>4
    <3>3. QED BY <3>1, <3>2
  <2>3. packet_id_add(r, pin) = Marked(Slid(Restarted(r, pin), pin), pin)
    BY <1>2 DEF packet_id_add
  <2>4. QED BY <2>2, <2>3, MarkWindow
<1>3. CASE ~ (SeqBacktrack > 0)
  <2> DEFINE s == packet_id_add(r, pin)
             all == acc \cup {new}
  <2>1. LinearTest(r, pin) BY <1>3 DEF packet_id_test
  <2>2. s = [time |-> pin.time, id |-> pin.id, last_reap |-> r.last_reap, seq |-> r.seq]
    <3>1. s = [r EXCEPT !.time = pin.time, !.id = pin.id] BY <1>3 DEF packet_id_add
    <3> HIDE DEF s
    <3>2. QED BY <1>1, <3>1
  <2> HIDE DEF s
  <2>3. s.time = pin.time /\ s.id = pin.id /\ s.last_reap = r.last_reap /\ s.seq = r.seq
    BY <2>2
  <2>4. SeqBacktrack = 0 /\ Len(s.seq) = 0 BY <1>1, <1>3, <2>3
  <2>5. \A i \in 1 .. Len(s.seq) : FALSE BY <2>4
  <2>6. Shape(s, SeqBacktrack)
    <3>1. s \in Recs BY <1>0, <1>1, <2>2 DEF Recs, Shape
    <3>2. QED BY <1>1, <2>3, <2>4, <3>1 DEF Shape
  <2>7. Suffix(s) /\ Stands(s, all) /\ Gone(s, all, now)
    BY <2>5, Zenon DEF Suffix, Stands, Gone
  <2>8. Reaped(s, now)
    <3>1. s.last_reap <= now BY <1>0, <2>3 DEF Reaped
    <3>2. QED BY <2>5, <3>1, Zenon DEF Reaped
  <2>9. Covers(s, all)
    <3> SUFFICES ASSUME NEW a \in all
                 PROVE  /\ a.net.time <= pin.time
                        /\ a.net.time = pin.time => a.net.id <= pin.id
      BY <2>3, <2>5, Zenon DEF Covers
    <3>1. CASE a = new BY <1>1, <3>1
    <3>2. CASE a \in acc
      <4>1. a.net.time \in Nat /\ a.net.id \in Nat BY <3>2, Fields
      <4>2. a.net.time <= r.time /\ (a.net.time = r.time => a.net.id <= r.id)
        BY <1>0, <3>2 DEF Covers
      <4>3. QED BY <1>1, <2>1, <4>1, <4>2 DEF LinearTest
    <3>3. QED BY <3>1, <3>2
  <2>10. Window(s, all, SeqBacktrack, now) BY <2>6, <2>7, <2>8, <2>9 DEF Window
  <2>11. QED BY <2>10 DEF s
<1>4. QED BY <1>2, <1>3

-----------------------------------------------------------------------------
(* The invariant of the system                                             *)

\* The clock, and the pair that the sender gave last.
SendInv ==
  /\ mode \in [window : Windows, long : BOOLEAN]
  /\ now \in 2 .. MaxNow
  /\ send \in [time : 0 .. now, id : 0 .. PacketIdMax]
  /\ send.time = 0 => send.id = 0 /\ wire = <<>>

\* Everything on the wire is older than the next pair will be.
WireInv ==
  /\ wire \in Seq(PacketNet)
  /\ \A i \in 1 .. Len(wire) :
       /\ wire[i].time = send.time \/ ~ mode.long => wire[i].id <= send.id
       /\ wire[i].time <= send.time
       /\ ~ mode.long => wire[i].time = 0

\* What was accepted was sent, and accepted once.
AcceptInv ==
  /\ accepted \subseteq Accs
  /\ \A a \in accepted : a.before = 0 /\ 2 <= a.at /\ a.at <= now

IInv == SendInv /\ WireInv /\ AcceptInv /\ Window(rec, accepted, mode.window, now)

\* The numbers of the sender.
LEMMA SendFields ==
  ASSUME SendInv
  PROVE  /\ now \in Nat /\ 2 <= now /\ now <= MaxNow
         /\ send.time \in Nat /\ send.time <= now
         /\ send.id \in Nat /\ send.id <= PacketIdMax
         /\ mode.window \in Nat
<1>1. now \in 2 .. MaxNow /\ send \in [time : 0 .. now, id : 0 .. PacketIdMax]
      /\ mode \in [window : Windows, long : BOOLEAN]
  BY DEF SendInv
<1>2. send.time \in 0 .. now /\ send.id \in 0 .. PacketIdMax /\ mode.window \in Windows
  BY <1>1
<1>3. QED BY <1>1, <1>2, Constants

\* Time passes: what is old stays old.
LEMMA LaterWindow ==
  ASSUME NEW w, NEW acc \in SUBSET Accs, NEW r \in Recs, NEW t \in Nat, NEW u \in Nat, t <= u,
         Window(r, acc, w, t)
  PROVE  Window(r, acc, w, u)
<1>1. Reaped(r, u)
  <2>1. r.last_reap \in Nat BY DEF Recs
  <2>2. r.last_reap <= u BY <2>1 DEF Window, Reaped
  <2>3. QED BY <2>2, Zenon DEF Window, Reaped
<1>2. Gone(r, acc, u)
  <2> SUFFICES ASSUME NEW i \in 1 .. Len(r.seq), r.seq[i] = SEQ_EXPIRED
               PROVE  /\ TimeBacktrack # 0
                      /\ \E a \in acc : /\ a.net.time = r.time /\ r.id - i + 1 <= a.net.id
                                        /\ a.at + TimeBacktrack < u
    BY DEF Gone
  <2>1. TimeBacktrack # 0 BY DEF Window, Gone
  <2>2. PICK a \in acc : /\ a.net.time = r.time /\ r.id - i + 1 <= a.net.id
                         /\ a.at + TimeBacktrack < t
    BY DEF Window, Gone
  <2>3. a.at + TimeBacktrack < u BY <2>2, Fields, Constants
  <2>4. QED BY <2>1, <2>2, <2>3
<1>3. QED BY <1>1, <1>2, Zenon DEF Window

\* The clock moves.
LEMMA TickStep ==
  ASSUME IInv, Tick
  PROVE  IInv'
<1>0. SendInv /\ WireInv /\ AcceptInv /\ Window(rec, accepted, mode.window, now) BY DEF IInv
<1>1. now' \in now + 1 .. MaxNow /\ UNCHANGED <<mode, send, rec, wire, accepted>> BY DEF Tick
<1>2. now' \in Nat /\ now <= now' /\ now' \in 2 .. MaxNow BY <1>0, <1>1, SendFields, Constants
<1>3. SendInv'
  <2>1. send \in [time : 0 .. now', id : 0 .. PacketIdMax]
    <3>1. send.time \in 0 .. now' /\ send = [time |-> send.time, id |-> send.id]
          /\ send.id \in 0 .. PacketIdMax
      BY <1>0, <1>2, SendFields DEF SendInv
    <3>2. QED BY <3>1
  <2>2. QED BY <1>0, <1>1, <1>2, <2>1 DEF SendInv
<1>4. WireInv' BY <1>0, <1>1, Zenon DEF WireInv
<1>5. AcceptInv'
  <2>1. \A a \in accepted : a.at <= now' BY <1>0, <1>2, Fields, SendFields DEF AcceptInv
  <2>2. QED BY <1>0, <1>1, <2>1, Zenon DEF AcceptInv
<1>6. Window(rec, accepted, mode.window, now')
  <2>1. rec \in Recs BY <1>0 DEF Window, Shape
  <2>2. QED BY <1>0, <1>2, <2>1, LaterWindow, SendFields DEF AcceptInv
<1>7. Window(rec, accepted, mode.window, now)' BY <1>1, <1>6
<1>8. QED BY <1>3, <1>4, <1>5, <1>7 DEF IInv

-----------------------------------------------------------------------------
(* The sender                                                              *)

\* The pair of the next packet, whose time stamp the short form leaves out.
NextPair == IF send.id = PacketIdMax THEN [time |-> now, id |-> 1]
                                     ELSE [time |-> Stamp, id |-> send.id + 1]
NextNet == [time |-> IF LongForm THEN NextPair.time ELSE 0, id |-> NextPair.id]

\* A new packet gets a pair that is not on the wire yet.
LEMMA WriteEffect ==
  ASSUME IInv, Write
  PROVE  /\ NextNet \in PacketNet
         /\ \A i \in 1 .. Len(wire) : wire[i] # NextNet
         /\ wire' = Append(wire, NextNet) /\ UNCHANGED <<mode, now, rec, accepted>>
         /\ SendInv' /\ WireInv'
<1>0. SendInv /\ WireInv BY DEF IInv
<1>1. /\ send.id = PacketIdMax => LongForm /\ now > Stamp
      /\ send' = NextPair /\ wire' = Append(wire, NextNet)
      /\ UNCHANGED <<mode, now, rec, accepted>>
  BY DEF Write, NextPair, NextNet
<1>2. /\ now \in Nat /\ 2 <= now /\ now <= MaxNow
      /\ send.time \in Nat /\ send.time <= now
      /\ send.id \in Nat /\ send.id <= PacketIdMax
      /\ PacketIdMax \in Nat /\ 1 <= PacketIdMax /\ MaxNow \in Nat
  BY <1>0, SendFields, Constants
<1>3. send.time = 0 => send.id = 0 /\ wire = <<>> BY <1>0 DEF SendInv
<1>4. /\ wire \in Seq(PacketNet) /\ Len(wire) \in Nat
      /\ \A i \in 1 .. Len(wire) : wire[i] \in PacketNet
  BY <1>0 DEF WireInv
<1>5. \A i \in 1 .. Len(wire) :
        /\ wire[i].time = send.time \/ ~ mode.long => wire[i].id <= send.id
        /\ wire[i].time <= send.time
        /\ ~ mode.long => wire[i].time = 0
  BY <1>0 DEF WireInv
<1> DEFINE n == NextPair
<1>6. /\ n = [time |-> n.time, id |-> n.id]
      /\ n.time \in Nat /\ 1 <= n.time /\ n.time <= now
      /\ n.id \in Nat /\ 1 <= n.id /\ n.id <= PacketIdMax
  <2>1. CASE send.id = PacketIdMax BY <1>2, <2>1 DEF NextPair
  <2>2. CASE send.id # PacketIdMax BY <1>2, <2>2 DEF NextPair, Stamp
  <2>3. QED BY <2>1, <2>2
<1>7. ASSUME NEW i \in 1 .. Len(wire)
      PROVE  /\ wire[i].time = n.time \/ ~ mode.long => wire[i].id < n.id
             /\ wire[i].time <= n.time
             /\ ~ mode.long => wire[i].time = 0
  <2>0. wire[i].time \in Nat /\ wire[i].id \in Nat BY <1>4, Fields
  <2>1. wire # <<>> BY <1>4
  <2>2. send.time # 0 /\ Stamp = send.time BY <1>3, <2>1 DEF Stamp
  <2>3. CASE send.id = PacketIdMax
    <3>1. n.time = now /\ now > send.time /\ mode.long BY <1>1, <2>2, <2>3 DEF NextPair, LongForm
    <3>2. wire[i].time <= send.time BY <1>5
    <3>3. wire[i].time < n.time BY <1>2, <2>0, <3>1, <3>2
    <3>4. QED BY <1>2, <2>0, <3>1, <3>3
  <2>4. CASE send.id # PacketIdMax
    <3>1. n.time = send.time /\ n.id = send.id + 1 BY <2>2, <2>4 DEF NextPair
    <3>2. /\ wire[i].time = send.time \/ ~ mode.long => wire[i].id <= send.id
          /\ wire[i].time <= send.time
          /\ ~ mode.long => wire[i].time = 0
      BY <1>5
    <3>3. wire[i].id <= send.id => wire[i].id < n.id BY <1>2, <2>0, <3>1
    <3>4. QED BY <3>1, <3>2, <3>3
  <2>5. QED BY <2>3, <2>4
<1> HIDE DEF n
<1>8. /\ NextNet = [time |-> IF mode.long THEN n.time ELSE 0, id |-> n.id]
      /\ NextNet.time = (IF mode.long THEN n.time ELSE 0) /\ NextNet.id = n.id
  BY DEF NextNet, LongForm, n
<1>9. NextNet \in PacketNet
  <2>1. (IF mode.long THEN n.time ELSE 0) \in 0 .. MaxNow /\ n.id \in 1 .. PacketIdMax
    BY <1>2, <1>6
  <2>2. QED BY <1>8, <2>1 DEF PacketNet
<1>10. ASSUME NEW i \in 1 .. Len(wire), wire[i] = NextNet PROVE FALSE
  <2>1. wire[i].time = n.time \/ ~ mode.long => wire[i].id < n.id BY <1>7
  <2>2. wire[i].id = n.id /\ (mode.long => wire[i].time = n.time) BY <1>8, <1>10
  <2>3. n.id < n.id BY <2>1, <2>2
  <2>4. QED BY <1>6, <2>3
<1>11. SendInv'
  <2>1. n.time \in 0 .. now /\ n.id \in 0 .. PacketIdMax /\ n.time # 0 BY <1>2, <1>6
  <2>2. n \in [time : 0 .. now, id : 0 .. PacketIdMax] BY <1>6, <2>1
  <2>3. send' = n BY <1>1 DEF n
  <2>4. QED BY <1>0, <1>1, <2>1, <2>2, <2>3 DEF SendInv
<1>12. WireInv'
  <2>1. wire' \in Seq(PacketNet) /\ Len(wire') = Len(wire) + 1 BY <1>1, <1>4, <1>9
  <2>2. ASSUME NEW i \in 1 .. Len(wire')
        PROVE  /\ wire'[i].time = n.time \/ ~ mode.long => wire'[i].id <= n.id
               /\ wire'[i].time <= n.time
               /\ ~ mode.long => wire'[i].time = 0
    <3>1. CASE i = Len(wire) + 1
      <4>1. wire'[i] = NextNet BY <1>1, <1>4, <1>9, <3>1
      <4>2. QED BY <1>6, <1>8, <4>1
    <3>2. CASE i # Len(wire) + 1
      <4>1. i \in 1 .. Len(wire) BY <1>4, <2>1, <3>2
      <4>2. wire'[i] = wire[i] BY <1>1, <1>4, <1>9, <4>1
      <4>3. wire[i].id \in Nat BY <1>4, <4>1, Fields
      <4>4. wire[i].id < n.id => wire[i].id <= n.id BY <1>6, <4>3
      <4>5. QED BY <1>7, <4>1, <4>2, <4>4
    <3>3. QED BY <3>1, <3>2
  <2>3. send' = n /\ mode' = mode BY <1>1 DEF n
  <2>4. QED BY <2>1, <2>2, <2>3 DEF WireInv
<1>13. QED BY <1>1, <1>9, <1>10, <1>11, <1>12

\* A packet is sent.
LEMMA WriteStep ==
  ASSUME IInv, Write
  PROVE  IInv'
<1>1. SendInv' /\ WireInv' /\ UNCHANGED <<mode, now, rec, accepted>> BY WriteEffect
<1>2. AcceptInv' /\ Window(rec, accepted, mode.window, now)' BY <1>1, Zenon DEF IInv, AcceptInv
<1>3. QED BY <1>1, <1>2 DEF IInv

-----------------------------------------------------------------------------
(* The receiver                                                            *)

\* A packet that passes the test is accepted for the first time.
LEMMA CheckEffect ==
  ASSUME IInv, NEW i \in 1 .. Len(wire), CheckReplay(wire[i])
  PROVE  /\ UNCHANGED <<mode, now, send, wire>>
         /\ Window(rec', accepted', mode.window, now)
         /\ \/ UNCHANGED accepted
            \/ /\ \A a \in accepted : a.net # wire[i]
               /\ accepted' = accepted \cup {[net |-> wire[i], at |-> now, before |-> 0]}
<1> DEFINE pin == wire[i]
           r == packet_id_reap_test(rec)
           new == [net |-> pin, at |-> now, before |-> 0]
<1>0. SendInv /\ WireInv /\ AcceptInv /\ Window(rec, accepted, SeqBacktrack, now)
  BY DEF IInv, SeqBacktrack
<1>1. now \in Nat /\ 2 <= now /\ SeqBacktrack \in Nat BY <1>0, SendFields DEF SeqBacktrack
<1>2. pin \in PacketNet BY <1>0 DEF WireInv
<1>3. accepted \in SUBSET Accs /\ \A a \in accepted : a.at >= 2
  <2>1. accepted \subseteq Accs /\ \A a \in accepted : 2 <= a.at BY <1>0 DEF AcceptInv
  <2>2. QED BY <2>1, Fields
<1>4. UNCHANGED <<mode, now, send, wire>> BY DEF CheckReplay
<1>5. /\ packet_id_test(r, pin) =>
           /\ rec' = packet_id_add(r, pin)
           /\ accepted' = accepted \cup {[net |-> pin, at |-> now, before |-> TimesAccepted(pin)]}
      /\ ~ packet_id_test(r, pin) => rec' = r /\ UNCHANGED accepted
  BY Zenon DEF CheckReplay
<1> HIDE DEF pin, r
<1>6. Window(r, accepted, SeqBacktrack, now) BY <1>0, <1>1, ReapTestWindow DEF r
<1>7. CASE packet_id_test(r, pin)
  <2>1. \A a \in accepted : a.net # pin BY <1>1, <1>2, <1>3, <1>6, <1>7, TestIsFresh
  <2>2. TimesAccepted(pin) = 0
    <3>1. {a \in accepted : a.net = pin} = {} BY <2>1
    <3>2. QED BY <3>1, FS_EmptySet DEF TimesAccepted
  <2>3. new \in Accs /\ new.net = pin /\ new.at = now BY <1>1, <1>2 DEF Accs
  <2> HIDE DEF new
  <2>4. Window(packet_id_add(r, pin), accepted \cup {new}, SeqBacktrack, now)
    BY <1>1, <1>2, <1>3, <1>6, <1>7, <2>3, AddWindow
  <2>5. rec' = packet_id_add(r, pin) /\ accepted' = accepted \cup {new}
    BY <1>5, <1>7, <2>2 DEF new
  <2>6. Window(rec', accepted', mode.window, now) BY <2>4, <2>5 DEF SeqBacktrack
  <2>7. QED BY <1>4, <2>1, <2>5, <2>6 DEF new, pin
<1>8. CASE ~ packet_id_test(r, pin)
  <2>1. Window(rec', accepted', mode.window, now) BY <1>5, <1>6, <1>8 DEF SeqBacktrack
  <2>2. QED BY <1>4, <1>5, <1>8, <2>1
<1>9. QED BY <1>7, <1>8

\* A packet arrives.
LEMMA CheckStep ==
  ASSUME IInv, NEW i \in 1 .. Len(wire), CheckReplay(wire[i])
  PROVE  IInv'
<1> DEFINE new == [net |-> wire[i], at |-> now, before |-> 0]
<1>0. SendInv /\ WireInv /\ AcceptInv BY DEF IInv
<1>1. /\ UNCHANGED <<mode, now, send, wire>> /\ Window(rec', accepted', mode.window, now)
      /\ accepted' = accepted \/ accepted' = accepted \cup {new}
  BY CheckEffect
<1>2. SendInv' /\ WireInv' BY <1>0, <1>1, Zenon DEF SendInv, WireInv
<1>3. AcceptInv'
  <2>1. now \in Nat /\ 2 <= now /\ now <= now /\ wire[i] \in PacketNet
    BY <1>0, SendFields DEF WireInv
  <2>2. new \in Accs /\ new.before = 0 /\ new.at = now BY <2>1 DEF Accs
  <2> HIDE DEF new
  <2>3. QED BY <1>0, <1>1, <2>1, <2>2 DEF AcceptInv
<1>4. Window(rec, accepted, mode.window, now)' BY <1>1
<1>5. QED BY <1>2, <1>3, <1>4 DEF IInv

\* The first state.
LEMMA InitIInv ==
  ASSUME Init
  PROVE  IInv
<1>1. /\ mode \in [window : Windows, long : BOOLEAN] /\ now = 2
      /\ send = [time |-> 0, id |-> 0] /\ wire = <<>> /\ accepted = {}
      /\ rec = [time |-> 0, id |-> 0, last_reap |-> 0, seq |-> <<>>]
  BY DEF Init
<1>2. SendInv BY <1>1, Constants DEF SendInv
<1>3. WireInv BY <1>1 DEF WireInv
<1>4. AcceptInv BY <1>1 DEF AcceptInv
<1>5. Window(rec, accepted, mode.window, now)
  <2>1. rec.time = 0 /\ rec.id = 0 /\ rec.last_reap = 0 /\ rec.seq = <<>> BY <1>1
  <2>2. Len(rec.seq) = 0 BY <2>1
  <2>3. \A j \in 1 .. Len(rec.seq) : FALSE BY <2>2
  <2>4. rec \in Recs BY <1>1, Constants DEF Recs
  <2>5. mode.window \in Nat BY <1>2, SendFields
  <2>6. Shape(rec, mode.window) BY <2>1, <2>2, <2>4, <2>5 DEF Shape
  <2>7. Suffix(rec) /\ Stands(rec, accepted) /\ Gone(rec, accepted, now)
    BY <2>3, Zenon DEF Suffix, Stands, Gone
  <2>8. Reaped(rec, now)
    <3>1. rec.last_reap <= now BY <1>1, <2>1
    <3>2. QED BY <2>3, <3>1, Zenon DEF Reaped
  <2>9. Covers(rec, accepted) BY <1>1, Zenon DEF Covers
  <2>10. QED BY <2>6, <2>7, <2>8, <2>9 DEF Window
<1>6. QED BY <1>2, <1>3, <1>4, <1>5 DEF IInv

\* Every step keeps the invariant.
LEMMA NextIInv ==
  ASSUME IInv, [Next]_vars
  PROVE  IInv'
<1>1. CASE Tick BY <1>1, TickStep
<1>2. CASE Write BY <1>2, WriteStep
<1>3. ASSUME NEW i \in 1 .. Len(wire), CheckReplay(wire[i]) PROVE IInv' BY <1>3, CheckStep
<1>4. CASE UNCHANGED vars
  BY <1>4, Zenon DEF vars, IInv, SendInv, WireInv, AcceptInv
<1>5. QED BY <1>1, <1>2, <1>3, <1>4 DEF Next

\* The invariant of the sender and the receiver holds in every state.
THEOREM PacketIdInv == Spec => []IInv
<1>1. Init => IInv BY InitIInv
<1>2. IInv /\ [Next]_vars => IInv' BY NextIInv
<1>3. QED BY <1>1, <1>2, PTL DEF Spec

-----------------------------------------------------------------------------
(* What the window refuses and hears                                       *)

\* The list that is looked at was reaped at most ReapInterval ago.
LEMMA ReapTestRecent ==
  ASSUME now \in Nat, NEW w \in Nat, NEW r, Shape(r, w)
  PROVE  now <= packet_id_reap_test(r).last_reap + ReapInterval
<1>1. r.last_reap \in Nat BY ShapeFields
<1>2. CASE r.last_reap + ReapInterval <= now
  <2>1. packet_id_reap_test(r) = packet_id_reap(r) BY <1>2 DEF packet_id_reap_test
  <2>2. packet_id_reap(r).last_reap = now
    <3>1. r = [time |-> r.time, id |-> r.id, last_reap |-> r.last_reap, seq |-> r.seq]
      BY ShapeFields
    <3>2. QED BY <3>1 DEF packet_id_reap
  <2>3. QED BY <2>1, <2>2, Constants
<1>3. CASE ~ (r.last_reap + ReapInterval <= now)
  <2>1. packet_id_reap_test(r) = r BY <1>3 DEF packet_id_reap_test
  <2>2. QED BY <1>1, <1>3, <2>1, Constants
<1>4. QED BY <1>2, <1>3

\* The parts of the invariant, and the list a packet is tested against.
LEMMA Looked ==
  ASSUME IInv
  PROVE  /\ now \in Nat /\ SeqBacktrack \in Nat
         /\ wire \in Seq(PacketNet) /\ (\A p \in Sent : p \in PacketNet)
         /\ accepted \subseteq Accs /\ (\A a \in accepted : 2 <= a.at)
         /\ Shape(rec, SeqBacktrack)
         /\ Window(packet_id_reap_test(rec), accepted, SeqBacktrack, now)
         /\ packet_id_reap_test(rec).time = rec.time /\ packet_id_reap_test(rec).id = rec.id
         /\ now <= packet_id_reap_test(rec).last_reap + ReapInterval
<1>1. SendInv /\ WireInv /\ AcceptInv /\ Window(rec, accepted, SeqBacktrack, now)
  BY DEF IInv, SeqBacktrack
<1>2. now \in Nat /\ SeqBacktrack \in Nat BY <1>1, SendFields DEF SeqBacktrack
<1>3. wire \in Seq(PacketNet) /\ \A p \in Sent : p \in PacketNet BY <1>1 DEF WireInv, Sent
<1>4. accepted \subseteq Accs /\ \A a \in accepted : 2 <= a.at BY <1>1 DEF AcceptInv
<1>5. Shape(rec, SeqBacktrack) BY <1>1 DEF Window
<1>6. QED BY <1>1, <1>2, <1>3, <1>4, <1>5, ReapTestWindow, ReapTestRecent

\* A straggler finds its number expired.
LEMMA RefusesLate ==
  ASSUME IInv
  PROVE  LateIsRefused
<1> DEFINE r == packet_id_reap_test(rec)
<1>0. SUFFICES ASSUME NEW pin \in Sent, NEW a \in accepted,
                      SeqBacktrack > 0, TimeBacktrack > 0, a.net.time = pin.time,
                      a.net.id > pin.id, a.at + TimeBacktrack + ReapInterval < now,
                      packet_id_test(r, pin)
               PROVE  FALSE
  BY DEF LateIsRefused
<1>1. /\ now \in Nat /\ SeqBacktrack \in Nat /\ pin \in PacketNet /\ a \in Accs /\ 2 <= a.at
      /\ Window(r, accepted, SeqBacktrack, now) /\ now <= r.last_reap + ReapInterval
  BY Looked
<1> HIDE DEF r
<1>2. Shape(r, SeqBacktrack) /\ Suffix(r) /\ Reaped(r, now) /\ Covers(r, accepted)
  BY <1>1 DEF Window
<1>3. /\ r.time \in Nat /\ r.id \in Nat /\ r.last_reap \in Nat /\ Len(r.seq) \in Nat
      /\ pin.time \in Nat /\ pin.id \in Nat /\ a.net.id \in Nat /\ a.at \in Nat
      /\ TimeBacktrack \in Nat /\ ReapInterval \in Nat
  <2>1. a.net \in PacketNet BY <1>1, Fields
  <2>2. QED BY <1>1, <1>2, <2>1, Fields, ShapeFields, Constants
<1>4. BacktrackTest(r, pin) BY <1>0 DEF packet_id_test
<1>5. pin.time <= r.time /\ (pin.time = r.time => a.net.id <= r.id) BY <1>0, <1>2 DEF Covers
<1>6. /\ pin.time = r.time /\ a.net.id <= r.id /\ r.id - pin.id < Len(r.seq)
      /\ r.seq[r.id - pin.id + 1] = SEQ_UNSEEN
  BY <1>0, <1>3, <1>4, <1>5 DEF BacktrackTest
<1> DEFINE i == r.id - a.net.id + 1
           j == r.id - pin.id + 1
<1>7. i \in 1 .. Len(r.seq) /\ j \in 1 .. Len(r.seq) /\ i <= j
  <2>1. ASSUME NEW n \in Nat, NEW p \in Nat, NEW b \in Nat, NEW l \in Nat,
               b > p, b <= n, n - p < l
        PROVE  n - b + 1 \in 1 .. l /\ n - p + 1 \in 1 .. l /\ n - b + 1 <= n - p + 1
    BY <2>1
  <2>2. a.net.id > pin.id BY <1>0
  <2>3. QED BY <1>3, <1>6, <2>1, <2>2
<1>8. r.seq[i] \in {SEQ_EXPIRED, a.at} BY <1>0, <1>2, <1>6, <1>7 DEF Covers
<1>9. CASE r.seq[i] = SEQ_EXPIRED
  <2>1. r.seq[j] = SEQ_EXPIRED
    <3> HIDE DEF i, j
    <3> QED BY <1>2, <1>7, <1>9 DEF Suffix
  <2>2. QED BY <1>6, <2>1 DEF SEQ_EXPIRED, SEQ_UNSEEN
<1>10. CASE r.seq[i] = a.at /\ r.seq[i] # SEQ_EXPIRED
  <2>1. a.at \notin {SEQ_UNSEEN, SEQ_EXPIRED} BY <1>1, <1>3 DEF SEQ_UNSEEN, SEQ_EXPIRED
  <2>2. TimeBacktrack # 0 BY <1>0, <1>3
  <2>3. r.last_reap <= a.at + TimeBacktrack
    <3> HIDE DEF i, j
    <3> QED BY <1>2, <1>7, <1>10, <2>1, <2>2 DEF Reaped
  <2>4. QED BY <1>0, <1>1, <1>3, <2>3
<1>11. QED BY <1>8, <1>9, <1>10

\* A number that is not taken and not late passes.
LEMMA HearsFresh ==
  ASSUME IInv
  PROVE  FreshIsHeard
<1> DEFINE r == packet_id_reap_test(rec)
<1>0. SUFFICES ASSUME NEW pin \in Sent, SeqBacktrack > 0, pin.time = rec.time,
                      pin.id + SeqBacktrack > rec.id,
                      \A a \in accepted : a.net # pin,
                      \A a \in accepted : a.net.time = pin.time /\ a.net.id > pin.id
                                            => a.at + TimeBacktrack >= now \/ TimeBacktrack = 0
               PROVE  packet_id_test(r, pin)
  BY DEF FreshIsHeard
<1>1. /\ now \in Nat /\ SeqBacktrack \in Nat /\ pin \in PacketNet /\ accepted \subseteq Accs
      /\ Window(r, accepted, SeqBacktrack, now) /\ r.time = rec.time /\ r.id = rec.id
  BY Looked
<1> HIDE DEF r
<1>2. /\ Shape(r, SeqBacktrack) /\ Stands(r, accepted) /\ Gone(r, accepted, now)
  BY <1>1 DEF Window
<1>3. /\ r.time \in Nat /\ r.id \in Nat /\ Len(r.seq) \in Nat
      /\ pin.time \in Nat /\ pin.id \in Nat /\ 1 <= pin.id /\ TimeBacktrack \in Nat
  BY <1>1, <1>2, Fields, ShapeFields, Constants
<1>4. \A a \in accepted : a.net.time = pin.time => a.net.id # pin.id
  <2> SUFFICES ASSUME NEW a \in accepted, a.net.time = pin.time, a.net.id = pin.id PROVE FALSE
    OBVIOUS
  <2>1. a.net \in PacketNet BY <1>1, Fields
  <2>2. a.net = pin BY <1>1, <2>1 DEF PacketNet
  <2>3. QED BY <1>0, <2>2
<1>5. SUFFICES ASSUME ~ (pin.id > r.id)
               PROVE  r.id - pin.id < Len(r.seq) /\ r.seq[r.id - pin.id + 1] = SEQ_UNSEEN
  BY <1>0, <1>1 DEF packet_id_test, BacktrackTest
<1> DEFINE i == r.id - pin.id + 1
<1>6. r.id - pin.id < Len(r.seq) /\ i \in 1 .. Len(r.seq)
  BY <1>0, <1>1, <1>2, <1>3, <1>5 DEF Shape
<1>7. r.id - i + 1 = pin.id BY <1>3
<1> HIDE DEF i
<1>8. r.seq[i] # SEQ_EXPIRED
  <2> SUFFICES ASSUME r.seq[i] = SEQ_EXPIRED PROVE FALSE OBVIOUS
  <2>1. /\ TimeBacktrack # 0
        /\ \E a \in accepted : /\ a.net.time = r.time /\ r.id - i + 1 <= a.net.id
                               /\ a.at + TimeBacktrack < now
    BY <1>2, <1>6 DEF Gone
  <2>2. PICK a \in accepted : a.net.time = r.time /\ pin.id <= a.net.id /\ a.at + TimeBacktrack < now
    BY <1>7, <2>1
  <2>3. a.net.id \in Nat /\ a.at \in Nat
    <3>1. a.net \in PacketNet /\ a.at \in Nat BY <1>1, Fields
    <3>2. QED BY <3>1, Fields
  <2>4. a.net.id > pin.id BY <1>0, <1>1, <1>3, <1>4, <2>2, <2>3
  <2>5. a.at + TimeBacktrack >= now BY <1>0, <1>1, <2>1, <2>2, <2>4
  <2>6. QED BY <1>1, <1>3, <2>2, <2>3, <2>5
<1>9. r.seq[i] = SEQ_UNSEEN
  <2> SUFFICES ASSUME r.seq[i] # SEQ_UNSEEN PROVE FALSE OBVIOUS
  <2>1. PICK a \in accepted : a.net.time = r.time /\ a.net.id = r.id - i + 1
    BY <1>2, <1>6, <1>8 DEF Stands
  <2>2. QED BY <1>0, <1>1, <1>4, <1>7, <2>1
<1>10. QED BY <1>6, <1>9 DEF i

\* The types and the length of the list.
LEMMA Types ==
  ASSUME IInv
  PROVE  TypeOK
<1>1. /\ now \in Nat /\ SeqBacktrack \in Nat /\ wire \in Seq(PacketNet)
      /\ accepted \subseteq Accs /\ Shape(rec, SeqBacktrack)
  BY Looked
<1>2. SendInv BY DEF IInv
<1>3. mode \in [window : Windows, long : BOOLEAN] BY <1>2 DEF SendInv
<1>4. send \in [time : Nat, id : 0 .. PacketIdMax]
  BY <1>1, <1>2 DEF SendInv
<1>5. /\ rec.time \in Nat /\ rec.id \in 0 .. PacketIdMax /\ rec.last_reap \in Nat
      /\ rec.seq \in Seq(Nat)
      /\ Len(rec.seq) = IF rec.id < SeqBacktrack THEN rec.id ELSE SeqBacktrack
  BY <1>1 DEF Shape, Recs
<1>6. QED BY <1>1, <1>3, <1>4, <1>5, Zenon DEF TypeOK, Accs

\* For every window, time limit and reap interval: the list covers the last
\* SeqBacktrack numbers and never more, and refuses the numbers behind one
\* that was accepted too long ago, although packet_id_reap runs only when a
\* packet comes in.
THEOREM WindowSafe == Spec => []WindowInv
<1>1. IInv => WindowInv BY Types, RefusesLate DEF WindowInv
<1>2. QED BY <1>1, PacketIdInv, PTL

\* packet_id_test refuses no number in the window that was not accepted and is
\* not behind one accepted more than TimeBacktrack seconds ago.
THEOREM FreshHeard == Spec => []FreshIsHeard
<1>1. IInv => FreshIsHeard BY HearsFresh
<1>2. QED BY <1>1, PacketIdInv, PTL

-----------------------------------------------------------------------------
(* The refinement                                                          *)

\* The acceptances as the abstract specification sees them.
Pairs == {<<a.net, a.before>> : a \in accepted}

\* Every step is one of the abstract specification or leaves its state alone.
LEMMA StepOnce ==
  ASSUME IInv, [Next]_vars
  PROVE  [Once!Give \/ Once!Accept]_<<wire, Pairs>>
<1>1. CASE Tick BY <1>1 DEF Tick, Pairs
<1>2. CASE Write
  <2>1. /\ NextNet \in PacketNet /\ (\A i \in 1 .. Len(wire) : wire[i] # NextNet)
        /\ wire' = Append(wire, NextNet) /\ accepted' = accepted
    BY <1>2, WriteEffect
  <2>2. NextNet \in PacketNet \ Once!Elements(wire) BY <2>1 DEF Once!Elements
  <2>3. Once!Give BY <2>1, <2>2 DEF Once!Give
  <2>4. QED BY <2>3
<1>3. ASSUME NEW i \in 1 .. Len(wire), CheckReplay(wire[i])
      PROVE  [Once!Give \/ Once!Accept]_<<wire, Pairs>>
  <2>1. wire' = wire BY <1>3, CheckEffect
  <2>2. CASE accepted' = accepted BY <2>1, <2>2 DEF Pairs
  <2>3. CASE /\ \A a \in accepted : a.net # wire[i]
             /\ accepted' = accepted \cup {[net |-> wire[i], at |-> now, before |-> 0]}
    <3>1. <<wire[i], 0>> \notin Pairs BY <2>3 DEF Pairs
    <3>2. Pairs' = Pairs \cup {<<wire[i], 0>>}
      <4> DEFINE new == [net |-> wire[i], at |-> now, before |-> 0]
      <4>1. new.net = wire[i] /\ new.before = 0 /\ accepted' = accepted \cup {new} BY <2>3
      <4> HIDE DEF new
      <4>2. Pairs' = {<<a.net, a.before>> : a \in accepted \cup {new}} BY <4>1 DEF Pairs
      <4>3. QED BY <4>1, <4>2 DEF Pairs
    <3>3. wire[i] \in Once!Elements(wire) BY DEF Once!Elements
    <3>4. Once!Accept BY <2>1, <3>1, <3>2, <3>3 DEF Once!Accept, Pairs
    <3>5. QED BY <3>4
  <2>4. QED BY <1>3, <2>2, <2>3, CheckEffect
<1>4. CASE UNCHANGED vars BY <1>4 DEF vars, Pairs
<1>5. QED BY <1>1, <1>2, <1>3, <1>4 DEF Next

\* The sender and the receiver implement AtMostOnce for every window, time
\* limit, reap interval and largest number: no id is given out twice, and none
\* is accepted twice however the network repeats and reorders the packets.
THEOREM PacketIdImplementsAtMostOnce == Spec => ImplementsAtMostOnce
<1>1. Init => Once!OnceInit BY DEF Init, Once!OnceInit
<1>2. IInv /\ [Next]_vars => [Once!Give \/ Once!Accept]_<<wire, Pairs>> BY StepOnce
<1>3. QED BY <1>1, <1>2, PacketIdInv, PTL DEF Spec, ImplementsAtMostOnce, Once!OnceSpec, Pairs

=============================================================================
