-------------------------------- MODULE Rekey --------------------------------
(****************************************************************************)
(* Key renegotiation between two OpenVPN ends (ssl.c): the session's two    *)
(* key states, the renegotiation trigger, the control handshake of one key, *)
(* the clocks that retire the old key, and the choice of the data channel   *)
(* key on either side.                                                      *)
(*                                                                          *)
(* The session is established: both ends hold key 0.  A key's TLS dialogue  *)
(* is abstracted to two control packets of each end, the reset (packet 0)   *)
(* and the key message (packet 1); Reliable.tla is about how they travel.   *)
(* Once a negotiation fails the session moves to TM_LAME_DUCK, where only   *)
(* its old key lives on; the hard reset that opens the next session is not  *)
(* modelled.  Authentication of a key on the server is taken as immediate.  *)
(****************************************************************************)
EXTENDS Integers, Sequences, SequencesExt

CONSTANTS KeyIdMask,        \* P_KEY_ID_MASK
          HandshakeWindow,  \* --hand-window
          TransitionWindow, \* --tran-window
          RenegSeconds,     \* --reneg-sec of each end, 0 is never
          MaxMishaps,       \* bound on the packets lost or overtaken, the TLS errors
                            \* and the renegotiations ahead of time
          MaxNow,           \* bound on the clock
          MaxNet            \* bound on the control packets under way to one end

Ends == {"client", "server"}

ASSUME RekeyAssumption ==
    /\ KeyIdMask \in Nat \ {0, 1}
    /\ HandshakeWindow \in Nat \ {0}
    /\ TransitionWindow \in Nat \ {0}
    /\ RenegSeconds \in [Ends -> Nat]
    /\ MaxMishaps \in Nat
    /\ MaxNow \in Nat
    /\ MaxNet \in Nat

(* The windows are in the proportion that the options' defaults give them    *)
(* (60, 3600 and 3600 seconds): a handshake fits twice into the life of an   *)
(* old key and into --reneg-sec.  The other triggers of a renegotiation do   *)
(* not respect that period: see rushed.                                      *)
ASSUME WindowAssumption ==
    /\ TransitionWindow >= 2 * HandshakeWindow
    /\ \A e \in Ends : RenegSeconds[e] = 0 \/ RenegSeconds[e] >= 2 * HandshakeWindow

VARIABLES
    now,      \* the clock
    key,      \* the key states, by end: KS_PRIMARY and KS_LAME_DUCK
    next,     \* session->key_id: the id and number of the end's next key
    over,     \* the session was moved to TM_LAME_DUCK or reset
    net,      \* control packets on their way to each end
    mishaps,  \* how many of what MaxMishaps bounds
    stray,    \* history: an end obeyed a reset of a key it had already
    rushed    \* history: a key was renegotiated before two handshakes fit into its life

vars == <<now, key, next, over, net, mishaps, stray, rushed>>

Peer(e) == CHOOSE p \in Ends : p # e

S_UNDEF     == 0
S_INITIAL   == 1
S_PRE_START == 2
S_START     == 3
S_SENT_KEY  == 4
S_GOT_KEY   == 5
S_ACTIVE    == 6

(* "serial" counts the keys of the session: it tells two keys that share an  *)
(* id apart, as their key material would.                                    *)
KeyState(i, n) ==
    [state |-> S_INITIAL, key_id |-> i, serial |-> n, must_negotiate |-> 0,
     deferred |-> 0, established |-> 0, must_die |-> 0,
     send |-> {}, rec |-> {}, ack |-> {}]

NoKey == [KeyState(0, 0) EXCEPT !.state = S_UNDEF]

(* Mutant: ids are not recycled.                                             *)
NextIdUnmasked(i) == i + 1

(* Mutant: ids start again one too early.                                    *)
NextIdEarly(i) == IF i >= KeyIdMask - 1 THEN 1 ELSE i + 1

(* key_state_init: ids count to the mask, then start again at 1.             *)
NextId(i) == IF i = KeyIdMask THEN 1 ELSE i + 1

Init ==
    /\ now = 0
    /\ key = [e \in Ends |-> [primary |-> [KeyState(0, 0) EXCEPT !.state = S_ACTIVE],
                              lame    |-> NoKey]]
    /\ next = [e \in Ends |-> [key_id |-> NextId(0), serial |-> 1]]
    /\ over = [e \in Ends |-> FALSE]
    /\ net = [e \in Ends |-> <<>>]
    /\ mishaps = 0
    /\ stray = FALSE
    /\ rushed = FALSE

-----------------------------------------------------------------------------
DECRYPT_KEY_ENABLED(e, ks) ==
    ks.state >= (IF e = "server" THEN S_SENT_KEY ELSE S_GOT_KEY)

auth_deferred_expire_window(e) ==
    LET half == RenegSeconds[e] \div 2
    IN  IF RenegSeconds[e] # 0 /\ half < HandshakeWindow THEN half ELSE HandshakeWindow

FULL_SYNC(ks) == ks.send = {} /\ ks.ack = {}

(* What is still read of a key state that retires.                           *)
Retired(ks) ==
    [ks EXCEPT !.must_die = now + TransitionWindow, !.must_negotiate = 0,
               !.established = 0, !.send = {}, !.rec = {}, !.ack = {}]

(* key_state_soft_reset: the primary key retires, whatever its state, and    *)
(* the key that was retiring is freed.                                       *)
SoftReset(e) ==
    [primary |-> KeyState(next[e].key_id, next[e].serial),
     lame    |-> Retired(key[e].primary)]

Counted(e) ==
    next' = [next EXCEPT ![e] = [key_id |-> NextId(@.key_id), serial |-> @.serial + 1]]

lame_duck_must_die(e) ==
    key[e].lame.state >= S_INITIAL /\ now >= key[e].lame.must_die

TimedOut(ks) ==
    ks.state \in S_PRE_START .. S_GOT_KEY /\ now >= ks.must_negotiate

(* tls_process runs for a session that is not over; it frees the expired key *)
(* before it does anything else but the renegotiation test.                  *)
Processing(e) == ~over[e] /\ ~lame_duck_must_die(e)

SetPrimary(e, ks) ==
    /\ key' = [key EXCEPT ![e].primary = ks]
    /\ UNCHANGED <<now, next, over, net, mishaps, stray, rushed>>

(* A control packet names its key by id, and carries the acknowledgements    *)
(* that are due.                                                             *)
Sent(e, ks, op, pid) ==
    /\ Len(net[Peer(e)]) < MaxNet
    /\ net' = [net EXCEPT ![Peer(e)] =
                  Append(@, [op |-> op, pid |-> pid, key_id |-> ks.key_id,
                             serial |-> ks.serial, acks |-> ks.ack])]
    /\ key' = [key EXCEPT ![e].primary = [ks EXCEPT !.ack = {}]]
    /\ UNCHANGED <<now, next, over, mishaps, stray, rushed>>

(* A key renegotiated so early can meet a peer that has not finished it.     *)
TooSoon(e) == now < key[e].primary.established + 2 * HandshakeWindow

(* The renegotiation trigger: the key's age, or, at any moment, the bytes or *)
(* packets it has protected, or a packet id that is about to wrap.           *)
Renegotiate(e) ==
    /\ ~over[e]
    /\ key[e].primary.state >= S_ACTIVE
    /\ \/ /\ RenegSeconds[e] # 0
          /\ now >= key[e].primary.established + RenegSeconds[e]
          /\ UNCHANGED mishaps
       \/ mishaps < MaxMishaps /\ mishaps' = mishaps + 1
    /\ key' = [key EXCEPT ![e] = SoftReset(e)]
    /\ Counted(e)
    /\ rushed' = (rushed \/ TooSoon(e))
    /\ UNCHANGED <<now, over, net, stray>>

KillLame(e) ==
    /\ lame_duck_must_die(e)
    /\ key' = [key EXCEPT ![e].lame = NoKey]
    /\ UNCHANGED <<now, next, over, net, mishaps, stray, rushed>>

(* S_INITIAL: start the clocks of the key, queue the reset packet; the loop   *)
(* sends it in its next round.                                               *)
Negotiate(e) ==
    LET ks == key[e].primary
    IN  /\ Processing(e)
        /\ ks.state = S_INITIAL
        /\ Sent(e, [ks EXCEPT !.state = S_PRE_START,
                              !.must_negotiate = now + HandshakeWindow,
                              !.deferred = now + auth_deferred_expire_window(e),
                              !.send = {0}], "SOFT_RESET", 0)

(* Every later stage of the loop comes after the timeout test.               *)
Stage(e, s) == Processing(e) /\ key[e].primary.state = s /\ ~TimedOut(key[e].primary)

StartStage(e) == Stage(e, S_PRE_START) /\ FULL_SYNC(key[e].primary)

Start(e) ==
    /\ StartStage(e)
    /\ SetPrimary(e, [key[e].primary EXCEPT !.state = S_START])

(* Mutant: the key is used without waiting for the acknowledgements.         *)
ActivateStageUnacked(e) ==
    Stage(e, IF e = "server" THEN S_SENT_KEY ELSE S_GOT_KEY)

(* The negotiation is complete once everything is acknowledged both ways.    *)
ActivateStage(e) ==
    /\ Stage(e, IF e = "server" THEN S_SENT_KEY ELSE S_GOT_KEY)
    /\ FULL_SYNC(key[e].primary)

Activate(e) ==
    /\ ActivateStage(e)
    /\ SetPrimary(e, [key[e].primary EXCEPT !.state = S_ACTIVE, !.established = now,
                                            !.must_negotiate = 0])

SendKeyStage(e) == Stage(e, IF e = "server" THEN S_GOT_KEY ELSE S_START)

(* key_method_2_write, and the packet that carries it.                       *)
SendKey(e) ==
    /\ SendKeyStage(e)
    /\ Sent(e, [key[e].primary EXCEPT !.state = S_SENT_KEY, !.send = @ \cup {1}],
            "CONTROL", 1)

(* The peer's key message is read when both its packets are here.            *)
GetKeyStage(e) ==
    /\ Stage(e, IF e = "server" THEN S_START ELSE S_SENT_KEY)
    /\ key[e].primary.rec = {0, 1}

GetKey(e) ==
    /\ GetKeyStage(e)
    /\ SetPrimary(e, [key[e].primary EXCEPT !.state = S_GOT_KEY])

(* A control packet is sent again until it is acknowledged.                  *)
Transmit(e) ==
    /\ Processing(e)
    /\ ~TimedOut(key[e].primary)
    /\ \E pid \in key[e].primary.send :
          Sent(e, key[e].primary, IF pid = 0 THEN "SOFT_RESET" ELSE "CONTROL", pid)

(* A dedicated acknowledgement, once the loop has nothing else to do.        *)
WriteAck(e) ==
    /\ Processing(e)
    /\ ~TimedOut(key[e].primary)
    /\ key[e].primary.state # S_INITIAL
    /\ ~SendKeyStage(e) /\ ~GetKeyStage(e)
    /\ key[e].primary.ack # {}
    /\ Sent(e, key[e].primary, "ACK", 0)

(* tls_process comes to its error exit: the key was not negotiated in time,  *)
(* or the TLS object or the key message fails, at any stage.                 *)
Erring(e) ==
    /\ Processing(e)
    /\ key[e].primary.state >= S_PRE_START
    /\ \/ TimedOut(key[e].primary) /\ UNCHANGED mishaps
       \/ mishaps < MaxMishaps /\ mishaps' = mishaps + 1

(* Mutant: a failed negotiation resets the session, old key included.        *)
FailDropsLame(e) ==
    /\ Erring(e)
    /\ over' = [over EXCEPT ![e] = TRUE]
    /\ key' = [key EXCEPT ![e] = [primary |-> NoKey, lame |-> NoKey]]
    /\ UNCHANGED <<now, next, net, stray, rushed>>

(* tls_multi_process, after an error: the session is moved to TM_LAME_DUCK   *)
(* when its old key is active, and reset otherwise.                          *)
Fail(e) ==
    /\ Erring(e)
    /\ over' = [over EXCEPT ![e] = TRUE]
    /\ key' = [key EXCEPT ![e] =
                  [primary |-> NoKey,
                   lame    |-> IF @.lame.state >= S_ACTIVE THEN @.lame ELSE NoKey]]
    /\ UNCHANGED <<now, next, net, stray, rushed>>

-----------------------------------------------------------------------------
(* The control channel.                                                      *)
(* The packets an end can receive next: the first, or one that overtook it.  *)
Receivable(e) == IF mishaps < MaxMishaps THEN DOMAIN net[e] ELSE DOMAIN net[e] \cap {1}

Arrived(ks, m) ==
    IF m.key_id # ks.key_id
    THEN ks
    ELSE LET acked == [ks EXCEPT !.send = @ \ m.acks]
         IN  IF m.op = "ACK"
             THEN acked
             ELSE [acked EXCEPT !.rec = @ \cup {m.pid}, !.ack = @ \cup {m.pid}]

(* tls_pre_decrypt for a control packet: a soft reset renews the key before  *)
(* the packet's key id is compared, if the primary key is past its exchange. *)
(* Packets of a session that is over are dropped by their session id.        *)
Receive(e) ==
    \E i \in Receivable(e) :
        LET m      == net[e][i]
            resets == /\ m.op = "SOFT_RESET"
                      /\ ~over[e]
                      /\ DECRYPT_KEY_ENABLED(e, key[e].primary)
            pair   == IF resets THEN SoftReset(e) ELSE key[e]
        IN  /\ net' = [net EXCEPT ![e] = RemoveAt(@, i)]
            /\ key' = [key EXCEPT ![e] = IF over[e] THEN @
                         ELSE [pair EXCEPT !.primary = Arrived(@, m)]]
            /\ IF resets THEN Counted(e) ELSE UNCHANGED next
            /\ mishaps' = IF i = 1 THEN mishaps ELSE mishaps + 1
            /\ stray' = (stray \/ (resets /\ m.serial < next[e].serial))
            /\ UNCHANGED <<now, over, rushed>>

Lose(e) ==
    /\ mishaps < MaxMishaps
    /\ mishaps' = mishaps + 1
    /\ \E i \in DOMAIN net[e] : net' = [net EXCEPT ![e] = RemoveAt(@, i)]
    /\ UNCHANGED <<now, key, next, over, stray, rushed>>

(* The event loop runs tls_process at its wakeups and after each control     *)
(* packet, so no second passes while a stage that needs no packet is due.    *)
Due(e) ==
    \/ lame_duck_must_die(e)
    \/ ~over[e] /\ (key[e].primary.state = S_INITIAL \/ TimedOut(key[e].primary))
    \/ StartStage(e) \/ SendKeyStage(e) \/ GetKeyStage(e) \/ ActivateStage(e)

Tick ==
    /\ now < MaxNow
    /\ \A e \in Ends : ~Due(e)
    /\ now' = now + 1
    /\ UNCHANGED <<key, next, over, net, mishaps, stray, rushed>>

TlsProcess(e) ==
    \/ Renegotiate(e)
    \/ KillLame(e)
    \/ Negotiate(e)
    \/ Start(e)
    \/ Activate(e)
    \/ SendKey(e)
    \/ GetKey(e)
    \/ Fail(e)
    \/ Transmit(e)
    \/ WriteAck(e)

(* A packet that was delayed can be a reset of a key the end has already,    *)
(* which it obeys; the model ends there (see KeepsSendKey).                  *)
Next ==
    /\ ~stray
    /\ \/ \E e \in Ends : TlsProcess(e) \/ Receive(e) \/ Lose(e)
       \/ Tick

Spec == Init /\ [][Next]_vars

-----------------------------------------------------------------------------
(* The data channel.  Keys are scanned primary first.                        *)
Scan(e) == <<key[e].primary, key[e].lame>>

(* The first of the keys that passed a scan's test, NoKey when none did.     *)
FirstKey(e, hits) ==
    IF hits = {} THEN NoKey ELSE Scan(e)[CHOOSE i \in hits : \A j \in hits : i <= j]

(* tls_pre_encrypt: an active key, and one whose transition is over before   *)
(* one that is still in it.                                                  *)
tls_pre_encrypt(e) ==
    LET usable  == {i \in 1 .. 2 : Scan(e)[i].state >= S_ACTIVE}
        settled == {i \in usable : now >= Scan(e)[i].deferred}
    IN  FirstKey(e, IF settled # {} THEN settled ELSE usable)

(* handle_data_channel_packet: the first enabled key with the packet's id.   *)
handle_data_channel_packet(e, id) ==
    FirstKey(e, {i \in 1 .. 2 : DECRYPT_KEY_ENABLED(e, Scan(e)[i]) /\ Scan(e)[i].key_id = id})

-----------------------------------------------------------------------------
KeyStates ==
    [state : S_UNDEF .. S_ACTIVE, key_id : 0 .. KeyIdMask, serial : Nat,
     must_negotiate : Nat, deferred : Nat, established : Nat, must_die : Nat,
     send : SUBSET {0, 1}, rec : SUBSET {0, 1}, ack : SUBSET {0, 1}]

Packets ==
    [op : {"SOFT_RESET", "CONTROL", "ACK"}, pid : {0, 1}, key_id : 0 .. KeyIdMask,
     serial : Nat, acks : SUBSET {0, 1}]

(* Types; a key id always fits its three bits on the wire, and 0 names the   *)
(* first key only.                                                           *)
TypeOK ==
    /\ now \in 0 .. MaxNow
    /\ key \in [Ends -> [primary : KeyStates, lame : KeyStates]]
    /\ next \in [Ends -> [key_id : 1 .. KeyIdMask, serial : Nat]]
    /\ over \in [Ends -> BOOLEAN]
    /\ net \in [Ends -> Seq(Packets)]
    /\ mishaps \in 0 .. MaxMishaps
    /\ stray \in BOOLEAN /\ rushed \in BOOLEAN

(* "This feature ... removes the key renegotiation sequence from the critical *)
(* path of tunnel data forwarding" (--tran-window): through renegotiations    *)
(* started by either end or by both, and through one that fails, an end that  *)
(* can encrypt data still can after every step.  Four things alone take its   *)
(* last key away: the expiry of the old key of an abandoned session; a TLS    *)
(* error with no old key left; a delayed soft reset of a key the end already  *)
(* has, which makes the key half negotiated the old one and frees the one in  *)
(* use; and a key that was renegotiated (by volume) before two handshakes     *)
(* fitted into its life.                                                      *)
KeepsSendKey ==
    [][\A e \in Ends : tls_pre_encrypt(e) # NoKey =>
           \/ tls_pre_encrypt(e)' # NoKey
           \/ over[e] /\ lame_duck_must_die(e)
           \/ over'[e] /\ ~over[e] /\ key[e].lame.state = S_UNDEF
           \/ stray' \/ rushed]_vars

(* While the session lasts on both ends, the key with which either would      *)
(* encrypt now is one that its peer finds: neither the delay before the new   *)
(* key is used, nor the retirement of the old one, nor the reuse of ids makes *)
(* the peer drop the data.  Excepted is a session in which an end has obeyed  *)
(* a delayed soft reset of a key it already had, or renegotiated a key (by    *)
(* volume) before two handshakes fitted into its life: then the peer may not  *)
(* have finished the key that the end uses.                                   *)
PeerCanDecrypt ==
    \A e \in Ends :
        LET ks    == tls_pre_encrypt(e)
            found == handle_data_channel_packet(Peer(e), ks.key_id)
        IN  ~stray /\ ~rushed /\ ~over[e] /\ ~over[Peer(e)] /\ ks # NoKey =>
                found # NoKey /\ found.serial = ks.serial

(* A data packet names its key by a recycled id of three bits, and the peer   *)
(* takes the first key that bears it: however early keys are renegotiated,    *)
(* and while one session is abandoned and the other not, the key it takes is  *)
(* the key the packet was encrypted with, never another one of the same id.   *)
NoKeyMistaken ==
    \A e \in Ends :
        LET ks    == tls_pre_encrypt(e)
            found == handle_data_channel_packet(Peer(e), ks.key_id)
        IN  ~stray /\ ks # NoKey /\ found # NoKey => found.serial = ks.serial

(* The invariant of the two key states: types, key ids that fit their field,  *)
(* and a key of either end that the other finds.                              *)
KeyInv == TypeOK /\ PeerCanDecrypt

=============================================================================
