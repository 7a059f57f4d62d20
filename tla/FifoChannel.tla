---------------------------- MODULE FifoChannel ----------------------------
(***************************************************************************)
(* What the reliability layer of OpenVPN's control channel promises to the *)
(* TLS objects at its ends: the packets come out in the order in which     *)
(* they went in, each of them once.  Packet k is the k-th that goes in.    *)
(***************************************************************************)
EXTENDS Naturals, Sequences

VARIABLES
  given,      \* how many packets went in
  delivered   \* the packets that came out

ChannelInit == given = 0 /\ delivered = <<>>

Give == given' = given + 1 /\ UNCHANGED delivered

Deliver ==
  /\ Len(delivered) < given
  /\ delivered' = Append(delivered, Len(delivered) + 1)
  /\ UNCHANGED given

ChannelSpec == ChannelInit /\ [][Give \/ Deliver]_<<given, delivered>>

=============================================================================
