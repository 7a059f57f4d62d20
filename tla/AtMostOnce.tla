----------------------------- MODULE AtMostOnce -----------------------------
(***************************************************************************)
(* What OpenVPN's packet ids promise over a network that loses, repeats    *)
(* and reorders: no id is given to two packets, and what comes out was     *)
(* sent and did not come out before.                                       *)
(***************************************************************************)
EXTENDS Naturals, Sequences

CONSTANT Ids

VARIABLES
  sent,       \* the ids given out so far, in order
  accepted    \* the acceptances: each an id and how often it was accepted before

Elements(s) == {s[i] : i \in 1 .. Len(s)}

OnceInit == sent = <<>> /\ accepted = {}

Give ==
  \E p \in Ids \ Elements(sent) :
    sent' = Append(sent, p) /\ UNCHANGED accepted

Accept ==
  \E p \in Elements(sent) :
    /\ <<p, 0>> \notin accepted
    /\ accepted' = accepted \cup {<<p, 0>>}
    /\ UNCHANGED sent

OnceSpec == OnceInit /\ [][Give \/ Accept]_<<sent, accepted>>

=============================================================================
