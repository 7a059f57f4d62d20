------------------------------- MODULE MCRekey -------------------------------
(* The renegotiation periods of the runs of Rekey.                           *)
EXTENDS Rekey

(* Both ends renegotiate, on the same period: their resets cross.            *)
BothRenegotiate == [e \in Ends |-> 2]
=============================================================================
