------------------------------ MODULE MCRoutes ------------------------------
(* The servers the clients of the runs of Routes connect to.                 *)
EXTENDS Routes

(* Every client has the same server.                                         *)
OneServer == [p \in Clients |-> "server"]
=============================================================================
