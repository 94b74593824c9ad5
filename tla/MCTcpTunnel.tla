---------------------------- MODULE MCTcpTunnel ----------------------------
(* TcpTunnel for TLC: the application sends two bytes, the service one.  Two *)
(* bytes can be read at once, and written one at a time, when there is room. *)
EXTENDS TcpTunnel

MCCapacity == <<2, 1, 1>>
MCMaxBytes == [d \in Dir |-> IF d = "up" THEN 2 ELSE 1]
=============================================================================
