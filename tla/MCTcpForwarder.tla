--------------------------- MODULE MCTcpForwarder ---------------------------
(* TcpForwarder for TLC: replies whose bytes read as a length.               *)
EXTENDS TcpForwarder

MCMessage == {<<0, 2>>, <<0, 0, 1>>}
=============================================================================
