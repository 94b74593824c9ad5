--------------------------- MODULE MCUdpForwarder ---------------------------
(* UdpForwarder for TLC: two sessions, each a client of its own.             *)
EXTENDS UdpForwarder

CONSTANTS s1, s3, c1, c2

MCClientOf == [s \in Session |-> IF s = s3 THEN c2 ELSE c1]
=============================================================================
