---------------------------- MODULE MCDnsChannel ----------------------------
(* DnsChannel for TLC: messages whose bytes read as a length, one that the   *)
(* socket takes in one piece and one that it may take in parts; a direction  *)
(* of the socket is full after one frame, so that both can be at once.       *)
EXTENDS DnsChannel

MCMessage == {<<0, 2>>, <<0, 0, 1>>}
MCCapacity == [p \in End |-> IF p = "client" THEN 5 ELSE 3]
MCMaxMessages == [p \in End |-> IF p = "client" THEN 1 ELSE 2]
=============================================================================
