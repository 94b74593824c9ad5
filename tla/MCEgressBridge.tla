--------------------------- MODULE MCEgressBridge ---------------------------
(* EgressBridge for TLC: two sessions share a client id (a reconnect under   *)
(* the same id, as in the test client_cleanup), a third is another client.   *)
EXTENDS EgressBridge, TLC

CONSTANTS s1, s2, s3, c1, c2

MCSession == {s1, s2, s3}
MCClient == {c1, c2}
MCClientOf == [s \in Session |-> IF s = s3 THEN c2 ELSE c1]

\* Requests, ids and the sessions of c1 are interchangeable (safety only).
MCSymmetry ==
    Permutations(Query) \cup Permutations(MsgId) \cup Permutations({s1, s2})
=============================================================================
