--------------------------- MODULE MCTaskWrapper ---------------------------
(* TaskWrapper for TLC: an accept loop, one session of it, and its two pumps. *)
EXTENDS TaskWrapper

CONSTANTS service, session, fwd1, fwd2

MCTask == {service, session, fwd1, fwd2}
MCOwner == [t \in MCTask |-> IF t = service THEN Main
                             ELSE IF t = session THEN service ELSE session]
=============================================================================
