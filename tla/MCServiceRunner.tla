-------------------------- MODULE MCServiceRunner --------------------------
(* ServiceRunner for TLC: two names and two addresses, so that services can  *)
(* be renamed, moved and swapped.  A configuration is named by its address.  *)
EXTENDS ServiceRunner

CONSTANTS a1, a2, MCBind1, MCBind2   \* how the service at a1, at a2, binds

MCValue == {a1, a2}
MCAddressOf == [v \in MCValue |-> v]
MCBindOf == [v \in MCValue |-> IF v = a1 THEN MCBind1 ELSE MCBind2]
MCDns == {v \in MCValue : MCBindOf[v] # "once"}
=============================================================================
