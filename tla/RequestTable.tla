---------------------------- MODULE RequestTable ----------------------------
(***************************************************************************)
(* The table of outstanding DNS requests that both bridges keep: a HashMap *)
(* from the 16-bit DNS message id to the client that asked and the instant *)
(* the request was registered (egress_bridge.rs MessageState,              *)
(* ingress_bridge.rs DNSMsgState).                                         *)
(*                                                                         *)
(* creation_time is kept as the age of the entry in ticks, so that no      *)
(* clock grows without bound.  The field q names the request that made the *)
(* entry; the code has no such field and no action's guard reads it: it is *)
(* history for the properties.                                             *)
(***************************************************************************)
EXTENDS Naturals

CONSTANTS
    Query,    \* the DNS requests of a behaviour: each names one question
    MsgId,    \* DNS message ids (u16 in the code), chosen by the requester
    Client,   \* who may be answered: client ids (egress), addresses (ingress)
    Timeout,  \* config.message_timeout / config.timeout, in ticks
    NoEntry   \* marks a message id that no request holds

Entry == [client : Client, age : Nat, q : Query]

ASSUME TimeoutAssumption == Timeout \in Nat
ASSUME NoEntryAssumption == NoEntry \notin Entry

Table == [MsgId -> Entry \cup {NoEntry}]

EmptyTable == [i \in MsgId |-> NoEntry]

\* client and message confused
NewEntrySwappedMutant(c, q) == [client |-> q, age |-> 0, q |-> c]

(* MessageState::new, DNSMsgState::new. *)
NewEntry(c, q) == [client |-> c, age |-> 0, q |-> q]

(***************************************************************************)
(* cleanup_messages / cleanup: an entry stays while now - creation_time is *)
(* strictly less than the timeout.                                         *)
(***************************************************************************)
ExpiredLateMutant(e) == e.age > Timeout   \* keeps an entry of exactly that age

Expired(e) == e.age >= Timeout

\* a cleanup that starts the timer of an expired entry anew, and keeps it
ExpireRenewMutant(table) ==
    [i \in MsgId |-> IF table[i] # NoEntry /\ Expired(table[i])
                     THEN NewEntry(table[i].client, table[i].q) ELSE table[i]]

Expire(table) ==
    [i \in MsgId |-> IF table[i] # NoEntry /\ Expired(table[i]) THEN NoEntry
                     ELSE table[i]]

(***************************************************************************)
(* insert(id, new) followed, when a previous entry came back, by           *)
(* insert(id, prev): the request that holds the id first keeps it, with    *)
(* its own creation_time.                                                  *)
(***************************************************************************)
\* the collision branch without its second insert: the newcomer takes the id
RegisterOverMutant(table, i, c, q) == [table EXCEPT ![i] = NewEntry(c, q)]

Register(table, i, c, q) ==
    [table EXCEPT ![i] = IF @ = NoEntry THEN NewEntry(c, q) ELSE @]

(* remove(id): the reply takes the entry with it. *)
RemoveNothingMutant(table, i) == table    \* get() in the place of remove()

Remove(table, i) == [table EXCEPT ![i] = NoEntry]

(* One tick passes: now grows, so every age does. *)
Elapse(table) ==
    [i \in MsgId |-> IF table[i] = NoEntry THEN NoEntry
                     ELSE [table[i] EXCEPT !.age = @ + 1]]

(* The requests that hold an id, of those in the table. *)
Registered(table) == {table[i].q : i \in {j \in MsgId : table[j] # NoEntry}}
=============================================================================
