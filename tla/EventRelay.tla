----------------------------- MODULE EventRelay -----------------------------
(***************************************************************************)
(* What the webhook reactor promises to the consumers of its envelopes,    *)
(* with no HTTP, no clock, no sweeping and no process.                     *)
(*                                                                         *)
(* A delivery of an event takes a ticket.  While the key of an event is    *)
(* held no second ticket is issued for it.  A ticket is worth at most one  *)
(* envelope, which is relayed while the ticket is owed; an owed ticket may *)
(* also be settled with nothing relayed, since emission is best effort.    *)
(* A key may be forgotten, one at a time when its window is over or all at *)
(* once when the process dies, which also settles every owed ticket.       *)
(***************************************************************************)
CONSTANTS Ticket, Key

VARIABLES
    held,     \* the keys for which no further ticket is issued
    owed,     \* the tickets whose envelope may still be relayed
    spent,    \* the tickets issued so far
    relayed   \* the tickets whose envelope was relayed

vars == <<held, owed, spent, relayed>>

TypeOK ==
    /\ held \subseteq Key
    /\ owed \subseteq Ticket
    /\ spent \subseteq Ticket
    /\ relayed \subseteq Ticket

Init ==
    /\ held = {}
    /\ owed = {}
    /\ spent = {}
    /\ relayed = {}

Issue(t, k) ==
    /\ k \notin held
    /\ t \notin spent
    /\ held' = held \union {k}
    /\ owed' = owed \union {t}
    /\ spent' = spent \union {t}
    /\ UNCHANGED relayed

Relay(t) ==
    /\ t \in owed
    /\ t \notin relayed
    /\ relayed' = relayed \union {t}
    /\ UNCHANGED <<held, owed, spent>>

Settle(t) ==
    /\ t \in owed
    /\ owed' = owed \ {t}
    /\ UNCHANGED <<held, spent, relayed>>

Forget(k) ==
    /\ k \in held
    /\ held' = held \ {k}
    /\ UNCHANGED <<owed, spent, relayed>>

Die ==
    /\ held' = {}
    /\ owed' = {}
    /\ UNCHANGED <<spent, relayed>>

Next ==
    \/ \E t \in Ticket, k \in Key : Issue(t, k)
    \/ \E t \in Ticket : Relay(t) \/ Settle(t)
    \/ \E k \in Key : Forget(k)
    \/ Die

Spec == Init /\ [][Next]_vars

-----------------------------------------------------------------------------
(* What follows for the consumers.                                         *)

(* Only issued tickets are relayed or still owed. *)
Backed == relayed \union owed \subseteq spent

(* An event is relayed within the life of its ticket or not at all: what   *)
(* was settled, or lost when the process died, is not relayed afterwards,  *)
(* and what was relayed is not taken back.                                 *)
NoneRevived ==
    [][/\ relayed \subseteq relayed'
       /\ (spent \ owed) \subseteq (spent' \ owed')
       /\ relayed' \intersect (spent \ owed) \subseteq relayed]_vars
=============================================================================
