----------------------------- MODULE KeyedCalls -----------------------------
(***************************************************************************)
(* What an operation on a managed object promises to the workflow that     *)
(* calls it, with no keys, no network and no objects.                      *)
(*                                                                         *)
(* A call has one intent.  It is carried out at most once, however often   *)
(* its request is sent, and it is told that it is done only when its       *)
(* intent was carried out, by itself or by another call of that intent.    *)
(***************************************************************************)
EXTENDS Naturals

CONSTANTS Call, Intent, NoIntent

VARIABLES
    intent,   \* what each call is for
    carried,  \* how often each call was carried out
    told      \* what each call was told in the end

vars == <<intent, carried, told>>

TypeOK ==
    /\ intent \in [Call -> Intent \union {NoIntent}]
    /\ carried \in [Call -> Nat]
    /\ told \in [Call -> {"nothing", "done", "not done"}]

Init ==
    /\ intent = [c \in Call |-> NoIntent]
    /\ carried = [c \in Call |-> 0]
    /\ told = [c \in Call |-> "nothing"]

(* A call arrives, and may be refused there and then. *)
Ask(c) ==
    /\ intent[c] = NoIntent
    /\ \E i \in Intent : intent' = [intent EXCEPT ![c] = i]
    /\ told' \in {told, [told EXCEPT ![c] = "not done"]}
    /\ UNCHANGED carried

(* It is carried out; the news of it may get lost. *)
CarryOut(c) ==
    /\ intent[c] # NoIntent
    /\ told[c] = "nothing"
    /\ carried[c] = 0
    /\ carried' = [carried EXCEPT ![c] = 1]
    /\ told' \in {told, [told EXCEPT ![c] = "done"]}
    /\ UNCHANGED intent

TellDone(c) ==
    /\ intent[c] # NoIntent
    /\ told[c] = "nothing"
    /\ \E d \in Call : intent[d] = intent[c] /\ carried[d] > 0
    /\ told' = [told EXCEPT ![c] = "done"]
    /\ UNCHANGED <<intent, carried>>

(* Refused, absent, or given up on: it may have been carried out even so.  *)
TellNotDone(c) ==
    /\ intent[c] # NoIntent
    /\ told[c] = "nothing"
    /\ told' = [told EXCEPT ![c] = "not done"]
    /\ UNCHANGED <<intent, carried>>

Next ==
    \E c \in Call :
        \/ Ask(c)
        \/ CarryOut(c)
        \/ TellDone(c)
        \/ TellNotDone(c)

Spec == Init /\ [][Next]_vars

-----------------------------------------------------------------------------
(* What follows for the workflow, as long as the absence of an intent is   *)
(* no intent.                                                              *)
Proper == NoIntent \notin Intent

(* Nothing is done twice, nor for a call that has not come. *)
DoneOnce ==
    \A c \in Call : carried[c] <= 1 /\ (intent[c] = NoIntent => carried[c] = 0)

(* "done" is said only of what was done, by a call of that intent. *)
ToldTruly ==
    \A c \in Call : told[c] = "done" =>
        \E d \in Call : intent[d] = intent[c] /\ carried[d] = 1

(* A call keeps its intent, and is told one thing only. *)
ToldOnce ==
    [][\A c \in Call :
          /\ intent[c] # NoIntent => intent'[c] = intent[c]
          /\ told[c] # "nothing" => told'[c] = told[c]]_vars
=============================================================================
