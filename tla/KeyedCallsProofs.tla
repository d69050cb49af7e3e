-------------------------- MODULE KeyedCallsProofs --------------------------
(* What the promise of KeyedCalls comes to, for any calls and intents.     *)
EXTENDS KeyedCalls, TLAPS

KeyedInv ==
    /\ TypeOK
    /\ DoneOnce
    /\ ToldTruly
    /\ \A c \in Call : intent[c] = NoIntent => told[c] = "nothing"

(* No call has come yet. *)
LEMMA InitOK == Init => KeyedInv
BY DEF Init, KeyedInv, TypeOK, DoneOnce, ToldTruly

(* A call that comes has nothing done or told for it. *)
LEMMA AskOK ==
    ASSUME Proper, KeyedInv, NEW c \in Call, Ask(c)
    PROVE  KeyedInv'
<1>1. PICK i \in Intent : intent' = [intent EXCEPT ![c] = i]
  BY DEF Ask
<1>2. /\ TypeOK /\ DoneOnce /\ ToldTruly /\ intent[c] = NoIntent /\ carried' = carried
      /\ told[c] = "nothing" /\ told' \in {told, [told EXCEPT ![c] = "not done"]}
      /\ \A d \in Call : intent[d] = NoIntent => told[d] = "nothing"
  BY DEF Ask, KeyedInv
<1>3. /\ intent'[c] = i /\ i # NoIntent
      /\ \A d \in Call \ {c} : intent'[d] = intent[d] /\ told'[d] = told[d]
      /\ told'[c] # "done"
      /\ TypeOK'
  BY <1>1, <1>2 DEF Proper, TypeOK
<1>4. DoneOnce'
  BY <1>2, <1>3 DEF DoneOnce
<1>5. ToldTruly'
  <2> SUFFICES ASSUME NEW b \in Call, told'[b] = "done"
               PROVE  \E d \in Call : intent'[d] = intent'[b] /\ carried'[d] = 1
    BY DEF ToldTruly
  <2>1. b # c /\ told[b] = "done"
    BY <1>3
  <2>2. PICK d \in Call : intent[d] = intent[b] /\ carried[d] = 1
    BY <1>2, <2>1 DEF ToldTruly
  <2>3. carried[c] = 0
    BY <1>2 DEF DoneOnce
  <2>4. d # c
    BY <2>2, <2>3
  <2> QED
    BY <1>2, <1>3, <2>1, <2>2, <2>4
<1> QED
  BY <1>2, <1>3, <1>4, <1>5 DEF KeyedInv

(* What was carried out already is not carried out again. *)
LEMMA CarryOutOK ==
    ASSUME KeyedInv, NEW c \in Call, CarryOut(c)
    PROVE  KeyedInv'
<1>1. /\ TypeOK /\ DoneOnce /\ ToldTruly /\ intent[c] # NoIntent /\ intent' = intent
      /\ carried' = [carried EXCEPT ![c] = 1] /\ carried[c] = 0
      /\ told' \in {told, [told EXCEPT ![c] = "done"]}
      /\ \A d \in Call : intent[d] = NoIntent => told[d] = "nothing"
  BY DEF CarryOut, KeyedInv
<1>2. /\ carried'[c] = 1
      /\ \A d \in Call \ {c} : carried'[d] = carried[d] /\ told'[d] = told[d]
      /\ TypeOK'
  BY <1>1 DEF TypeOK
<1>3. DoneOnce'
  BY <1>1, <1>2 DEF DoneOnce
<1>4. ToldTruly'
  <2> SUFFICES ASSUME NEW b \in Call, told'[b] = "done"
               PROVE  \E d \in Call : intent[d] = intent[b] /\ carried'[d] = 1
    BY <1>1 DEF ToldTruly
  <2>1. CASE b = c
    BY <1>2, <2>1
  <2>2. CASE b # c
    <3>1. PICK d \in Call : intent[d] = intent[b] /\ carried[d] = 1
      BY <1>1, <1>2, <2>2 DEF ToldTruly
    <3>2. carried'[d] = 1
      BY <1>2, <3>1
    <3> QED
      BY <3>1, <3>2
  <2> QED
    BY <2>1, <2>2
<1> QED
  BY <1>1, <1>2, <1>3, <1>4 DEF KeyedInv

(* Who is told "done" has a call of its intent that was carried out.       *)
LEMMA TellOK ==
    ASSUME KeyedInv, NEW c \in Call, TellDone(c) \/ TellNotDone(c)
    PROVE  KeyedInv'
<1>1. /\ TypeOK /\ DoneOnce /\ ToldTruly /\ intent[c] # NoIntent
      /\ UNCHANGED <<intent, carried>>
      /\ \A d \in Call : intent[d] = NoIntent => told[d] = "nothing"
  BY DEF TellDone, TellNotDone, KeyedInv
<1>2. /\ TypeOK'
      /\ \A d \in Call \ {c} : told'[d] = told[d]
      /\ told'[c] = "done" => \E d \in Call : intent[d] = intent[c] /\ carried[d] > 0
  BY <1>1 DEF TypeOK, TellDone, TellNotDone
<1>3. ASSUME NEW b \in Call, told'[b] = "done"
      PROVE  \E d \in Call : intent[d] = intent[b] /\ carried[d] = 1
  <2>1. CASE b = c
    <3>1. PICK d \in Call : intent[d] = intent[c] /\ carried[d] > 0
      BY <1>2, <1>3, <2>1
    <3>2. carried[d] \in Nat /\ carried[d] <= 1
      BY <1>1 DEF TypeOK, DoneOnce
    <3> QED
      BY <2>1, <3>1, <3>2
  <2>2. CASE b # c
    BY <1>1, <1>2, <1>3, <2>2 DEF ToldTruly
  <2> QED
    BY <2>1, <2>2
<1> QED
  BY <1>1, <1>2, <1>3 DEF KeyedInv, DoneOnce, ToldTruly

LEMMA StepOK == Proper /\ KeyedInv /\ [Next]_vars => KeyedInv'
<1>1. ASSUME KeyedInv, UNCHANGED vars PROVE KeyedInv'
  <2>1. /\ UNCHANGED <<intent, carried, told>>
        /\ TypeOK /\ DoneOnce /\ ToldTruly
        /\ \A c \in Call : intent[c] = NoIntent => told[c] = "nothing"
    BY <1>1 DEF KeyedInv, vars
  <2>2. TypeOK' /\ DoneOnce'
    BY <2>1 DEF TypeOK, DoneOnce
  <2>3. ToldTruly'
    BY <2>1 DEF ToldTruly
  <2> QED
    BY <2>1, <2>2, <2>3 DEF KeyedInv
<1> QED
  BY <1>1, AskOK, CarryOutOK, TellOK DEF Next

(* Every call is carried out at most once, and told "done" only when one   *)
(* of its intent was: for any calls and intents.                           *)
THEOREM KeyedSound ==
    ASSUME Proper
    PROVE  Spec => [](DoneOnce /\ ToldTruly)
<1>1. KeyedInv => DoneOnce /\ ToldTruly
  BY DEF KeyedInv
<1>2. Init => KeyedInv
  BY InitOK
<1>3. KeyedInv /\ [Next]_vars => KeyedInv'
  BY StepOK
<1> QED
  BY <1>1, <1>2, <1>3, PTL DEF Spec

(* What a call is for, and what it was told, is never taken back. *)
THEOREM NothingRetold ==
    ASSUME Proper
    PROVE  Spec => ToldOnce
<1> DEFINE Kept == \A c \in Call :
                     /\ intent[c] # NoIntent => intent'[c] = intent[c]
                     /\ told[c] # "nothing" => told'[c] = told[c]
<1>1. KeyedInv /\ Next => Kept
  BY DEF KeyedInv, TypeOK, Next, Ask, CarryOut, TellDone, TellNotDone
<1>2. KeyedInv /\ [Next]_vars => [Kept]_vars
  BY <1>1
<1>3. Init => KeyedInv
  BY InitOK
<1>4. KeyedInv /\ [Next]_vars => KeyedInv'
  BY StepOK
<1> QED
  BY <1>2, <1>3, <1>4, PTL DEF Spec, ToldOnce
=============================================================================
