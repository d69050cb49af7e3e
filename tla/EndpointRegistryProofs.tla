----------------------- MODULE EndpointRegistryProofs -----------------------
(* What the promise of EndpointRegistry comes to, for any calls, wishes,   *)
(* owners and endpoints.                                                   *)
EXTENDS EndpointRegistry, TLAPS

(* What is not made yet has no purpose and no holder of its secret.        *)
Untouched(e) ==
    place[e] = "unborn" =>
        /\ purpose[e] = NoWish
        /\ \A c \in Call : secret[c] # e

RegistryInv ==
    /\ TypeOK
    /\ \A e \in Endpoint : Untouched(e)
    /\ OnePerAttempt
    /\ SecretsAtHome

(* Nothing is made, given or changed at first. *)
LEMMA InitOK == Proper /\ Init => RegistryInv
BY DEF Proper, Init, RegistryInv, TypeOK, Untouched, OnePerAttempt,
       SecretsAtHome, Standing

LEMMA AskOK ==
    ASSUME Proper, RegistryInv, NEW c \in Call, NEW i \in Wish, Ask(c, i)
    PROVE  RegistryInv'
<1>1. /\ wish' \in [Call -> Wish \union {NoWish}]
      /\ \A d \in Call : wish[d] # NoWish => wish'[d] = wish[d]
  BY DEF Ask, RegistryInv, TypeOK
<1> QED
  BY <1>1 DEF Ask, RegistryInv, TypeOK, Untouched, OnePerAttempt, SecretsAtHome,
              Standing

(* An endpoint is made where none stands for the attempt. *)
LEMMA MakeOK ==
    ASSUME Proper, RegistryInv, NEW c \in Call, NEW e \in Endpoint, Make(c, e)
    PROVE  RegistryInv'
<1>1. /\ TypeOK /\ OnePerAttempt /\ SecretsAtHome
      /\ \A d \in Endpoint : Untouched(d)
      /\ wish[c] \in Wish /\ wish' = wish /\ changed' = changed
  BY DEF RegistryInv, Make, TypeOK
<1>2. /\ place'[e] = "standing" /\ purpose'[e] = wish[c]
      /\ owner'[e] = OwnerOf(wish[c])
      /\ \A d \in Endpoint \ {e} :
            place'[d] = place[d] /\ purpose'[d] = purpose[d] /\ owner'[d] = owner[d]
      /\ \A b \in Call : secret'[b] = secret[b] \/ (b = c /\ secret'[b] = e)
  BY <1>1 DEF Make, TypeOK
<1>3. TypeOK'
  BY <1>1 DEF Make, TypeOK, Proper
<1>4. \A d \in Endpoint : Untouched(d)'
  BY <1>1, <1>2 DEF Untouched
<1>5. OnePerAttempt'
  <2>1. ASSUME NEW d \in Standing, purpose[d] # NoWish
        PROVE  AttemptOf(purpose[d]) # AttemptOf(wish[c])
    BY <2>1 DEF Make
  <2>2. \A d \in Endpoint \ {e} : d \in Standing' <=> d \in Standing
    BY <1>2 DEF Standing
  <2> QED
    BY <1>1, <1>2, <2>1, <2>2 DEF OnePerAttempt, Standing
<1>6. SecretsAtHome'
  <2> SUFFICES ASSUME NEW b \in Call, secret'[b] # NoEndpoint
               PROVE  purpose'[secret'[b]] = wish[b] /\ wish[b] # NoWish
    BY <1>1 DEF SecretsAtHome
  <2>1. CASE secret'[b] = secret[b]
    <3>1. secret[b] # e /\ secret[b] \in Endpoint
      BY <1>1, <2>1 DEF Untouched, Make, TypeOK
    <3> QED
      BY <1>1, <1>2, <2>1, <3>1 DEF SecretsAtHome
  <2>2. CASE b = c /\ secret'[b] = e
    BY <1>1, <1>2, <2>2 DEF Proper
  <2> QED
    BY <1>2, <2>1, <2>2
<1> QED
  BY <1>3, <1>4, <1>5, <1>6 DEF RegistryInv

(* A secret is given to a call of the wish the endpoint was made for.      *)
LEMMA GiveOK ==
    ASSUME Proper, RegistryInv, NEW c \in Call, NEW e \in Endpoint, Give(c, e)
    PROVE  RegistryInv'
<1>1. /\ TypeOK /\ SecretsAtHome /\ \A d \in Endpoint : Untouched(d)
      /\ purpose[e] = wish[c] /\ wish[c] # NoWish
      /\ secret'[c] = e /\ \A b \in Call \ {c} : secret'[b] = secret[b]
      /\ UNCHANGED <<wish, place, purpose, owner, changed>>
  BY DEF RegistryInv, Give, TypeOK
<1>2. TypeOK'
  BY <1>1 DEF Give, TypeOK
<1>3. \A d \in Endpoint : Untouched(d)'
  BY <1>1 DEF Untouched
<1>4. SecretsAtHome'
  BY <1>1 DEF SecretsAtHome
<1> QED
  BY <1>1, <1>2, <1>3, <1>4 DEF RegistryInv, OnePerAttempt, Standing

(* A change moves an endpoint, if anything, and makes none.                *)
LEMMA ChangeOK ==
    ASSUME Proper, RegistryInv, NEW c \in Call, NEW e \in Endpoint, Change(c, e)
    PROVE  RegistryInv'
<1>1. /\ TypeOK /\ OnePerAttempt /\ SecretsAtHome
      /\ \A d \in Endpoint : Untouched(d)
      /\ wish[c] \in Wish
      /\ place[e] \in {"standing", "moved"}
      /\ UNCHANGED <<wish, purpose, secret, contested>>
  BY DEF RegistryInv, Change, There, TypeOK
<1>2. OwnerOf(wish[c]) \in Owner
  BY <1>1 DEF Proper
<1>3. /\ \A d \in Endpoint : place'[d] = place[d] \/ (d = e /\ place'[d] = "moved")
      /\ TypeOK'
  BY <1>1, <1>2 DEF Change, TypeOK
<1>4. \A d \in Endpoint : Untouched(d)'
  BY <1>1, <1>3 DEF Untouched
<1>5. Standing' \subseteq Standing
  BY <1>3 DEF Standing
<1> QED
  BY <1>1, <1>3, <1>4, <1>5 DEF RegistryInv, OnePerAttempt, SecretsAtHome

(* What is removed or moved stands no more. *)
LEMMA LeaveOK ==
    ASSUME RegistryInv, NEW e \in Endpoint, Remove(e) \/ Move(e)
    PROVE  RegistryInv'
<1>1. /\ TypeOK /\ OnePerAttempt /\ SecretsAtHome
      /\ \A d \in Endpoint : Untouched(d)
      /\ UNCHANGED <<wish, purpose, owner, secret, changed>>
  BY DEF RegistryInv, Remove, Move
<1>2. /\ TypeOK' /\ Standing' \subseteq Standing
      /\ \A d \in Endpoint : place'[d] = "unborn" => place[d] = "unborn"
  BY <1>1 DEF Remove, Move, There, TypeOK, Standing
<1> QED
  BY <1>1, <1>2 DEF RegistryInv, Untouched, OnePerAttempt, SecretsAtHome

(* What the dashboard makes is made for no wish. *)
LEMMA MakeByHandOK ==
    ASSUME RegistryInv, NEW e \in Endpoint, MakeByHand(e)
    PROVE  RegistryInv'
<1>1. /\ TypeOK /\ OnePerAttempt /\ SecretsAtHome
      /\ \A d \in Endpoint : Untouched(d)
      /\ purpose[e] = NoWish
      /\ UNCHANGED <<wish, purpose, owner, secret, changed>>
  BY DEF RegistryInv, MakeByHand, Untouched
<1>2. /\ TypeOK' /\ Standing' \subseteq Standing \union {e}
      /\ \A d \in Endpoint : place'[d] = "unborn" => place[d] = "unborn"
  BY <1>1 DEF MakeByHand, TypeOK, Standing
<1> QED
  BY <1>1, <1>2 DEF RegistryInv, Untouched, OnePerAttempt, SecretsAtHome

(* A tag says who owns an endpoint and moves nothing. *)
LEMMA TagOK ==
    ASSUME Proper, RegistryInv, NEW e \in Endpoint,
           NEW o \in Owner \union {Nobody}, Tag(e, o)
    PROVE  RegistryInv'
<1>1. /\ TypeOK /\ OnePerAttempt /\ SecretsAtHome
      /\ \A d \in Endpoint : Untouched(d)
      /\ UNCHANGED <<wish, place, purpose, secret, changed>>
  BY DEF RegistryInv, Tag
<1>2. TypeOK'
  BY <1>1 DEF Tag, TypeOK
<1> QED
  BY <1>1, <1>2 DEF RegistryInv, OnePerAttempt, SecretsAtHome, Standing, Untouched

LEMMA StepOK == Proper /\ RegistryInv /\ [Next]_vars => RegistryInv'
<1> SUFFICES ASSUME Proper, RegistryInv, [Next]_vars PROVE RegistryInv'
  OBVIOUS
<1>1. CASE UNCHANGED vars
  BY <1>1 DEF vars, RegistryInv, TypeOK, Untouched, OnePerAttempt,
              SecretsAtHome, Standing
<1>2. CASE Next
  BY <1>2, AskOK, MakeOK, GiveOK, ChangeOK, LeaveOK, MakeByHandOK, TagOK DEF Next
<1> QED
  BY <1>1, <1>2

(* One standing endpoint for each attempt, secrets with those they belong  *)
(* to: for any calls, wishes and endpoints.                                *)
THEOREM RegistrySound ==
    ASSUME Proper
    PROVE  Spec => [](OnePerAttempt /\ SecretsAtHome)
<1>1. RegistryInv => OnePerAttempt /\ SecretsAtHome
  BY DEF RegistryInv
<1>2. Init => RegistryInv
  BY InitOK
<1>3. RegistryInv /\ [Next]_vars => RegistryInv'
  BY StepOK
<1> QED
  BY <1>1, <1>2, <1>3, PTL DEF Spec

(* An endpoint that is gone stays so, and purposes, wishes and secrets are *)
(* for good.                                                               *)
THEOREM NothingRevoked ==
    ASSUME Proper
    PROVE  Spec => ForGood
<1> DEFINE Kept ==
             /\ \A e \in Endpoint :
                   /\ place[e] # "unborn" => purpose'[e] = purpose[e]
                   /\ place[e] = "gone" => place'[e] = "gone"
             /\ \A c \in Call :
                   /\ wish[c] # NoWish => wish'[c] = wish[c]
                   /\ secret[c] # NoEndpoint => secret'[c] = secret[c]
<1>1. ASSUME RegistryInv, Next PROVE Kept
  <2>1. TypeOK /\ \A e \in Endpoint : Untouched(e)
    BY <1>1 DEF RegistryInv
  <2>2. ASSUME NEW c \in Call, NEW i \in Wish, Ask(c, i) PROVE Kept
    BY <2>1, <2>2 DEF Ask, TypeOK
  <2>3. ASSUME NEW c \in Call, NEW e \in Endpoint, Make(c, e) PROVE Kept
    BY <2>1, <2>3 DEF Make, TypeOK, Untouched
  <2>4. ASSUME NEW c \in Call, NEW e \in Endpoint, Give(c, e) PROVE Kept
    BY <2>1, <2>4 DEF Give, TypeOK
  <2>5. ASSUME NEW c \in Call, NEW e \in Endpoint, Change(c, e) PROVE Kept
    BY <2>1, <2>5 DEF Change, There, TypeOK
  <2>6. ASSUME NEW e \in Endpoint, Remove(e) \/ Move(e) \/ MakeByHand(e) PROVE Kept
    BY <2>1, <2>6 DEF Remove, Move, MakeByHand, There, TypeOK
  <2>7. ASSUME NEW e \in Endpoint, NEW o \in Owner \union {Nobody}, Tag(e, o)
        PROVE  Kept
    BY <2>1, <2>7 DEF Tag, TypeOK
  <2> HIDE DEF Kept
  <2> QED
    BY <1>1, <2>2, <2>3, <2>4, <2>5, <2>6, <2>7 DEF Next
<1>2. RegistryInv /\ [Next]_vars => [Kept]_vars
  <2> HIDE DEF Kept
  <2> QED
    BY <1>1
<1>3. Init => RegistryInv
  BY InitOK
<1>4. RegistryInv /\ [Next]_vars => RegistryInv'
  BY StepOK
<1> QED
  BY <1>2, <1>3, <1>4, PTL DEF Spec, ForGood

(* Whoever changes an endpoint owns it then, unless it was handed over     *)
(* while a change was on its way.                                          *)
THEOREM OwnersChange ==
    Spec => ChangedByOwner
<1> DEFINE ByOwner ==
             \A c \in Call, e \in Endpoint :
                <<c, e>> \in changed' \ changed =>
                    owner[e] = OwnerOf(wish[c]) \/ e \in contested
<1>1. ASSUME NEW c \in Call, NEW e \in Endpoint, Change(c, e) PROVE ByOwner
  BY <1>1 DEF Change
<1>2. ASSUME Next, changed' # changed
      PROVE  \E c \in Call, e \in Endpoint : Change(c, e)
  BY <1>2 DEF Next, Ask, Make, Give, Remove, MakeByHand, Tag, Move
<1>3. changed' = changed => ByOwner
  OBVIOUS
<1>4. [Next]_vars => [ByOwner]_vars
  <2> HIDE DEF ByOwner
  <2> QED
    BY <1>1, <1>2, <1>3
<1> QED
  BY <1>4, PTL DEF Spec, ChangedByOwner
=============================================================================
