------------------------ MODULE ManagedObjectsProofs ------------------------
(* Theorems about ManagedObjects: they hold for every value of the         *)
(* constants that satisfies ObjectsAssumption.                             *)
EXTENDS ManagedObjects, TLAPS

-----------------------------------------------------------------------------
(* The handlers *)

HandlerSet ==
    {CreatePaymentIntent, ConfirmPaymentIntent, DestroyPaymentIntent,
     CreateCustomer, UpdateCustomer, DestroyCustomer, CreateSubscription,
     UpdateSubscription, CancelSubscription, CreateRefund, CreateSetupIntent,
     CreatePayout, ConnectCreate, ConnectGet, ConnectUpdate, Unsupported,
     ObserveById("payment_intent"), ObserveById("customer"),
     ObserveById("subscription")}

(* Every request is carried out by one of the handlers. *)
LEMMA HandlerIsOne == ASSUME NEW q PROVE Handler(q) \in HandlerSet
BY DEF Handler, HandlerSet

(* What the proofs need to know of a handler. *)
Shape(h) ==
    /\ h.as = "create" <=> h.verb = "create"
    /\ h.as = "cancel" <=> h.verb = "end"
    /\ h.as = "delete" <=> h.verb = "delete"
    /\ (h.verb = "create" /\ h.kind # "account") => h.heedsKey
    /\ h.routed <=> h.kind # "account"
    /\ DOMAIN h.fills \subseteq h.sends

(* Every handler has the shape the proofs use. *)
LEMMA HandlerShape == ASSUME NEW q PROVE Shape(Handler(q))
<1> USE DEF Shape, Creation, OnObject, NoFill
<1>1. Shape(CreatePaymentIntent)
  BY DEF CreatePaymentIntent
<1>2. Shape(ConfirmPaymentIntent)
  BY DEF ConfirmPaymentIntent
<1>3. Shape(DestroyPaymentIntent)
  BY DEF DestroyPaymentIntent
<1>4. Shape(CreateCustomer)
  BY DEF CreateCustomer
<1>5. Shape(UpdateCustomer)
  BY DEF UpdateCustomer
<1>6. Shape(DestroyCustomer)
  BY DEF DestroyCustomer
<1>7. Shape(CreateSubscription)
  BY DEF CreateSubscription
<1>8. Shape(UpdateSubscription)
  BY DEF UpdateSubscription
<1>9. Shape(CancelSubscription)
  BY DEF CancelSubscription
<1>10. Shape(CreateRefund)
  BY DEF CreateRefund
<1>11. Shape(CreateSetupIntent)
  BY DEF CreateSetupIntent
<1>12. Shape(CreatePayout)
  BY DEF CreatePayout
<1>13. Shape(ConnectCreate)
  BY DEF ConnectCreate
<1>14. Shape(ConnectGet)
  BY DEF ConnectGet
<1>15. Shape(ConnectUpdate)
  BY DEF ConnectUpdate
<1>16. Shape(Unsupported)
  BY DEF Unsupported, ConnectGet
<1>17. ASSUME NEW k, k # "account" PROVE Shape(ObserveById(k))
  BY <1>17 DEF ObserveById
<1> QED
  BY <1>1, <1>2, <1>3, <1>4, <1>5, <1>6, <1>7, <1>8, <1>9, <1>10, <1>11, <1>12, <1>13, <1>14, <1>15, <1>16, <1>17, HandlerIsOne DEF HandlerSet

(* The destroys end or delete, but for a subscription at its period's end. *)
LEMMA DestroyVerb ==
    ASSUME NEW q, q.op \in {"destroy_payment_intent", "destroy_customer",
                            "destroy_subscription"},
           "cancel_at_period_end" \notin DOMAIN q.in
    PROVE  Handler(q).verb \in {"end", "delete"}
BY DEF Handler, DestroyPaymentIntent, DestroyCustomer, CancelSubscription, OnObject

-----------------------------------------------------------------------------
(* Types and what every step keeps *)

(* A call that finishes ends with an outcome and an object or none. *)
LEMMA ResultType ==
    ASSUME NEW c \in Call, NEW kind \in Outcome, NEW o \in Object \union {NoObject},
           TypeOK, Finish(c, kind, o)
    PROVE  /\ pc' \in [Call -> {"idle", "sending", "done"}]
           /\ result' \in [Call -> [kind: Outcome, id: Object \union {NoObject}]]
BY DEF TypeOK, Finish

(* So does one whose answer may get lost. *)
LEMMA AnswerType ==
    ASSUME NEW c \in Call, NEW kind \in Outcome, NEW o \in Object \union {NoObject},
           TypeOK, Answer(c, kind, o)
    PROVE  /\ pc' \in [Call -> {"idle", "sending", "done"}]
           /\ result' \in [Call -> [kind: Outcome, id: Object \union {NoObject}]]
BY ResultType DEF TypeOK, Answer

SavedType(s) ==
    /\ s.by \in Call
    /\ s.id \in Object \union {NoObject}
    /\ s.during \subseteq Call
    /\ s.ok \in BOOLEAN

(* What is saved for a key has its type. *)
LEMMA SaveType ==
    ASSUME NEW c \in Call, NEW o \in Object \union {NoObject}, NEW ok \in BOOLEAN,
           TypeOK, Save(c, o, ok)
    PROVE  \A s \in saved' : SavedType(s)
BY DEF TypeOK, Save, SavedType

(* What is made and what stood before are contents of objects. *)
LEMMA ContentType ==
    /\ \A q \in Requests : Made(q) \in Content
    /\ \A o \in DOMAIN Standing : Stood(o) \in Content
    /\ Blank \in Content
BY DEF Content

(* The types hold at the start. *)
LEMMA TypeInit == Init => TypeOK
<1> SUFFICES ASSUME Init PROVE TypeOK
  OBVIOUS
<1>1. req \in [Call -> Requests]
  BY ObjectsAssumption DEF Init
<1>2. rec \in [Object -> Content]
  BY ContentType DEF Init
<1> QED
  BY <1>1, <1>2, ObjectsAssumption DEF Init, TypeOK, Outcome

(* Every step keeps the types. *)
LEMMA TypeStep == TypeOK /\ [Next]_vars => TypeOK'
<1> SUFFICES ASSUME TypeOK, [Next]_vars PROVE TypeOK'
  OBVIOUS
<1>1. ASSUME NEW c \in Call, NEW q \in Requests, Begin(c, q) PROVE TypeOK'
  <2>1. result' \in [Call -> [kind: Outcome, id: Object \union {NoObject}]]
    BY <1>1, ResultType DEF Begin, TypeOK, Outcome
  <2>2. pc' \in [Call -> {"idle", "sending", "done"}]
    BY <1>1, ResultType DEF Begin, TypeOK, Outcome
  <2> QED
    BY <1>1, <2>1, <2>2 DEF Begin, TypeOK, stripe
<1>2. ASSUME NEW c \in Call, Replay(c) PROVE TypeOK'
  <2>1. /\ pc' \in [Call -> {"idle", "sending", "done"}]
        /\ result' \in [Call -> [kind: Outcome, id: Object \union {NoObject}]]
    BY <1>2, ResultType DEF Replay, TypeOK, Outcome, SavedFor
  <2> QED
    BY <1>2, <2>1 DEF Replay, TypeOK, stripe
<1>3. ASSUME NEW c \in Call, NEW o \in Object, Create(c, o) PROVE TypeOK'
  <2>1. /\ pc' \in [Call -> {"idle", "sending", "done"}]
        /\ result' \in [Call -> [kind: Outcome, id: Object \union {NoObject}]]
    BY <1>3, AnswerType DEF Create, Outcome
  <2>2. \A s \in saved' : SavedType(s)
    BY <1>3, SaveType DEF Create
  <2>3. rec' \in [Object -> Content]
    BY <1>3, ContentType DEF Create, TypeOK
  <2>4. times' \in [Call -> Nat] /\ maker' \in [Object -> Call \union {Outside}]
    BY <1>3 DEF Create, TypeOK
  <2>5. before' \in [Object -> SUBSET Call]
    BY <1>3 DEF Create, TypeOK
  <2>6. /\ born' \subseteq Object /\ live' \subseteq born'
        /\ UNCHANGED <<req, acted>>
    BY <1>3 DEF Create, TypeOK
  <2> QED
    BY <1>3, <2>1, <2>2, <2>3, <2>4, <2>5, <2>6 DEF TypeOK, SavedType
<1>4. ASSUME NEW c \in Call, NEW o \in Object, Change(c, o) PROVE TypeOK'
  <2>1. /\ pc' \in [Call -> {"idle", "sending", "done"}]
        /\ result' \in [Call -> [kind: Outcome, id: Object \union {NoObject}]]
    BY <1>4, AnswerType DEF Change, Outcome
  <2>2. \A s \in saved' : SavedType(s)
    BY <1>4, SaveType DEF Change
  <2>3. acted' \subseteq Call \X Object
    BY <1>4 DEF Change, TypeOK
  <2>4. times' \in [Call -> Nat]
    BY <1>4 DEF Change, TypeOK
  <2>5. /\ born' \subseteq Object /\ live' \subseteq born'
        /\ UNCHANGED <<rec, req, maker, before>>
    BY <1>4 DEF Change, TypeOK
  <2> QED
    BY <1>4, <2>1, <2>2, <2>3, <2>4, <2>5 DEF Change, TypeOK, SavedType
<1>5. ASSUME NEW c \in Call, NEW o \in Object, Delete(c, o) PROVE TypeOK'
  <2>1. /\ pc' \in [Call -> {"idle", "sending", "done"}]
        /\ result' \in [Call -> [kind: Outcome, id: Object \union {NoObject}]]
    BY <1>5, AnswerType DEF Delete, Outcome
  <2>3. acted' \subseteq Call \X Object
    BY <1>5 DEF Delete, TypeOK
  <2>4. times' \in [Call -> Nat]
    BY <1>5 DEF Delete, TypeOK
  <2>5. /\ born' \subseteq Object /\ live' \subseteq born'
        /\ UNCHANGED <<rec, req, maker, before>>
    BY <1>5 DEF Delete, TypeOK
  <2> QED
    BY <1>5, <2>1, <2>3, <2>4, <2>5 DEF Delete, TypeOK
<1>6. ASSUME NEW c \in Call, Decline(c) PROVE TypeOK'
  <2>1. /\ pc' \in [Call -> {"idle", "sending", "done"}]
        /\ result' \in [Call -> [kind: Outcome, id: Object \union {NoObject}]]
    BY <1>6, AnswerType DEF Decline, Outcome
  <2>2. \A s \in saved' : SavedType(s)
    BY <1>6, SaveType DEF Decline
  <2> QED
    BY <1>6, <2>1, <2>2 DEF Decline, TypeOK, SavedType
<1>7. ASSUME NEW c \in Call, Absent(c) PROVE TypeOK'
  <2>1. /\ pc' \in [Call -> {"idle", "sending", "done"}]
        /\ result' \in [Call -> [kind: Outcome, id: Object \union {NoObject}]]
    BY <1>7, ResultType DEF Absent, TypeOK, Outcome, Reaches
  <2> QED
    BY <1>7, <2>1 DEF Absent, TypeOK, stripe
<1>8. ASSUME NEW c \in Call, Read(c) PROVE TypeOK'
  <2>1. /\ pc' \in [Call -> {"idle", "sending", "done"}]
        /\ result' \in [Call -> [kind: Outcome, id: Object \union {NoObject}]]
    BY <1>8, ResultType DEF Read, TypeOK, Outcome, Reaches
  <2> QED
    BY <1>8, <2>1 DEF Read, TypeOK, stripe
<1>9. ASSUME NEW c \in Call, Fail(c) PROVE TypeOK'
  <2>1. /\ pc' \in [Call -> {"idle", "sending", "done"}]
        /\ result' \in [Call -> [kind: Outcome, id: Object \union {NoObject}]]
    BY <1>9, ResultType DEF Fail, TypeOK, Outcome, Reaches
  <2> QED
    BY <1>9, <2>1 DEF Fail, TypeOK, stripe
<1>10. ASSUME NEW o \in Object, DashboardDelete(o) PROVE TypeOK'
  BY <1>10 DEF DashboardDelete, TypeOK
<1>11. ASSUME NEW s \in saved, Forget(s) PROVE TypeOK'
  BY <1>11 DEF Forget, TypeOK
<1>12. ASSUME UNCHANGED vars PROVE TypeOK'
  BY <1>12 DEF vars, TypeOK
<1> QED
  BY <1>1, <1>2, <1>3, <1>4, <1>5, <1>6, <1>7, <1>8, <1>9, <1>10, <1>11, <1>12 DEF Next, Step

(* Every variable of the calls and of Stripe keeps its type. *)
THEOREM TypeCorrect == Spec => []TypeOK
<1> QED
  BY TypeInit, TypeStep, PTL DEF Spec

(* What every step keeps: the request of a call that has begun, the end of *)
(* one that is over, the nature of an object, and its death.               *)
Keeps ==
    /\ \A c \in Call : pc[c] # "idle" => req'[c] = req[c] /\ pc'[c] # "idle"
    /\ \A c \in Call : pc[c] = "done" => pc'[c] = "done" /\ result'[c] = result[c]
    /\ \A c \in Call : pc'[c] = "idle" => pc[c] = "idle"
    /\ \A c \in Call : pc[c] = "idle" => times'[c] = times[c]
    /\ \A c \in Call : times'[c] = times[c] \/ times'[c] = times[c] + 1
    /\ born \subseteq born'
    /\ \A o \in born : rec'[o] = rec[o] /\ maker'[o] = maker[o] /\ before'[o] = before[o]
    /\ \A o \in born \ live : o \in born' \ live'

(* The requests, ends, natures and deaths of before are those of after. *)
LEMMA KeepsStep == TypeOK /\ [Next]_vars => Keeps
<1> SUFFICES ASSUME TypeOK, [Next]_vars PROVE Keeps
  OBVIOUS
<1>1. ASSUME NEW c \in Call, NEW q \in Requests, Begin(c, q) PROVE Keeps
  BY <1>1 DEF Begin, Finish, TypeOK, Keeps, stripe
<1>2. ASSUME NEW c \in Call, Replay(c) PROVE Keeps
  BY <1>2 DEF Replay, Finish, Answer, Sending, TypeOK, Keeps, stripe, vars, SavedFor
<1>3. ASSUME NEW c \in Call, NEW o \in Object, Create(c, o) PROVE Keeps
  BY <1>3 DEF Create, Finish, Answer, Sending, TypeOK, Keeps, stripe, vars, SavedFor
<1>4. ASSUME NEW c \in Call, NEW o \in Object, Change(c, o) PROVE Keeps
  BY <1>4 DEF Change, Finish, Answer, Sending, TypeOK, Keeps, stripe, vars, SavedFor
<1>5. ASSUME NEW c \in Call, NEW o \in Object, Delete(c, o) PROVE Keeps
  BY <1>5 DEF Delete, Finish, Answer, Sending, TypeOK, Keeps, stripe, vars, SavedFor
<1>6. ASSUME NEW c \in Call, Decline(c) PROVE Keeps
  BY <1>6 DEF Decline, Finish, Answer, Sending, TypeOK, Keeps, stripe, vars, SavedFor
<1>7. ASSUME NEW c \in Call, Absent(c) PROVE Keeps
  BY <1>7 DEF Absent, Finish, Answer, Sending, TypeOK, Keeps, stripe, vars, SavedFor
<1>8. ASSUME NEW c \in Call, Read(c) PROVE Keeps
  BY <1>8 DEF Read, Finish, Answer, Sending, TypeOK, Keeps, stripe, vars, SavedFor
<1>9. ASSUME NEW c \in Call, Fail(c) PROVE Keeps
  BY <1>9 DEF Fail, Finish, Answer, Sending, TypeOK, Keeps, stripe, vars, SavedFor
<1>10. ASSUME NEW o \in Object, DashboardDelete(o) PROVE Keeps
  BY <1>10 DEF DashboardDelete, Finish, Answer, Sending, TypeOK, Keeps, stripe, vars, SavedFor
<1>11. ASSUME NEW s \in saved, Forget(s) PROVE Keeps
  BY <1>11 DEF Forget, Finish, Answer, Sending, TypeOK, Keeps, stripe, vars, SavedFor
<1>12. ASSUME UNCHANGED vars PROVE Keeps
  BY <1>12 DEF vars, TypeOK, Keeps
<1> QED
  BY <1>1, <1>2, <1>3, <1>4, <1>5, <1>6, <1>7, <1>8, <1>9, <1>10, <1>11, <1>12 DEF Next, Step

-----------------------------------------------------------------------------
(* The inductive invariant, one part after the other *)

(* The invariant holds at the start. *)
LEMMA InvInit == Init => IInv
<1> SUFFICES ASSUME Init PROVE IInv
  OBVIOUS
<1>1. TypeOK
  BY TypeInit
<1>2. \A c \in Call : CallOK(c) /\ times[c] <= 1 /\ KeptOK(c) /\ DoneOK(c)
  BY DEF Init, CallOK, KeptOK, DoneOK
<1>3. /\ \A s \in saved : SavedOK(s)
      /\ \A o \in Object : MadeOK(o)
      /\ \A c \in Call, o \in Object : ActedOK(c, o)
  BY DEF Init, SavedOK, MadeOK, ActedOK
<1>4. CopiesMakeOne
  BY ObjectsAssumption DEF Init, CopiesMakeOne
<1>5. OwnKeySuffices
  BY DEF Init, OwnKeySuffices
<1> QED
  BY <1>1, <1>2, <1>3, <1>4, <1>5 DEF IInv

(* A call that was not carried out for itself stays so until it is sent. *)
LEMMA CallStep == IInv /\ [Next]_vars => \A d \in Call : CallOK(d)'
<1> SUFFICES ASSUME IInv, [Next]_vars PROVE \A d \in Call : CallOK(d)'
  OBVIOUS
<1>0. TypeOK /\ TypeOK' /\ Keeps
  BY TypeStep, KeepsStep DEF IInv
<1>1. ASSUME NEW c \in Call, NEW q \in Requests, Begin(c, q) PROVE \A d \in Call : CallOK(d)'
  BY <1>1, <1>0 DEF Begin, IInv, TypeOK, Finish, Answer, Sending, stripe, CallOK
<1>2. ASSUME NEW c \in Call, Replay(c) PROVE \A d \in Call : CallOK(d)'
  BY <1>2, <1>0 DEF Replay, IInv, TypeOK, Finish, Answer, Sending, stripe, CallOK
<1>3. ASSUME NEW c \in Call, NEW o \in Object, Create(c, o) PROVE \A d \in Call : CallOK(d)'
  BY <1>3, <1>0 DEF Create, IInv, TypeOK, Finish, Answer, Sending, stripe, CallOK
<1>4. ASSUME NEW c \in Call, NEW o \in Object, Change(c, o) PROVE \A d \in Call : CallOK(d)'
  BY <1>4, <1>0 DEF Change, IInv, TypeOK, Finish, Answer, Sending, stripe, CallOK
<1>5. ASSUME NEW c \in Call, NEW o \in Object, Delete(c, o) PROVE \A d \in Call : CallOK(d)'
  BY <1>5, <1>0 DEF Delete, IInv, TypeOK, Finish, Answer, Sending, stripe, CallOK
<1>6. ASSUME NEW c \in Call, Decline(c) PROVE \A d \in Call : CallOK(d)'
  BY <1>6, <1>0 DEF Decline, IInv, TypeOK, Finish, Answer, Sending, stripe, CallOK
<1>7. ASSUME NEW c \in Call, Absent(c) PROVE \A d \in Call : CallOK(d)'
  BY <1>7, <1>0 DEF Absent, IInv, TypeOK, Finish, Answer, Sending, stripe, CallOK
<1>8. ASSUME NEW c \in Call, Read(c) PROVE \A d \in Call : CallOK(d)'
  BY <1>8, <1>0 DEF Read, IInv, TypeOK, Finish, Answer, Sending, stripe, CallOK
<1>9. ASSUME NEW c \in Call, Fail(c) PROVE \A d \in Call : CallOK(d)'
  BY <1>9, <1>0 DEF Fail, IInv, TypeOK, Finish, Answer, Sending, stripe, CallOK
<1>10. ASSUME NEW o \in Object, DashboardDelete(o) PROVE \A d \in Call : CallOK(d)'
  BY <1>10, <1>0 DEF DashboardDelete, IInv, TypeOK, Finish, Answer, Sending, stripe, CallOK
<1>11. ASSUME NEW s \in saved, Forget(s) PROVE \A d \in Call : CallOK(d)'
  BY <1>11, <1>0 DEF Forget, IInv, TypeOK, Finish, Answer, Sending, stripe, CallOK
<1>12. ASSUME UNCHANGED vars PROVE \A d \in Call : CallOK(d)'
  BY <1>12, <1>0 DEF vars, IInv, TypeOK, CallOK
<1> QED
  BY <1>1, <1>2, <1>3, <1>4, <1>5, <1>6, <1>7, <1>8, <1>9, <1>10, <1>11, <1>12 DEF Next, Step

(* A call that was carried out once is not carried out again: its response *)
(* is saved, or its object is gone.                                        *)
LEMMA NotTwice ==
    ASSUME IInv, NEW c \in Call, pc[c] = "sending",
           \/ SavedFor(c) = {} /\ Handler(req[c]).verb # "delete"
           \/ Handler(req[c]).verb = "delete" /\ req[c].id \in live
    PROVE  times[c] = 0
BY DEF IInv, KeptOK, Posts

(* No call is carried out twice. *)
LEMMA TimesStep == IInv /\ [Next]_vars => \A d \in Call : times'[d] <= 1
<1> SUFFICES ASSUME IInv, [Next]_vars PROVE \A d \in Call : times'[d] <= 1
  OBVIOUS
<1>0. TypeOK /\ TypeOK' /\ Keeps
  BY TypeStep, KeepsStep DEF IInv
<1>1. ASSUME NEW c \in Call, NEW q \in Requests, Begin(c, q) PROVE \A d \in Call : times'[d] <= 1
  BY <1>1, <1>0 DEF Begin, IInv, TypeOK, Finish, Answer, Sending, stripe
<1>2. ASSUME NEW c \in Call, Replay(c) PROVE \A d \in Call : times'[d] <= 1
  BY <1>2, <1>0 DEF Replay, IInv, TypeOK, Finish, Answer, Sending, stripe
<1>3. ASSUME NEW c \in Call, NEW o \in Object, Create(c, o) PROVE \A d \in Call : times'[d] <= 1
  <2>1. times[c] = 0
    BY <1>3, NotTwice DEF Create, Sending
  <2> QED
    BY <1>3, <1>0, <2>1 DEF Create, IInv, TypeOK
<1>4. ASSUME NEW c \in Call, NEW o \in Object, Change(c, o) PROVE \A d \in Call : times'[d] <= 1
  <2>1. times[c] = 0
    BY <1>4, NotTwice DEF Change, Sending
  <2> QED
    BY <1>4, <1>0, <2>1 DEF Change, IInv, TypeOK
<1>5. ASSUME NEW c \in Call, NEW o \in Object, Delete(c, o) PROVE \A d \in Call : times'[d] <= 1
  <2>1. times[c] = 0
    BY <1>5, NotTwice DEF Delete, Sending, Reaches
  <2> QED
    BY <1>5, <1>0, <2>1 DEF Delete, IInv, TypeOK
<1>6. ASSUME NEW c \in Call, Decline(c) PROVE \A d \in Call : times'[d] <= 1
  BY <1>6, <1>0 DEF Decline, IInv, TypeOK, Finish, Answer, Sending, stripe
<1>7. ASSUME NEW c \in Call, Absent(c) PROVE \A d \in Call : times'[d] <= 1
  BY <1>7, <1>0 DEF Absent, IInv, TypeOK, Finish, Answer, Sending, stripe
<1>8. ASSUME NEW c \in Call, Read(c) PROVE \A d \in Call : times'[d] <= 1
  BY <1>8, <1>0 DEF Read, IInv, TypeOK, Finish, Answer, Sending, stripe
<1>9. ASSUME NEW c \in Call, Fail(c) PROVE \A d \in Call : times'[d] <= 1
  BY <1>9, <1>0 DEF Fail, IInv, TypeOK, Finish, Answer, Sending, stripe
<1>10. ASSUME NEW o \in Object, DashboardDelete(o) PROVE \A d \in Call : times'[d] <= 1
  BY <1>10, <1>0 DEF DashboardDelete, IInv, TypeOK, Finish, Answer, Sending, stripe
<1>11. ASSUME NEW s \in saved, Forget(s) PROVE \A d \in Call : times'[d] <= 1
  BY <1>11, <1>0 DEF Forget, IInv, TypeOK, Finish, Answer, Sending, stripe
<1>12. ASSUME UNCHANGED vars PROVE \A d \in Call : times'[d] <= 1
  BY <1>12, <1>0 DEF vars, IInv, TypeOK
<1> QED
  BY <1>1, <1>2, <1>3, <1>4, <1>5, <1>6, <1>7, <1>8, <1>9, <1>10, <1>11, <1>12 DEF Next, Step

(* What awaits a call stays, unless the step forgets it. *)
LEMMA KeptKeeps ==
    ASSUME NEW d \in Call, IInv, TypeOK, Keeps,
           pc[d] = "sending" => times'[d] = times[d],
           \A s \in saved : s \in saved' \/ pc[d] = "done" \/ d \notin s.during
    PROVE  KeptOK(d)'
<1> SUFFICES ASSUME pc'[d] = "sending", times'[d] # 0 PROVE KeptOK(d)'
  BY DEF KeptOK
<1>1. pc[d] = "sending" /\ times[d] # 0
  BY DEF Keeps, TypeOK, IInv, CallOK
<1>2. req'[d] = req[d]
  BY <1>1 DEF Keeps
<1>3. CASE Handler(req[d]).verb = "delete"
  BY <1>1, <1>2, <1>3 DEF IInv, KeptOK, Keeps, Posts
<1>4. CASE Handler(req[d]).verb # "delete"
  <2>1. PICK s \in SavedFor(d) : d \in s.during
    BY <1>1, <1>4 DEF IInv, KeptOK
  <2>2. s \in saved'
    BY <1>1, <2>1 DEF SavedFor
  <2>3. s \in SavedFor(d)'
    BY <1>2, <2>1, <2>2 DEF SavedFor, Key
  <2> QED
    BY <1>1, <1>2, <1>4, <2>1, <2>3 DEF IInv, KeptOK
<1> QED
  BY <1>3, <1>4

(* A call that was carried out and waits will be answered from what is saved. *)
LEMMA KeptStep == IInv /\ [Next]_vars => \A d \in Call : KeptOK(d)'
<1> SUFFICES ASSUME IInv, [Next]_vars PROVE \A d \in Call : KeptOK(d)'
  OBVIOUS
<1>0. TypeOK /\ TypeOK' /\ Keeps
  BY TypeStep, KeepsStep DEF IInv
<1>1. ASSUME NEW c \in Call, NEW q \in Requests, Begin(c, q) PROVE \A d \in Call : KeptOK(d)'
  BY <1>1, <1>0, KeptKeeps DEF Begin, stripe
<1>2. ASSUME NEW c \in Call, Replay(c) PROVE \A d \in Call : KeptOK(d)'
  BY <1>2, <1>0, KeptKeeps DEF Replay, stripe
<1>3. ASSUME NEW c \in Call, NEW o \in Object, Create(c, o) PROVE \A d \in Call : KeptOK(d)'
  <2>1. \A d \in Call \ {c} : KeptOK(d)'
    BY <1>3, <1>0, KeptKeeps DEF Create, Save, TypeOK
  <2>2. ASSUME pc'[c] = "sending" PROVE KeptOK(c)'
    <3> DEFINE s == [key |-> Key(c), sent |-> Sent(req[c]), id |-> o, ok |-> TRUE, by |-> c,
                     during |-> {d \in Call : pc[d] = "sending"}]
    <3>1. s \in saved' /\ c \in s.during
      BY <1>3 DEF Create, Save, Sending
    <3>2. s \in SavedFor(c)'
      BY <1>3, <3>1 DEF Create, SavedFor, Key, Sent
    <3>3. Handler(req[c]).verb \in Posts /\ req' = req
      BY <1>3 DEF Create, Sending, Posts
    <3> HIDE DEF s
    <3> QED
      BY <3>1, <3>2, <3>3 DEF KeptOK
  <2> QED
    BY <2>1, <2>2 DEF KeptOK
<1>4. ASSUME NEW c \in Call, NEW o \in Object, Change(c, o) PROVE \A d \in Call : KeptOK(d)'
  <2>1. \A d \in Call \ {c} : KeptOK(d)'
    BY <1>4, <1>0, KeptKeeps DEF Change, Save, TypeOK
  <2>2. ASSUME pc'[c] = "sending" PROVE KeptOK(c)'
    <3> DEFINE s == [key |-> Key(c), sent |-> Sent(req[c]), id |-> o, ok |-> TRUE, by |-> c,
                     during |-> {d \in Call : pc[d] = "sending"}]
    <3>1. s \in saved' /\ c \in s.during
      BY <1>4 DEF Change, Save, Sending
    <3>2. s \in SavedFor(c)'
      BY <1>4, <3>1 DEF Change, SavedFor, Key, Sent
    <3>3. Handler(req[c]).verb \in Posts /\ req' = req
      BY <1>4 DEF Change, Sending, Posts
    <3> HIDE DEF s
    <3> QED
      BY <3>1, <3>2, <3>3 DEF KeptOK
  <2> QED
    BY <2>1, <2>2 DEF KeptOK
<1>5. ASSUME NEW c \in Call, NEW o \in Object, Delete(c, o) PROVE \A d \in Call : KeptOK(d)'
  <2>1. \A d \in Call \ {c} : KeptOK(d)'
    BY <1>5, <1>0, KeptKeeps DEF Delete, TypeOK
  <2>2. KeptOK(c)'
    BY <1>5, <1>0 DEF Delete, KeptOK, Sending, Reaches, TypeOK
  <2> QED
    BY <2>1, <2>2
<1>6. ASSUME NEW c \in Call, Decline(c) PROVE \A d \in Call : KeptOK(d)'
  BY <1>6, <1>0, KeptKeeps DEF Decline, Save
<1>7. ASSUME NEW c \in Call, Absent(c) PROVE \A d \in Call : KeptOK(d)'
  BY <1>7, <1>0, KeptKeeps DEF Absent, stripe
<1>8. ASSUME NEW c \in Call, Read(c) PROVE \A d \in Call : KeptOK(d)'
  BY <1>8, <1>0, KeptKeeps DEF Read, stripe
<1>9. ASSUME NEW c \in Call, Fail(c) PROVE \A d \in Call : KeptOK(d)'
  BY <1>9, <1>0, KeptKeeps DEF Fail, stripe
<1>10. ASSUME NEW o \in Object, DashboardDelete(o) PROVE \A d \in Call : KeptOK(d)'
  BY <1>10, <1>0, KeptKeeps DEF DashboardDelete
<1>11. ASSUME NEW s \in saved, Forget(s) PROVE \A d \in Call : KeptOK(d)'
  <2>1. \A d \in Call : d \in s.during => pc[d] = "done"
    BY <1>11 DEF Forget
  <2> QED
    BY <1>11, <1>0, <2>1, KeptKeeps DEF Forget
<1>12. ASSUME UNCHANGED vars PROVE \A d \in Call : KeptOK(d)'
  BY <1>12, <1>0, KeptKeeps DEF vars
<1> QED
  BY <1>1, <1>2, <1>3, <1>4, <1>5, <1>6, <1>7, <1>8, <1>9, <1>10, <1>11, <1>12 DEF Next, Step

(* What was true of a saved response stays true. *)
LEMMA SavedKeeps ==
    ASSUME IInv, TypeOK, Keeps, NEW s \in saved, SavedOK(s)
    PROVE  SavedOK(s)'
<1>1. s.by \in Call /\ pc[s.by] # "idle"
  BY DEF TypeOK, SavedOK
<1>2. req'[s.by] = req[s.by] /\ pc'[s.by] # "idle"
  BY <1>1 DEF Keeps
<1>3. times[s.by] # 0 => times'[s.by] # 0
  BY <1>1 DEF Keeps, TypeOK
<1>4. s.id \in born => s.id \in born' /\ maker'[s.id] = maker[s.id]
  BY DEF Keeps
<1>5. s.id \in born /\ s.id \notin live => s.id \notin live'
  BY DEF Keeps
<1> QED
  BY <1>1, <1>2, <1>3, <1>4, <1>5 DEF SavedOK, Key, Creates

(* What is saved for a key is what its call was answered. *)
LEMMA SavedStep == IInv /\ [Next]_vars => \A s \in saved' : SavedOK(s)'
<1> SUFFICES ASSUME IInv, [Next]_vars PROVE \A s \in saved' : SavedOK(s)'
  OBVIOUS
<1>0. TypeOK /\ TypeOK' /\ Keeps
  BY TypeStep, KeepsStep DEF IInv
<1>1. ASSUME NEW c \in Call, NEW q \in Requests, Begin(c, q) PROVE \A s \in saved' : SavedOK(s)'
  BY <1>1, <1>0, SavedKeeps DEF Begin, IInv, stripe
<1>2. ASSUME NEW c \in Call, Replay(c) PROVE \A s \in saved' : SavedOK(s)'
  BY <1>2, <1>0, SavedKeeps DEF Replay, IInv, stripe
<1>3. ASSUME NEW c \in Call, NEW o \in Object, Create(c, o) PROVE \A s \in saved' : SavedOK(s)'
  <2>1. ASSUME NEW s \in saved', s \notin saved PROVE SavedOK(s)'
    <3>1. /\ s.key = Key(c) /\ s.sent = Sent(req[c]) /\ s.id = o
          /\ s.ok = TRUE /\ s.by = c
      BY <1>3, <2>1 DEF Create, Save
    <3>2. pc'[c] # "idle" /\ req' = req
      BY <1>3, <1>0 DEF Create, Sending, Keeps
    <3>3. times'[c] # 0 /\ o \in born' /\ maker'[o] = c
      BY <1>3, <1>0 DEF Create, TypeOK
    <3>4. Handler(req[c]).verb = "create"
      BY <1>3 DEF Create, Sending
    <3> QED
      BY <3>1, <3>2, <3>3, <3>4 DEF SavedOK, Key, Creates, Posts
  <2> QED
    BY <1>3, <1>0, <2>1, SavedKeeps DEF IInv
<1>4. ASSUME NEW c \in Call, NEW o \in Object, Change(c, o) PROVE \A s \in saved' : SavedOK(s)'
  <2>1. ASSUME NEW s \in saved', s \notin saved PROVE SavedOK(s)'
    <3>1. /\ s.key = Key(c) /\ s.sent = Sent(req[c]) /\ s.id = o
          /\ s.ok = TRUE /\ s.by = c
      BY <1>4, <2>1 DEF Change, Save
    <3>2. pc'[c] # "idle" /\ req' = req
      BY <1>4, <1>0 DEF Change, Sending, Keeps
    <3>3. times'[c] # 0 /\ o \in born' /\ req[c].id = o
      BY <1>4, <1>0 DEF Change, TypeOK, Reaches
    <3>4. Handler(req[c]).verb \in {"change", "end"}
      BY <1>4 DEF Change, Sending
    <3>5. Handler(req[c]).verb = "end" => o \notin live'
      BY <1>4 DEF Change
    <3> QED
      BY <3>1, <3>2, <3>3, <3>4, <3>5 DEF SavedOK, Key, Creates, Posts
  <2> QED
    BY <1>4, <1>0, <2>1, SavedKeeps DEF IInv
<1>5. ASSUME NEW c \in Call, NEW o \in Object, Delete(c, o) PROVE \A s \in saved' : SavedOK(s)'
  BY <1>5, <1>0, SavedKeeps DEF Delete, IInv, stripe
<1>6. ASSUME NEW c \in Call, Decline(c) PROVE \A s \in saved' : SavedOK(s)'
  <2>1. ASSUME NEW s \in saved', s \notin saved PROVE SavedOK(s)'
    <3>1. /\ s.key = Key(c) /\ s.sent = Sent(req[c]) /\ s.id = NoObject
          /\ s.ok = FALSE /\ s.by = c
      BY <1>6, <2>1 DEF Decline, Save
    <3>2. pc'[c] # "idle" /\ req' = req
      BY <1>6, <1>0 DEF Decline, Sending, Keeps
    <3>4. Handler(req[c]).verb \in Posts
      BY <1>6 DEF Decline, Sending
    <3> QED
      BY <3>1, <3>2, <3>4 DEF SavedOK, Key
  <2> QED
    BY <1>6, <1>0, <2>1, SavedKeeps DEF IInv
<1>7. ASSUME NEW c \in Call, Absent(c) PROVE \A s \in saved' : SavedOK(s)'
  BY <1>7, <1>0, SavedKeeps DEF Absent, IInv, stripe
<1>8. ASSUME NEW c \in Call, Read(c) PROVE \A s \in saved' : SavedOK(s)'
  BY <1>8, <1>0, SavedKeeps DEF Read, IInv, stripe
<1>9. ASSUME NEW c \in Call, Fail(c) PROVE \A s \in saved' : SavedOK(s)'
  BY <1>9, <1>0, SavedKeeps DEF Fail, IInv, stripe
<1>10. ASSUME NEW o \in Object, DashboardDelete(o) PROVE \A s \in saved' : SavedOK(s)'
  BY <1>10, <1>0, SavedKeeps DEF DashboardDelete, IInv, stripe
<1>11. ASSUME NEW f \in saved, Forget(f) PROVE \A s \in saved' : SavedOK(s)'
  BY <1>11, <1>0, SavedKeeps DEF Forget, IInv, stripe
<1>12. ASSUME UNCHANGED vars PROVE \A s \in saved' : SavedOK(s)'
  BY <1>12, <1>0, SavedKeeps DEF vars, IInv
<1> QED
  BY <1>1, <1>2, <1>3, <1>4, <1>5, <1>6, <1>7, <1>8, <1>9, <1>10, <1>11, <1>12 DEF Next, Step

(* What was true of an object stays true under the same maker. *)
LEMMA MadeKeeps ==
    ASSUME NEW p \in Object, MadeOK(p), TypeOK, Keeps, maker'[p] = maker[p]
    PROVE  MadeOK(p)'
<1> SUFFICES ASSUME maker[p] # Outside PROVE MadeOK(p)'
  BY DEF MadeOK
<1>1. maker[p] \in Call /\ pc[maker[p]] # "idle" /\ p \in born
  BY DEF MadeOK, TypeOK
<1>2. req'[maker[p]] = req[maker[p]] /\ pc'[maker[p]] # "idle"
  BY <1>1 DEF Keeps
<1>3. times'[maker[p]] # 0
  BY <1>1 DEF Keeps, TypeOK, MadeOK
<1>4. p \in born' /\ rec'[p] = rec[p]
  BY <1>1 DEF Keeps
<1> QED
  BY <1>1, <1>2, <1>3, <1>4 DEF MadeOK, Creates

(* An object is what its maker asked for. *)
LEMMA MadeStep == IInv /\ [Next]_vars => \A p \in Object : MadeOK(p)'
<1> SUFFICES ASSUME IInv, [Next]_vars PROVE \A p \in Object : MadeOK(p)'
  OBVIOUS
<1>0. TypeOK /\ TypeOK' /\ Keeps
  BY TypeStep, KeepsStep DEF IInv
<1>1. ASSUME NEW c \in Call, NEW q \in Requests, Begin(c, q) PROVE \A p \in Object : MadeOK(p)'
  BY <1>1, <1>0, MadeKeeps DEF Begin, IInv, stripe
<1>2. ASSUME NEW c \in Call, Replay(c) PROVE \A p \in Object : MadeOK(p)'
  BY <1>2, <1>0, MadeKeeps DEF Replay, IInv, stripe
<1>3. ASSUME NEW c \in Call, NEW o \in Object, Create(c, o) PROVE \A p \in Object : MadeOK(p)'
  <2>1. MadeOK(o)'
    <3>1. /\ o \in born' /\ maker'[o] = c /\ times'[c] # 0
          /\ rec'[o] = Made(req[c]) /\ req' = req
      BY <1>3, <1>0 DEF Create, TypeOK
    <3>2. pc'[c] # "idle" /\ Creates(c)
      BY <1>3, <1>0 DEF Create, Sending, Keeps, Creates
    <3> QED
      BY <3>1, <3>2 DEF MadeOK, Creates
  <2>2. \A p \in Object \ {o} : maker'[p] = maker[p]
    BY <1>3, <1>0 DEF Create, TypeOK
  <2> QED
    BY <1>0, <2>1, <2>2, MadeKeeps DEF IInv
<1>4. ASSUME NEW c \in Call, NEW o \in Object, Change(c, o) PROVE \A p \in Object : MadeOK(p)'
  BY <1>4, <1>0, MadeKeeps DEF Change, IInv, stripe
<1>5. ASSUME NEW c \in Call, NEW o \in Object, Delete(c, o) PROVE \A p \in Object : MadeOK(p)'
  BY <1>5, <1>0, MadeKeeps DEF Delete, IInv, stripe
<1>6. ASSUME NEW c \in Call, Decline(c) PROVE \A p \in Object : MadeOK(p)'
  BY <1>6, <1>0, MadeKeeps DEF Decline, IInv, stripe
<1>7. ASSUME NEW c \in Call, Absent(c) PROVE \A p \in Object : MadeOK(p)'
  BY <1>7, <1>0, MadeKeeps DEF Absent, IInv, stripe
<1>8. ASSUME NEW c \in Call, Read(c) PROVE \A p \in Object : MadeOK(p)'
  BY <1>8, <1>0, MadeKeeps DEF Read, IInv, stripe
<1>9. ASSUME NEW c \in Call, Fail(c) PROVE \A p \in Object : MadeOK(p)'
  BY <1>9, <1>0, MadeKeeps DEF Fail, IInv, stripe
<1>10. ASSUME NEW o \in Object, DashboardDelete(o) PROVE \A p \in Object : MadeOK(p)'
  BY <1>10, <1>0, MadeKeeps DEF DashboardDelete, IInv, stripe
<1>11. ASSUME NEW s \in saved, Forget(s) PROVE \A p \in Object : MadeOK(p)'
  BY <1>11, <1>0, MadeKeeps DEF Forget, IInv, stripe
<1>12. ASSUME UNCHANGED vars PROVE \A p \in Object : MadeOK(p)'
  BY <1>12, <1>0, MadeKeeps DEF vars, IInv
<1> QED
  BY <1>1, <1>2, <1>3, <1>4, <1>5, <1>6, <1>7, <1>8, <1>9, <1>10, <1>11, <1>12 DEF Next, Step

(* What was true of an act stays true. *)
LEMMA ActedKeeps ==
    ASSUME NEW d \in Call, NEW p \in Object, ActedOK(d, p), Keeps,
           <<d, p>> \in acted' => <<d, p>> \in acted
    PROVE  ActedOK(d, p)'
BY DEF ActedOK, Keeps

(* Calls act on objects of their kind and their account. *)
LEMMA ActedStep == IInv /\ [Next]_vars => \A d \in Call, p \in Object : ActedOK(d, p)'
<1> SUFFICES ASSUME IInv, [Next]_vars PROVE \A d \in Call, p \in Object : ActedOK(d, p)'
  OBVIOUS
<1>0. TypeOK /\ TypeOK' /\ Keeps
  BY TypeStep, KeepsStep DEF IInv
<1>1. ASSUME NEW c \in Call, NEW q \in Requests, Begin(c, q) PROVE \A d \in Call, p \in Object : ActedOK(d, p)'
  BY <1>1, <1>0, ActedKeeps DEF Begin, IInv, stripe
<1>2. ASSUME NEW c \in Call, Replay(c) PROVE \A d \in Call, p \in Object : ActedOK(d, p)'
  BY <1>2, <1>0, ActedKeeps DEF Replay, IInv, stripe
<1>3. ASSUME NEW c \in Call, NEW o \in Object, Create(c, o) PROVE \A d \in Call, p \in Object : ActedOK(d, p)'
  BY <1>3, <1>0, ActedKeeps DEF Create, IInv, stripe
<1>4. ASSUME NEW c \in Call, NEW o \in Object, Change(c, o) PROVE \A d \in Call, p \in Object : ActedOK(d, p)'
  <2>1. ActedOK(c, o)'
    <3>1. /\ o \in born' /\ req' = req
          /\ rec'[o].kind = Handler(req[c]).kind
          /\ rec'[o].account = Route(req[c])
      BY <1>4 DEF Change, Reaches
    <3>2. pc'[c] # "idle"
      BY <1>4, <1>0 DEF Change, Sending, Keeps
    <3> QED
      BY <3>1, <3>2 DEF ActedOK
  <2>2. \A d \in Call, p \in Object : d # c \/ p # o => (<<d, p>> \in acted' => <<d, p>> \in acted)
    BY <1>4 DEF Change
  <2> QED
    BY <1>0, <2>1, <2>2, ActedKeeps DEF IInv
<1>5. ASSUME NEW c \in Call, NEW o \in Object, Delete(c, o) PROVE \A d \in Call, p \in Object : ActedOK(d, p)'
  <2>1. ActedOK(c, o)'
    <3>1. /\ o \in born' /\ req' = req
          /\ rec'[o].kind = Handler(req[c]).kind
          /\ rec'[o].account = Route(req[c])
      BY <1>5 DEF Delete, Reaches
    <3>2. pc'[c] # "idle"
      BY <1>5, <1>0 DEF Delete, Sending, Keeps
    <3> QED
      BY <3>1, <3>2 DEF ActedOK
  <2>2. \A d \in Call, p \in Object : d # c \/ p # o => (<<d, p>> \in acted' => <<d, p>> \in acted)
    BY <1>5 DEF Delete
  <2> QED
    BY <1>0, <2>1, <2>2, ActedKeeps DEF IInv
<1>6. ASSUME NEW c \in Call, Decline(c) PROVE \A d \in Call, p \in Object : ActedOK(d, p)'
  BY <1>6, <1>0, ActedKeeps DEF Decline, IInv, stripe
<1>7. ASSUME NEW c \in Call, Absent(c) PROVE \A d \in Call, p \in Object : ActedOK(d, p)'
  BY <1>7, <1>0, ActedKeeps DEF Absent, IInv, stripe
<1>8. ASSUME NEW c \in Call, Read(c) PROVE \A d \in Call, p \in Object : ActedOK(d, p)'
  BY <1>8, <1>0, ActedKeeps DEF Read, IInv, stripe
<1>9. ASSUME NEW c \in Call, Fail(c) PROVE \A d \in Call, p \in Object : ActedOK(d, p)'
  BY <1>9, <1>0, ActedKeeps DEF Fail, IInv, stripe
<1>10. ASSUME NEW o \in Object, DashboardDelete(o) PROVE \A d \in Call, p \in Object : ActedOK(d, p)'
  BY <1>10, <1>0, ActedKeeps DEF DashboardDelete, IInv, stripe
<1>11. ASSUME NEW s \in saved, Forget(s) PROVE \A d \in Call, p \in Object : ActedOK(d, p)'
  BY <1>11, <1>0, ActedKeeps DEF Forget, IInv, stripe
<1>12. ASSUME UNCHANGED vars PROVE \A d \in Call, p \in Object : ActedOK(d, p)'
  BY <1>12, <1>0, ActedKeeps DEF vars, IInv
<1> QED
  BY <1>1, <1>2, <1>3, <1>4, <1>5, <1>6, <1>7, <1>8, <1>9, <1>10, <1>11, <1>12 DEF Next, Step

(* Requests that are sent alike are made, ended and deleted alike. *)
LEMMA SentAlike ==
    ASSUME NEW q, NEW r, Sent(q) = Sent(r)
    PROVE  /\ q.id = r.id
           /\ Route(q) = Route(r)
           /\ Handler(q).kind = Handler(r).kind
           /\ Chosen(q, Handler(q).sends) = Chosen(r, Handler(r).sends)
           /\ \A v \in {"create", "end", "delete"} :
                 Handler(q).verb = v <=> Handler(r).verb = v
BY HandlerShape DEF Sent, Shape

(* What an answer rests on stays. *)
LEMMA DoneKeeps ==
    ASSUME NEW c \in Call, IInv, TypeOK, Keeps, pc[c] # "idle", DoneOK(c), result'[c] = result[c]
    PROVE  DoneOK(c)'
<1> SUFFICES ASSUME result[c].kind = "done" PROVE DoneOK(c)'
  BY DEF DoneOK
<1>1. PICK d \in Call : /\ pc[d] # "idle"
                        /\ times[d] # 0
                        /\ Sent(req[d]) = Sent(req[c])
                        /\ Creates(c) => result[c].id \in born /\ maker[result[c].id] = d
                        /\ Handler(req[c]).verb \in {"end", "delete"} =>
                              req[c].id \in born \ live
  BY DEF DoneOK
<1>2. req'[c] = req[c] /\ req'[d] = req[d] /\ pc'[d] # "idle" /\ times'[d] # 0
  BY <1>1 DEF Keeps, TypeOK
<1> QED
  BY <1>1, <1>2 DEF DoneOK, Creates, Keeps

(* An answer that is not "done" promises nothing. *)
LEMMA DoneOthers ==
    ASSUME IInv, TypeOK, Keeps, NEW d \in Call,
           result'[d] = result[d] \/ result'[d].kind # "done"
    PROVE  DoneOK(d)'
<1>1. CASE pc[d] = "idle"
  <2>1. result[d].kind = "none"
    BY <1>1 DEF IInv, CallOK
  <2> QED
    BY <2>1 DEF DoneOK
<1>2. CASE pc[d] # "idle" /\ result'[d] = result[d]
  BY <1>2, DoneKeeps DEF IInv
<1>3. CASE result'[d].kind # "done"
  BY <1>3 DEF DoneOK
<1> QED
  BY <1>1, <1>2, <1>3

(* Whoever is told that it is done was told so of a call of its intent. *)
LEMMA DoneStep == IInv /\ [Next]_vars => \A d \in Call : DoneOK(d)'
<1> SUFFICES ASSUME IInv, [Next]_vars PROVE \A d \in Call : DoneOK(d)'
  OBVIOUS
<1>0. TypeOK /\ TypeOK' /\ Keeps
  BY TypeStep, KeepsStep DEF IInv
<1>1. ASSUME NEW c \in Call, NEW q \in Requests, Begin(c, q) PROVE \A d \in Call : DoneOK(d)'
  <2>1. ASSUME NEW d \in Call PROVE result'[d] = result[d] \/ result'[d].kind # "done"
    BY <1>1, <1>0 DEF Begin, Finish, TypeOK
  <2> QED
    BY <1>0, <2>1, DoneOthers
<1>2. ASSUME NEW c \in Call, Replay(c) PROVE \A d \in Call : DoneOK(d)'
  <2>1. ASSUME NEW d \in Call, d # c PROVE DoneOK(d)'
    BY <1>2, <1>0, <2>1, DoneOthers DEF Replay, Finish, TypeOK
  <2>2. DoneOK(c)'
    <3>1. CASE result'[c].kind # "done"
      BY <3>1 DEF DoneOK
    <3>2. CASE result'[c].kind = "done"
      <4>1. PICK s \in SavedFor(c) : /\ s.sent = Sent(req[c]) /\ s.ok
                                     /\ result'[c].id = s.id
        BY <1>2, <1>0, <3>2 DEF Replay, Finish, TypeOK
      <4>2. s \in saved /\ SavedOK(s) /\ s.by \in Call
        BY <1>0, <4>1 DEF SavedFor, IInv, TypeOK
      <4>3. /\ pc[s.by] # "idle" /\ times[s.by] # 0
            /\ Sent(req[s.by]) = Sent(req[c])
            /\ s.id \in born
        BY <4>1, <4>2 DEF SavedOK
      <4>4. Creates(c) => maker[s.id] = s.by
        BY <4>1, <4>2, <4>3, SentAlike DEF SavedOK, Creates
      <4>5. Handler(req[c]).verb # "delete"
        BY <1>2 DEF Replay, Sending, Posts
      <4>6. Handler(req[c]).verb = "end" => req[c].id \in born \ live
        BY <4>1, <4>2, <4>3, SentAlike DEF SavedOK, Creates
      <4>7. UNCHANGED <<req, born, live, maker, times>> /\ pc'[s.by] # "idle"
        BY <1>2, <1>0, <4>2, <4>3 DEF Replay, stripe, Keeps
      <4> QED
        BY <4>1, <4>2, <4>3, <4>4, <4>5, <4>6, <4>7 DEF DoneOK, Creates
    <3> QED
      BY <3>1, <3>2
  <2> QED
    BY <2>1, <2>2
<1>3. ASSUME NEW c \in Call, NEW o \in Object, Create(c, o) PROVE \A d \in Call : DoneOK(d)'
  <2>1. ASSUME NEW d \in Call, d # c PROVE DoneOK(d)'
    BY <1>3, <1>0, <2>1, DoneOthers DEF Create, Answer, Finish, TypeOK
  <2>2. DoneOK(c)'
    <3> SUFFICES ASSUME result'[c].kind = "done" PROVE DoneOK(c)'
      BY DEF DoneOK
    <3>1. /\ pc'[c] # "idle" /\ req' = req /\ times'[c] # 0
          /\ result'[c].id = o
      BY <1>3, <1>0 DEF Create, Answer, Finish, Sending, IInv, CallOK, TypeOK, Keeps
    <3>2. o \in born' /\ maker'[o] = c /\ Handler(req[c]).verb = "create"
      BY <1>3, <1>0 DEF Create, Sending, TypeOK
    <3> QED
      BY <3>1, <3>2 DEF DoneOK, Creates
  <2> QED
    BY <2>1, <2>2
<1>4. ASSUME NEW c \in Call, NEW o \in Object, Change(c, o) PROVE \A d \in Call : DoneOK(d)'
  <2>1. ASSUME NEW d \in Call, d # c PROVE DoneOK(d)'
    BY <1>4, <1>0, <2>1, DoneOthers DEF Change, Answer, Finish, TypeOK
  <2>2. DoneOK(c)'
    <3> SUFFICES ASSUME result'[c].kind = "done" PROVE DoneOK(c)'
      BY DEF DoneOK
    <3>1. /\ pc'[c] # "idle" /\ req' = req /\ times'[c] # 0
          /\ result'[c].id = o
      BY <1>4, <1>0 DEF Change, Answer, Finish, Sending, IInv, CallOK, TypeOK, Keeps
    <3>2. /\ o = req[c].id /\ o \in born'
          /\ Handler(req[c]).verb \in {"change", "end"}
          /\ Handler(req[c]).verb = "end" => o \notin live'
      BY <1>4, <1>0 DEF Change, Sending, TypeOK, Reaches
    <3> QED
      BY <3>1, <3>2 DEF DoneOK, Creates
  <2> QED
    BY <2>1, <2>2
<1>5. ASSUME NEW c \in Call, NEW o \in Object, Delete(c, o) PROVE \A d \in Call : DoneOK(d)'
  <2>1. ASSUME NEW d \in Call, d # c PROVE DoneOK(d)'
    BY <1>5, <1>0, <2>1, DoneOthers DEF Delete, Answer, Finish, TypeOK
  <2>2. DoneOK(c)'
    <3> SUFFICES ASSUME result'[c].kind = "done" PROVE DoneOK(c)'
      BY DEF DoneOK
    <3>1. /\ pc'[c] # "idle" /\ req' = req /\ times'[c] # 0
          /\ result'[c].id = o
      BY <1>5, <1>0 DEF Delete, Answer, Finish, Sending, IInv, CallOK, TypeOK, Keeps
    <3>2. /\ o = req[c].id /\ o \in born' \ live'
          /\ Handler(req[c]).verb = "delete"
      BY <1>5, <1>0 DEF Delete, Sending, TypeOK, Reaches
    <3> QED
      BY <3>1, <3>2 DEF DoneOK, Creates
  <2> QED
    BY <2>1, <2>2
<1>6. ASSUME NEW c \in Call, Decline(c) PROVE \A d \in Call : DoneOK(d)'
  <2>1. ASSUME NEW d \in Call PROVE result'[d] = result[d] \/ result'[d].kind # "done"
    BY <1>6, <1>0 DEF Decline, Finish, Answer, TypeOK
  <2> QED
    BY <1>0, <2>1, DoneOthers
<1>7. ASSUME NEW c \in Call, Absent(c) PROVE \A d \in Call : DoneOK(d)'
  <2>1. ASSUME NEW d \in Call PROVE result'[d] = result[d] \/ result'[d].kind # "done"
    BY <1>7, <1>0 DEF Absent, Finish, Answer, TypeOK
  <2> QED
    BY <1>0, <2>1, DoneOthers
<1>8. ASSUME NEW c \in Call, Read(c) PROVE \A d \in Call : DoneOK(d)'
  <2>1. ASSUME NEW d \in Call PROVE result'[d] = result[d] \/ result'[d].kind # "done"
    BY <1>8, <1>0 DEF Read, Finish, Answer, TypeOK
  <2> QED
    BY <1>0, <2>1, DoneOthers
<1>9. ASSUME NEW c \in Call, Fail(c) PROVE \A d \in Call : DoneOK(d)'
  <2>1. ASSUME NEW d \in Call PROVE result'[d] = result[d] \/ result'[d].kind # "done"
    BY <1>9, <1>0 DEF Fail, Finish, Answer, TypeOK
  <2> QED
    BY <1>0, <2>1, DoneOthers
<1>10. ASSUME NEW o \in Object, DashboardDelete(o) PROVE \A d \in Call : DoneOK(d)'
  BY <1>10, <1>0, DoneOthers DEF DashboardDelete
<1>11. ASSUME NEW s \in saved, Forget(s) PROVE \A d \in Call : DoneOK(d)'
  BY <1>11, <1>0, DoneOthers DEF Forget
<1>12. ASSUME UNCHANGED vars PROVE \A d \in Call : DoneOK(d)'
  BY <1>12, <1>0, DoneOthers DEF vars
<1> QED
  BY <1>1, <1>2, <1>3, <1>4, <1>5, <1>6, <1>7, <1>8, <1>9, <1>10, <1>11, <1>12 DEF Next, Step

(* An object made earlier under the key and in the account of a creation   *)
(* that finds nothing saved is of another call, which is over.             *)
LEMMA EarlierOver ==
    ASSUME IInv, NEW c \in Call, NEW p \in born,
           pc[c] = "sending", Handler(req[c]).verb = "create", SavedFor(c) = {},
           maker[p] # Outside, Key(maker[p]) = Key(c), rec[p].account = Route(req[c])
    PROVE  maker[p] \in {d \in Call : pc[d] = "done"}
<1> DEFINE d == maker[p]
<1>1. p \in Object /\ d \in Call
  BY DEF IInv, TypeOK
<1>2. MadeOK(p)
  BY <1>1 DEF IInv
<1> HIDE DEF d
<1>3. pc[d] # "idle" /\ times[d] # 0 /\ Creates(d) /\ rec[p] = Made(req[d])
  BY <1>2 DEF MadeOK, d
<1>4. Route(req[d]) = Route(req[c])
  BY <1>3 DEF Made
<1>5. Key(d) = Key(c)
  BY DEF d
<1>6. pc[d] # "idle" /\ times[d] # 0 /\ Creates(d) /\ Route(req[d]) = Route(req[c])
  BY <1>3, <1>4
<1>7. ASSUME pc[d] = "sending" PROVE FALSE
  <2>1. PICK s \in SavedFor(d) : TRUE
    BY <1>1, <1>6, <1>7 DEF IInv, KeptOK, Creates
  <2>2. s \in SavedFor(c)
    BY <1>6, <1>5, <2>1 DEF SavedFor
  <2> QED
    BY <2>2
<1> QED
  BY <1>1, <1>6, <1>7 DEF IInv, TypeOK, d

(* Objects that were there before the step stay apart. *)
LEMMA CopiesKeep ==
    ASSUME IInv, TypeOK, Keeps, NEW o \in born, NEW p \in born,
           o # p, maker'[o] # Outside, maker'[p] # Outside,
           Key(maker[o])' = Key(maker[p])', rec'[o].account = rec'[p].account
    PROVE  maker'[o] \in before'[p] \/ maker'[p] \in before'[o]
<1>1. /\ maker'[o] = maker[o] /\ maker'[p] = maker[p] /\ rec'[o] = rec[o] /\ rec'[p] = rec[p]
      /\ before'[o] = before[o] /\ before'[p] = before[p]
  BY DEF Keeps
<1>2. o \in Object /\ p \in Object
  BY DEF TypeOK
<1>3. /\ maker[o] \in Call /\ maker[p] \in Call
      /\ pc[maker[o]] # "idle" /\ pc[maker[p]] # "idle"
  BY <1>1, <1>2 DEF IInv, MadeOK, TypeOK
<1>4. Key(maker[o]) = Key(maker[p])
  BY <1>1, <1>3 DEF Keeps, Key
<1> QED
  BY <1>1, <1>4 DEF IInv, CopiesMakeOne

(* Objects of one key and account are of calls that never met. *)
LEMMA CopiesStep == IInv /\ [Next]_vars => CopiesMakeOne'
<1> SUFFICES ASSUME IInv, [Next]_vars PROVE CopiesMakeOne'
  OBVIOUS
<1>0. TypeOK /\ TypeOK' /\ Keeps
  BY TypeStep, KeepsStep DEF IInv
<1>1. ASSUME NEW c \in Call, NEW q \in Requests, Begin(c, q) PROVE CopiesMakeOne'
  <2>1. born' = born
    BY <1>1 DEF Begin, stripe
  <2> QED
    BY <1>0, <2>1, CopiesKeep DEF CopiesMakeOne
<1>2. ASSUME NEW c \in Call, Replay(c) PROVE CopiesMakeOne'
  <2>1. born' = born
    BY <1>2 DEF Replay, stripe
  <2> QED
    BY <1>0, <2>1, CopiesKeep DEF CopiesMakeOne
<1>3. ASSUME NEW c \in Call, NEW o \in Object, Create(c, o) PROVE CopiesMakeOne'
  <2> SUFFICES ASSUME NEW a \in born', NEW b \in born', a # b,
                      maker'[a] # Outside, maker'[b] # Outside,
                      Key(maker[a])' = Key(maker[b])', rec'[a].account = rec'[b].account
               PROVE  maker'[a] \in before'[b] \/ maker'[b] \in before'[a]
    BY DEF CopiesMakeOne
  <2>1. /\ maker'[o] = c /\ before'[o] = {d \in Call : pc[d] = "done"}
        /\ rec'[o].account = Route(req[c]) /\ req' = req
        /\ born' = born \union {o}
    BY <1>3, <1>0 DEF Create, TypeOK, Made
  <2>2. ASSUME NEW p \in born, maker'[p] # Outside,
               Key(maker[p])' = Key(maker[o])', rec'[p].account = rec'[o].account
        PROVE  maker'[p] \in before'[o]
    <3>1. maker'[p] = maker[p] /\ rec'[p] = rec[p]
      BY <1>0 DEF Keeps
    <3>2. Key(maker[p]) = Key(c)
      BY <2>1, <2>2, <3>1 DEF Key
    <3> QED
      BY <1>3, <2>1, <2>2, <3>1, <3>2, EarlierOver DEF Create, Sending
  <2>3. CASE a \in born /\ b \in born
    BY <1>0, <2>3, CopiesKeep
  <2>4. CASE a = o \/ b = o
    BY <2>1, <2>2, <2>4
  <2> QED
    BY <2>1, <2>3, <2>4
<1>4. ASSUME NEW c \in Call, NEW o \in Object, Change(c, o) PROVE CopiesMakeOne'
  <2>1. born' = born
    BY <1>4 DEF Change, stripe
  <2> QED
    BY <1>0, <2>1, CopiesKeep DEF CopiesMakeOne
<1>5. ASSUME NEW c \in Call, NEW o \in Object, Delete(c, o) PROVE CopiesMakeOne'
  <2>1. born' = born
    BY <1>5 DEF Delete, stripe
  <2> QED
    BY <1>0, <2>1, CopiesKeep DEF CopiesMakeOne
<1>6. ASSUME NEW c \in Call, Decline(c) PROVE CopiesMakeOne'
  <2>1. born' = born
    BY <1>6 DEF Decline, stripe
  <2> QED
    BY <1>0, <2>1, CopiesKeep DEF CopiesMakeOne
<1>7. ASSUME NEW c \in Call, Absent(c) PROVE CopiesMakeOne'
  <2>1. born' = born
    BY <1>7 DEF Absent, stripe
  <2> QED
    BY <1>0, <2>1, CopiesKeep DEF CopiesMakeOne
<1>8. ASSUME NEW c \in Call, Read(c) PROVE CopiesMakeOne'
  <2>1. born' = born
    BY <1>8 DEF Read, stripe
  <2> QED
    BY <1>0, <2>1, CopiesKeep DEF CopiesMakeOne
<1>9. ASSUME NEW c \in Call, Fail(c) PROVE CopiesMakeOne'
  <2>1. born' = born
    BY <1>9 DEF Fail, stripe
  <2> QED
    BY <1>0, <2>1, CopiesKeep DEF CopiesMakeOne
<1>10. ASSUME NEW o \in Object, DashboardDelete(o) PROVE CopiesMakeOne'
  <2>1. born' = born
    BY <1>10 DEF DashboardDelete, stripe
  <2> QED
    BY <1>0, <2>1, CopiesKeep DEF CopiesMakeOne
<1>11. ASSUME NEW s \in saved, Forget(s) PROVE CopiesMakeOne'
  <2>1. born' = born
    BY <1>11 DEF Forget, stripe
  <2> QED
    BY <1>0, <2>1, CopiesKeep DEF CopiesMakeOne
<1>12. ASSUME UNCHANGED vars PROVE CopiesMakeOne'
  <2>1. born' = born
    BY <1>12 DEF vars
  <2> QED
    BY <1>0, <2>1, CopiesKeep DEF CopiesMakeOne
<1> QED
  BY <1>1, <1>2, <1>3, <1>4, <1>5, <1>6, <1>7, <1>8, <1>9, <1>10, <1>11, <1>12 DEF Next, Step

(* Only the key of a caller equals a key of a caller. *)
LEMMA CallersKey ==
    ASSUME NEW c, NEW q, NEW d, NEW r,
           Handler(q).heedsKey, q.key # NoKey, KeyFor(d, r) = KeyFor(c, q)
    PROVE  r.key = q.key
<1> DEFINE h == Handler(r)
<1>1. KeyFor(c, q).of = <<"caller">> /\ KeyFor(c, q).fields = q.key
  BY DEF KeyFor
<1>2. CASE h.heedsKey /\ r.key # NoKey
  <2>1. KeyFor(d, r).fields = r.key
    BY <1>2 DEF KeyFor
  <2> QED
    BY <1>1, <2>1
<1>3. CASE ~(h.heedsKey /\ r.key # NoKey) /\ h.as # "unkeyed"
  <2>1. KeyFor(d, r).of = <<h.as, h.kind>>
    BY <1>3 DEF KeyFor
  <2> QED
    BY <1>1, <2>1
<1>4. CASE ~(h.heedsKey /\ r.key # NoKey) /\ h.as = "unkeyed"
  <2>1. KeyFor(d, r).of = <<"stripe-go">>
    BY <1>4 DEF KeyFor
  <2> QED
    BY <1>1, <2>1
<1> QED
  BY <1>2, <1>3, <1>4

(* d asks for a creation under a key that no other call carries. *)
Alone(d) ==
    /\ Creates(d)
    /\ Handler(req[d]).kind # "account"
    /\ req[d].key # NoKey
    /\ \A e \in Call \ {d} : pc[e] = "idle" \/ req[e].key # req[d].key

(* What is saved under a key of its own is the call's own. *)
LEMMA AloneSaved ==
    ASSUME IInv, NEW d \in Call, Alone(d), NEW s \in SavedFor(d)
    PROVE  s.by = d /\ s.sent = Sent(req[d]) /\ (s.ok => maker[s.id] = d)
<1>1. s \in saved /\ s.key = Key(d) /\ SavedOK(s) /\ s.by \in Call
  BY DEF SavedFor, IInv, TypeOK
<1>2. Handler(req[d]).heedsKey
  BY HandlerShape DEF Shape, Alone, Creates
<1>3. KeyFor(s.by, req[s.by]) = KeyFor(d, req[d])
  BY <1>1 DEF SavedOK, Key
<1>4. req[s.by].key = req[d].key
  BY <1>2, <1>3, CallersKey DEF Alone
<1>5. s.by = d
  BY <1>1, <1>4 DEF Alone, SavedOK
<1> QED
  BY <1>1, <1>5 DEF Alone, SavedOK

(* A key that is alone after a step was alone before it. *)
LEMMA AloneBefore ==
    ASSUME TypeOK, Keeps, NEW d \in Call, pc[d] # "idle", Alone(d)'
    PROVE  Alone(d)
<1>1. req'[d] = req[d]
  BY DEF Keeps
<1>2. \A e \in Call : pc[e] = "idle" \/ (req'[e] = req[e] /\ pc'[e] # "idle")
  BY DEF Keeps
<1> QED
  BY <1>1, <1>2 DEF Alone, Creates

Satisfied(d) ==
    /\ result[d].kind # "conflict"
    /\ result[d].kind = "done" => maker[result[d].id] = d

(* A satisfied call stays satisfied. *)
LEMMA SatisfiedKeeps ==
    ASSUME IInv, TypeOK, Keeps, NEW d \in Call, pc[d] = "done", Alone(d)'
    PROVE  Satisfied(d)'
<1>1. Alone(d)
  BY AloneBefore
<1>2. Satisfied(d)
  BY <1>1 DEF IInv, OwnKeySuffices, Alone, Satisfied
<1>3. result'[d] = result[d]
  BY DEF Keeps
<1>4. result[d].kind = "done" => result[d].id \in born
  BY <1>1 DEF IInv, DoneOK, Alone
<1> QED
  BY <1>2, <1>3, <1>4 DEF Satisfied, Keeps

(* A creation under a key of its own is answered with an object of its own. *)
LEMMA AloneStep == IInv /\ [Next]_vars => \A d \in Call : pc'[d] = "done" /\ Alone(d)' => Satisfied(d)'
<1> SUFFICES ASSUME IInv, [Next]_vars PROVE \A d \in Call : pc'[d] = "done" /\ Alone(d)' => Satisfied(d)'
  OBVIOUS
<1>0. TypeOK /\ TypeOK' /\ Keeps
  BY TypeStep, KeepsStep DEF IInv
<1>1. ASSUME NEW c \in Call, NEW q \in Requests, Begin(c, q) PROVE \A d \in Call : pc'[d] = "done" /\ Alone(d)' => Satisfied(d)'
  <2>1. \A d \in Call : pc[d] = "done" \/ pc'[d] # "done" \/ Satisfied(d)'
    BY <1>1, <1>0 DEF Begin, Finish, Answer, TypeOK, Satisfied
  <2> QED
    BY <1>0, <2>1, SatisfiedKeeps
<1>2. ASSUME NEW c \in Call, Replay(c) PROVE \A d \in Call : pc'[d] = "done" /\ Alone(d)' => Satisfied(d)'
  <2>1. \A d \in Call \ {c} : pc[d] = "done" \/ pc'[d] # "done"
    BY <1>2, <1>0 DEF Replay, Finish, TypeOK
  <2>2. ASSUME Alone(c)' PROVE Satisfied(c)'
    <3>1. Alone(c)
      BY <1>2, <1>0, <2>2, AloneBefore DEF Replay, Sending
    <3>2. PICK s \in SavedFor(c) :
             \/ s.sent = Sent(req[c]) /\ s.ok /\ Finish(c, "done", s.id)
             \/ s.sent = Sent(req[c]) /\ ~s.ok /\ Finish(c, "declined", NoObject)
             \/ s.sent # Sent(req[c]) /\ Finish(c, "conflict", NoObject)
      BY <1>2 DEF Replay
    <3>3. s.sent = Sent(req[c]) /\ (s.ok => maker[s.id] = c)
      BY <3>1, AloneSaved
    <3>4. maker' = maker
      BY <1>2 DEF Replay, stripe
    <3> QED
      BY <1>0, <3>2, <3>3, <3>4 DEF Finish, TypeOK, Satisfied
  <2> QED
    BY <1>0, <2>1, <2>2, SatisfiedKeeps
<1>3. ASSUME NEW c \in Call, NEW o \in Object, Create(c, o) PROVE \A d \in Call : pc'[d] = "done" /\ Alone(d)' => Satisfied(d)'
  <2>1. \A d \in Call : pc[d] = "done" \/ pc'[d] # "done" \/ Satisfied(d)'
    BY <1>3, <1>0 DEF Create, Finish, Answer, TypeOK, Satisfied
  <2> QED
    BY <1>0, <2>1, SatisfiedKeeps
<1>4. ASSUME NEW c \in Call, NEW o \in Object, Change(c, o) PROVE \A d \in Call : pc'[d] = "done" /\ Alone(d)' => Satisfied(d)'
  <2>1. \A d \in Call \ {c} : pc[d] = "done" \/ pc'[d] # "done"
    BY <1>4, <1>0 DEF Change, Finish, Answer, TypeOK
  <2>2. ~Alone(c)'
    BY <1>4 DEF Change, Sending, Alone, Creates
  <2> QED
    BY <1>0, <2>1, <2>2, SatisfiedKeeps
<1>5. ASSUME NEW c \in Call, NEW o \in Object, Delete(c, o) PROVE \A d \in Call : pc'[d] = "done" /\ Alone(d)' => Satisfied(d)'
  <2>1. \A d \in Call \ {c} : pc[d] = "done" \/ pc'[d] # "done"
    BY <1>5, <1>0 DEF Delete, Finish, Answer, TypeOK
  <2>2. ~Alone(c)'
    BY <1>5 DEF Delete, Sending, Alone, Creates
  <2> QED
    BY <1>0, <2>1, <2>2, SatisfiedKeeps
<1>6. ASSUME NEW c \in Call, Decline(c) PROVE \A d \in Call : pc'[d] = "done" /\ Alone(d)' => Satisfied(d)'
  <2>1. \A d \in Call : pc[d] = "done" \/ pc'[d] # "done" \/ Satisfied(d)'
    BY <1>6, <1>0 DEF Decline, Finish, Answer, TypeOK, Satisfied
  <2> QED
    BY <1>0, <2>1, SatisfiedKeeps
<1>7. ASSUME NEW c \in Call, Absent(c) PROVE \A d \in Call : pc'[d] = "done" /\ Alone(d)' => Satisfied(d)'
  <2>1. \A d \in Call : pc[d] = "done" \/ pc'[d] # "done" \/ Satisfied(d)'
    BY <1>7, <1>0 DEF Absent, Finish, Answer, TypeOK, Satisfied
  <2> QED
    BY <1>0, <2>1, SatisfiedKeeps
<1>8. ASSUME NEW c \in Call, Read(c) PROVE \A d \in Call : pc'[d] = "done" /\ Alone(d)' => Satisfied(d)'
  <2>1. \A d \in Call : pc[d] = "done" \/ pc'[d] # "done" \/ Satisfied(d)'
    BY <1>8, <1>0 DEF Read, Finish, Answer, TypeOK, Satisfied
  <2> QED
    BY <1>0, <2>1, SatisfiedKeeps
<1>9. ASSUME NEW c \in Call, Fail(c) PROVE \A d \in Call : pc'[d] = "done" /\ Alone(d)' => Satisfied(d)'
  <2>1. \A d \in Call : pc[d] = "done" \/ pc'[d] # "done" \/ Satisfied(d)'
    BY <1>9, <1>0 DEF Fail, Finish, Answer, TypeOK, Satisfied
  <2> QED
    BY <1>0, <2>1, SatisfiedKeeps
<1>10. ASSUME NEW o \in Object, DashboardDelete(o) PROVE \A d \in Call : pc'[d] = "done" /\ Alone(d)' => Satisfied(d)'
  <2>1. \A d \in Call : pc[d] = "done" \/ pc'[d] # "done"
    BY <1>10 DEF DashboardDelete
  <2> QED
    BY <1>0, <2>1, SatisfiedKeeps
<1>11. ASSUME NEW s \in saved, Forget(s) PROVE \A d \in Call : pc'[d] = "done" /\ Alone(d)' => Satisfied(d)'
  <2>1. \A d \in Call : pc[d] = "done" \/ pc'[d] # "done"
    BY <1>11 DEF Forget
  <2> QED
    BY <1>0, <2>1, SatisfiedKeeps
<1>12. ASSUME UNCHANGED vars PROVE \A d \in Call : pc'[d] = "done" /\ Alone(d)' => Satisfied(d)'
  <2>1. \A d \in Call : pc[d] = "done" \/ pc'[d] # "done"
    BY <1>12 DEF vars
  <2> QED
    BY <1>0, <2>1, SatisfiedKeeps
<1> QED
  BY <1>1, <1>2, <1>3, <1>4, <1>5, <1>6, <1>7, <1>8, <1>9, <1>10, <1>11, <1>12 DEF Next, Step

(* Every step keeps the invariant. *)
LEMMA InvStep == IInv /\ [Next]_vars => IInv'
<1> SUFFICES ASSUME IInv, [Next]_vars PROVE IInv'
  OBVIOUS
<1>1. TypeOK'
  BY TypeStep DEF IInv
<1>2. \A c \in Call : CallOK(c)' /\ times'[c] <= 1 /\ KeptOK(c)' /\ DoneOK(c)'
  BY CallStep, TimesStep, KeptStep, DoneStep
<1>3. /\ \A s \in saved' : SavedOK(s)'
      /\ \A o \in Object : MadeOK(o)'
      /\ \A c \in Call, o \in Object : ActedOK(c, o)'
  BY SavedStep, MadeStep, ActedStep
<1>4. CopiesMakeOne'
  BY CopiesStep
<1>5. OwnKeySuffices'
  BY AloneStep DEF OwnKeySuffices, Alone, Satisfied, Creates
<1> QED
  BY <1>1, <1>2, <1>3, <1>4, <1>5 DEF IInv

(* The parts of the inductive invariant hold together in every state. *)
THEOREM Invariant == Spec => []IInv
<1> QED
  BY InvInit, InvStep, PTL DEF Spec

-----------------------------------------------------------------------------
(* What follows from it *)

(* Copies of a step and its retries make one object, however many run.     *)
THEOREM OneObject == Spec => []CopiesMakeOne
<1>1. IInv => CopiesMakeOne
  BY DEF IInv
<1> QED
  BY <1>1, Invariant, PTL

(* A creation under a key of the caller's own gets an object of its own.   *)
THEOREM OwnKeys == Spec => []OwnKeySuffices
<1>1. IInv => OwnKeySuffices
  BY DEF IInv
<1> QED
  BY <1>1, Invariant, PTL

(* Where the requests of a bound instance go. *)
LEMMA RouteOfBound ==
    ASSUME NEW q, Bound[q.inst] # Platform
    PROVE  Route(q) = IF Handler(q).kind = "account" THEN Platform ELSE Bound[q.inst]
BY HandlerShape DEF Route, Scope, Shape

(* A bound instance makes, changes and ends objects of its account only.   *)
THEOREM Accounts == Spec => []StaysInAccount
<1>1. IInv => StaysInAccount
  <2> SUFFICES ASSUME IInv, NEW c \in Call, NEW o \in Object,
                      maker[o] = c \/ <<c, o>> \in acted,
                      Bound[req[c].inst] # Platform
               PROVE  rec[o].account = IF rec[o].kind = "account" THEN Platform
                                       ELSE Bound[req[c].inst]
    BY DEF StaysInAccount
  <2>1. CASE maker[o] = c
    <3>1. rec[o] = Made(req[c])
      BY <2>1, ObjectsAssumption DEF IInv, MadeOK
    <3> QED
      BY <3>1, RouteOfBound DEF Made
  <2>2. CASE <<c, o>> \in acted
    <3>1. rec[o].kind = Handler(req[c]).kind /\ rec[o].account = Route(req[c])
      BY <2>2 DEF IInv, ActedOK
    <3> QED
      BY <3>1, RouteOfBound
  <2> QED
    BY <2>1, <2>2
<1> QED
  BY <1>1, Invariant, PTL

(* A destroy that reports success leaves nothing behind. *)
THEOREM Destroyed == Spec => []DestroyedIsGone
<1>1. IInv => DestroyedIsGone
  <2> SUFFICES ASSUME IInv, NEW c \in Call, result[c].kind = "done",
                      req[c].op \in {"destroy_payment_intent", "destroy_customer",
                                     "destroy_subscription"},
                      "cancel_at_period_end" \notin DOMAIN req[c].in
               PROVE  req[c].id \in born \ live
    BY DEF DestroyedIsGone
  <2>1. Handler(req[c]).verb \in {"end", "delete"}
    BY DestroyVerb
  <2> QED
    BY <2>1 DEF IInv, DoneOK
<1> QED
  BY <1>1, Invariant, PTL

(* The documented inputs that a creation does not send are Dropped, and no *)
(* other.                                                                  *)
LEMMA DocumentedSent ==
    ASSUME NEW q \in Requests, Handler(q).verb = "create"
    PROVE  /\ DOMAIN q.in \ Dropped(Handler(q).kind) \subseteq Handler(q).sends
           /\ Handler(q).sends \intersect Dropped(Handler(q).kind) = {}
<1> DEFINE h == Handler(q)
<1>1. DOMAIN q.in \subseteq Documented(h.kind)
  BY ObjectsAssumption
<1>2. h \in {CreatePaymentIntent, CreateCustomer, CreateSubscription,
             CreateRefund, CreateSetupIntent, CreatePayout, ConnectCreate}
  BY DEF Handler, OnObject, ConfirmPaymentIntent, DestroyPaymentIntent,
         UpdateCustomer, DestroyCustomer, UpdateSubscription,
         CancelSubscription, ConnectGet, ConnectUpdate, ObserveById, Unsupported
<1>3. /\ Documented(h.kind) \ Dropped(h.kind) \subseteq h.sends
      /\ h.sends \intersect Dropped(h.kind) = {}
  <2>1. CASE h = CreatePaymentIntent
    BY <2>1 DEF CreatePaymentIntent, Creation, Documented, Dropped
  <2>2. CASE h = CreateCustomer
    BY <2>2 DEF CreateCustomer, Creation, Documented, Dropped
  <2>3. CASE h = CreateSubscription
    BY <2>3 DEF CreateSubscription, Creation, Documented, Dropped
  <2>4. CASE h = CreateRefund
    BY <2>4 DEF CreateRefund, Creation, Documented, Dropped
  <2>5. CASE h = CreateSetupIntent
    BY <2>5 DEF CreateSetupIntent, Creation, Documented, Dropped
  <2>6. CASE h = CreatePayout
    BY <2>6 DEF CreatePayout, Creation, Documented, Dropped
  <2>7. CASE h = ConnectCreate
    BY <2>7 DEF ConnectCreate, Creation, Documented, Dropped
  <2> QED
    BY <1>2, <2>1, <2>2, <2>3, <2>4, <2>5, <2>6, <2>7
<1> QED
  BY <1>1, <1>3

(* A creation sends its whole input but what is Dropped. *)
LEMMA AllSent ==
    ASSUME NEW q \in Requests, Handler(q).verb = "create"
    PROVE  Chosen(q, Handler(q).sends)
             = Chosen(q, DOMAIN Input(q) \ Dropped(Handler(q).kind))
<1>1. DOMAIN Handler(q).fills \subseteq Handler(q).sends
  BY HandlerShape DEF Shape
<1>2. DOMAIN Input(q) = DOMAIN q.in \union DOMAIN Handler(q).fills
  BY DEF Input
<1>3. Handler(q).sends \intersect DOMAIN Input(q)
        = (DOMAIN Input(q) \ Dropped(Handler(q).kind)) \intersect DOMAIN Input(q)
  BY <1>1, <1>2, DocumentedSent
<1> QED
  BY <1>3 DEF Chosen

(* Whoever is answered with an object asked for precisely that object,     *)
(* although its key names few of the fields, save for the inputs that the  *)
(* handler never reads.                                                    *)
THEOREM OwnIntent == Spec => []AnswersOwnIntent
<1>1. IInv => AnswersOwnIntent
  <2> SUFFICES ASSUME IInv, NEW c \in Call, result[c].kind = "done", Creates(c)
               PROVE  /\ result[c].id \in born
                      /\ rec[result[c].id] =
                           [kind |-> Handler(req[c]).kind,
                            account |-> Route(req[c]),
                            fields |-> Chosen(req[c], DOMAIN Input(req[c])
                                              \ Dropped(Handler(req[c]).kind))]
    BY DEF AnswersOwnIntent
  <2> DEFINE o == result[c].id
  <2>1. PICK d \in Call : /\ Sent(req[d]) = Sent(req[c])
                          /\ o \in born /\ maker[o] = d
    BY DEF IInv, DoneOK
  <2>2. rec[o] = Made(req[d])
    BY <2>1, ObjectsAssumption DEF IInv, TypeOK, MadeOK
  <2>3. Made(req[d]) = Made(req[c])
    BY <2>1, SentAlike DEF Made
  <2>4. Chosen(req[c], Handler(req[c]).sends)
          = Chosen(req[c], DOMAIN Input(req[c]) \ Dropped(Handler(req[c]).kind))
    BY AllSent DEF IInv, TypeOK, Creates
  <2> QED
    BY <2>1, <2>2, <2>3, <2>4 DEF Made
<1> QED
  BY <1>1, Invariant, PTL

-----------------------------------------------------------------------------
(* The refinement of KeyedCalls *)

IntentOf == [c \in Call |-> IF pc[c] = "idle" THEN {} ELSE {Sent(req[c])}]
ToldTo == [c \in Call |-> IF pc[c] # "done" THEN "nothing"
                          ELSE IF result[c].kind = "done" THEN "done"
                               ELSE "not done"]

(* The intents stay when no call begins. *)
LEMMA IntentKept ==
    ASSUME TypeOK, Keeps, \A d \in Call : pc[d] = "idle" => pc'[d] = "idle"
    PROVE  IntentOf' = IntentOf
BY DEF IntentOf, Keeps

(* What was told stays when no call ends. *)
LEMMA ToldKept ==
    ASSUME TypeOK, TypeOK', Keeps, \A d \in Call : pc'[d] = "done" => pc[d] = "done"
    PROVE  ToldTo' = ToldTo
BY DEF ToldTo, Keeps

(* The call that ends is the one that is told. *)
LEMMA ToldOne ==
    ASSUME TypeOK, TypeOK', Keeps, NEW c \in Call, pc'[c] = "done",
           \A d \in Call \ {c} : pc'[d] = "done" => pc[d] = "done"
    PROVE  ToldTo' = [ToldTo EXCEPT ![c] = IF result'[c].kind = "done" THEN "done"
                                          ELSE "not done"]
<1>1. \A d \in Call \ {c} : ToldTo'[d] = ToldTo[d]
  BY DEF ToldTo, Keeps
<1>2. ToldTo'[c] = IF result'[c].kind = "done" THEN "done" ELSE "not done"
  BY DEF ToldTo
<1>3. DOMAIN ToldTo = Call /\ DOMAIN ToldTo' = Call
  BY DEF ToldTo
<1>4. ToldTo = [d \in Call |-> ToldTo[d]] /\ ToldTo' = [d \in Call |-> ToldTo'[d]]
  BY DEF ToldTo
<1> QED
  BY <1>1, <1>2, <1>3, <1>4

(* A call that waits has an intent and was told nothing. *)
LEMMA Waits ==
    ASSUME NEW c \in Call, pc[c] = "sending"
    PROVE  IntentOf[c] # {} /\ ToldTo[c] = "nothing"
BY DEF IntentOf, ToldTo

(* The initial states are those of KeyedCalls. *)
LEMMA PromiseInit == Init => Promise!Init
BY DEF Init, Promise!Init

(* Every step is a step of KeyedCalls, or none. *)
LEMMA PromiseStep == IInv /\ [Next]_vars => [Promise!Next]_(Promise!vars)
<1> SUFFICES ASSUME IInv, [Next]_vars PROVE [Promise!Next]_(Promise!vars)
  OBVIOUS
<1>0. TypeOK /\ TypeOK' /\ Keeps
  BY TypeStep, KeepsStep DEF IInv
<1>1. ASSUME NEW c \in Call, NEW q \in Requests, Begin(c, q) PROVE [Promise!Next]_(Promise!vars)
  <2>1. /\ pc[c] = "idle" /\ pc'[c] # "idle" /\ req' = [req EXCEPT ![c] = q]
        /\ \A d \in Call \ {c} : pc'[d] = pc[d]
        /\ times' = times
        /\ pc'[c] = "done" => result'[c].kind # "done"
    BY <1>1, <1>0 DEF Begin, Finish, TypeOK, stripe
  <2>2. IntentOf[c] = {}
    BY <2>1 DEF IntentOf
  <2>3. IntentOf' = [IntentOf EXCEPT ![c] = {Sent(q)}]
    BY <1>0, <2>1 DEF IntentOf, TypeOK
  <2>4. ToldTo' \in {ToldTo, [ToldTo EXCEPT ![c] = "not done"]}
    <3>1. CASE pc'[c] = "done"
      BY <1>0, <2>1, <3>1, ToldOne
    <3>2. CASE pc'[c] # "done"
      BY <1>0, <2>1, <3>2, ToldKept
    <3> QED
      BY <3>1, <3>2
  <2>5. Promise!Ask(c)
    BY <2>1, <2>2, <2>3, <2>4 DEF Promise!Ask, IntentOf, ToldTo
  <2> QED
    BY <2>5 DEF Promise!Next
<1>2. ASSUME NEW c \in Call, Replay(c) PROVE [Promise!Next]_(Promise!vars)
  <2>1. /\ pc[c] = "sending" /\ pc'[c] = "done"
        /\ \A d \in Call \ {c} : pc'[d] = pc[d]
        /\ times' = times /\ req' = req
    BY <1>2, <1>0 DEF Replay, Sending, Finish, TypeOK, stripe
  <2>2. IntentOf' = IntentOf /\ IntentOf[c] # {} /\ ToldTo[c] = "nothing"
    BY <1>0, <2>1, IntentKept, Waits
  <2>3. CASE result'[c].kind # "done"
    <3>1. ToldTo' = [ToldTo EXCEPT ![c] = "not done"]
      BY <1>0, <2>1, <2>3, ToldOne
    <3>2. Promise!TellNotDone(c)
      BY <2>1, <2>2, <3>1 DEF Promise!TellNotDone, IntentOf, ToldTo
    <3> QED
      BY <3>2 DEF Promise!Next
  <2>4. CASE result'[c].kind = "done"
    <3>1. PICK d \in Call : /\ pc'[d] # "idle" /\ times'[d] # 0
                            /\ Sent(req'[d]) = Sent(req'[c])
      <4>1. DoneOK(c)'
        BY DoneStep
      <4> QED
        BY <2>4, <4>1 DEF DoneOK
    <3>2. pc[d] # "idle" /\ times[d] > 0
      BY <1>0, <2>1, <3>1 DEF TypeOK
    <3>3. IntentOf[d] = IntentOf[c]
      BY <2>1, <3>1, <3>2 DEF IntentOf
    <3>4. ToldTo' = [ToldTo EXCEPT ![c] = "done"]
      BY <1>0, <2>1, <2>4, ToldOne
    <3>5. Promise!TellDone(c)
      BY <2>1, <2>2, <3>2, <3>3, <3>4 DEF Promise!TellDone, IntentOf, ToldTo
    <3> QED
      BY <3>5 DEF Promise!Next
  <2> QED
    BY <2>3, <2>4
<1>3. ASSUME NEW c \in Call, NEW o \in Object, Create(c, o) PROVE [Promise!Next]_(Promise!vars)
  <2>1. pc[c] = "sending" /\ times[c] = 0
    BY <1>3, NotTwice DEF Create, Sending
  <2>2. times' = [times EXCEPT ![c] = 1]
    BY <1>3, <2>1 DEF Create
  <2>3. IntentOf' = IntentOf /\ IntentOf[c] # {} /\ ToldTo[c] = "nothing"
    <3>1. \A d \in Call : pc[d] = "idle" => pc'[d] = "idle"
      BY <1>3, <1>0, <2>1 DEF Create, Answer, Finish, TypeOK
    <3> QED
      BY <1>0, <2>1, <3>1, IntentKept, Waits
  <2>4. ToldTo' \in {ToldTo, [ToldTo EXCEPT ![c] = "done"]}
    <3>1. CASE Finish(c, "done", o)
      BY <1>0, <3>1, ToldOne DEF Finish, TypeOK
    <3>2. CASE UNCHANGED <<pc, result>>
      BY <1>0, <3>2, ToldKept
    <3> QED
      BY <1>3, <3>1, <3>2 DEF Create, Answer
  <2>5. Promise!CarryOut(c)
    BY <2>1, <2>2, <2>3, <2>4 DEF Promise!CarryOut, IntentOf, ToldTo
  <2> QED
    BY <2>5 DEF Promise!Next
<1>4. ASSUME NEW c \in Call, NEW o \in Object, Change(c, o) PROVE [Promise!Next]_(Promise!vars)
  <2>1. pc[c] = "sending" /\ times[c] = 0
    BY <1>4, NotTwice DEF Change, Sending
  <2>2. times' = [times EXCEPT ![c] = 1]
    BY <1>4, <2>1 DEF Change
  <2>3. IntentOf' = IntentOf /\ IntentOf[c] # {} /\ ToldTo[c] = "nothing"
    <3>1. \A d \in Call : pc[d] = "idle" => pc'[d] = "idle"
      BY <1>4, <1>0, <2>1 DEF Change, Answer, Finish, TypeOK
    <3> QED
      BY <1>0, <2>1, <3>1, IntentKept, Waits
  <2>4. ToldTo' \in {ToldTo, [ToldTo EXCEPT ![c] = "done"]}
    <3>1. CASE Finish(c, "done", o)
      BY <1>0, <3>1, ToldOne DEF Finish, TypeOK
    <3>2. CASE UNCHANGED <<pc, result>>
      BY <1>0, <3>2, ToldKept
    <3> QED
      BY <1>4, <3>1, <3>2 DEF Change, Answer
  <2>5. Promise!CarryOut(c)
    BY <2>1, <2>2, <2>3, <2>4 DEF Promise!CarryOut, IntentOf, ToldTo
  <2> QED
    BY <2>5 DEF Promise!Next
<1>5. ASSUME NEW c \in Call, NEW o \in Object, Delete(c, o) PROVE [Promise!Next]_(Promise!vars)
  <2>1. pc[c] = "sending" /\ times[c] = 0
    BY <1>5, NotTwice DEF Delete, Sending, Reaches
  <2>2. times' = [times EXCEPT ![c] = 1]
    BY <1>5, <2>1 DEF Delete
  <2>3. IntentOf' = IntentOf /\ IntentOf[c] # {} /\ ToldTo[c] = "nothing"
    <3>1. \A d \in Call : pc[d] = "idle" => pc'[d] = "idle"
      BY <1>5, <1>0, <2>1 DEF Delete, Answer, Finish, TypeOK
    <3> QED
      BY <1>0, <2>1, <3>1, IntentKept, Waits
  <2>4. ToldTo' \in {ToldTo, [ToldTo EXCEPT ![c] = "done"]}
    <3>1. CASE Finish(c, "done", o)
      BY <1>0, <3>1, ToldOne DEF Finish, TypeOK
    <3>2. CASE UNCHANGED <<pc, result>>
      BY <1>0, <3>2, ToldKept
    <3> QED
      BY <1>5, <3>1, <3>2 DEF Delete, Answer
  <2>5. Promise!CarryOut(c)
    BY <2>1, <2>2, <2>3, <2>4 DEF Promise!CarryOut, IntentOf, ToldTo
  <2> QED
    BY <2>5 DEF Promise!Next
<1>6. ASSUME NEW c \in Call, Decline(c) PROVE [Promise!Next]_(Promise!vars)
  <2>1. pc[c] = "sending" /\ times' = times
    BY <1>6 DEF Decline, Sending
  <2>2. CASE Finish(c, "declined", NoObject)
    <3>1. /\ pc'[c] = "done" /\ result'[c].kind # "done"
          /\ \A d \in Call \ {c} : pc'[d] = pc[d]
      BY <1>0, <2>2 DEF Finish, TypeOK
    <3>2. IntentOf' = IntentOf /\ IntentOf[c] # {} /\ ToldTo[c] = "nothing"
      BY <1>0, <2>1, <3>1, IntentKept, Waits
    <3>3. ToldTo' = [ToldTo EXCEPT ![c] = "not done"]
      BY <1>0, <3>1, ToldOne
    <3>4. Promise!TellNotDone(c)
      BY <2>1, <3>2, <3>3 DEF Promise!TellNotDone, IntentOf, ToldTo
    <3> QED
      BY <3>4 DEF Promise!Next
  <2>3. CASE UNCHANGED <<pc, result>>
    <3>1. IntentOf' = IntentOf /\ ToldTo' = ToldTo
      BY <1>0, <2>3, IntentKept, ToldKept
    <3> QED
      BY <2>1, <3>1 DEF Promise!vars, IntentOf, ToldTo
  <2> QED
    BY <1>6, <2>2, <2>3 DEF Decline, Answer
<1>7. ASSUME NEW c \in Call, Absent(c) PROVE [Promise!Next]_(Promise!vars)
  <2>1. /\ pc[c] = "sending" /\ pc'[c] = "done" /\ result'[c].kind # "done"
        /\ \A d \in Call \ {c} : pc'[d] = pc[d]
        /\ times' = times
    BY <1>7, <1>0 DEF Absent, Sending, Finish, TypeOK, stripe
  <2>2. IntentOf' = IntentOf /\ IntentOf[c] # {} /\ ToldTo[c] = "nothing"
    BY <1>0, <2>1, IntentKept, Waits
  <2>3. ToldTo' = [ToldTo EXCEPT ![c] = "not done"]
    BY <1>0, <2>1, ToldOne
  <2>4. Promise!TellNotDone(c)
    BY <2>1, <2>2, <2>3 DEF Promise!TellNotDone, IntentOf, ToldTo
  <2> QED
    BY <2>4 DEF Promise!Next
<1>8. ASSUME NEW c \in Call, Read(c) PROVE [Promise!Next]_(Promise!vars)
  <2>1. /\ pc[c] = "sending" /\ pc'[c] = "done" /\ result'[c].kind # "done"
        /\ \A d \in Call \ {c} : pc'[d] = pc[d]
        /\ times' = times
    BY <1>8, <1>0 DEF Read, Sending, Finish, TypeOK, stripe
  <2>2. IntentOf' = IntentOf /\ IntentOf[c] # {} /\ ToldTo[c] = "nothing"
    BY <1>0, <2>1, IntentKept, Waits
  <2>3. ToldTo' = [ToldTo EXCEPT ![c] = "not done"]
    BY <1>0, <2>1, ToldOne
  <2>4. Promise!TellNotDone(c)
    BY <2>1, <2>2, <2>3 DEF Promise!TellNotDone, IntentOf, ToldTo
  <2> QED
    BY <2>4 DEF Promise!Next
<1>9. ASSUME NEW c \in Call, Fail(c) PROVE [Promise!Next]_(Promise!vars)
  <2>1. /\ pc[c] = "sending" /\ pc'[c] = "done" /\ result'[c].kind # "done"
        /\ \A d \in Call \ {c} : pc'[d] = pc[d]
        /\ times' = times
    BY <1>9, <1>0 DEF Fail, Sending, Finish, TypeOK, stripe
  <2>2. IntentOf' = IntentOf /\ IntentOf[c] # {} /\ ToldTo[c] = "nothing"
    BY <1>0, <2>1, IntentKept, Waits
  <2>3. ToldTo' = [ToldTo EXCEPT ![c] = "not done"]
    BY <1>0, <2>1, ToldOne
  <2>4. Promise!TellNotDone(c)
    BY <2>1, <2>2, <2>3 DEF Promise!TellNotDone, IntentOf, ToldTo
  <2> QED
    BY <2>4 DEF Promise!Next
<1>10. ASSUME NEW o \in Object, DashboardDelete(o) PROVE [Promise!Next]_(Promise!vars)
  <2>1. IntentOf' = IntentOf /\ ToldTo' = ToldTo /\ times' = times
    BY <1>10, <1>0, IntentKept, ToldKept DEF DashboardDelete
  <2> QED
    BY <2>1 DEF Promise!vars, IntentOf, ToldTo
<1>11. ASSUME NEW s \in saved, Forget(s) PROVE [Promise!Next]_(Promise!vars)
  <2>1. IntentOf' = IntentOf /\ ToldTo' = ToldTo /\ times' = times
    BY <1>11, <1>0, IntentKept, ToldKept DEF Forget
  <2> QED
    BY <2>1 DEF Promise!vars, IntentOf, ToldTo
<1>12. ASSUME UNCHANGED vars PROVE [Promise!Next]_(Promise!vars)
  <2>1. IntentOf' = IntentOf /\ ToldTo' = ToldTo /\ times' = times
    BY <1>12, <1>0, IntentKept, ToldKept DEF vars
  <2> QED
    BY <2>1 DEF Promise!vars, IntentOf, ToldTo
<1> QED
  BY <1>1, <1>2, <1>3, <1>4, <1>5, <1>6, <1>7, <1>8, <1>9, <1>10, <1>11, <1>12 DEF Next, Step

(* The calls keep the promise of KeyedCalls: each is carried out at most   *)
(* once and is told that it is done only when its intent was carried out.  *)
THEOREM Refinement == Spec => KeyedCallsPromise
<1> QED
  BY PromiseInit, PromiseStep, Invariant, PTL DEF Spec, KeyedCallsPromise, Promise!Spec

-----------------------------------------------------------------------------
(* What they keep with it. *)

Promised == INSTANCE KeyedCallsProofs WITH
    Intent <- {{Sent(q)} : q \in Requests}, NoIntent <- {},
    intent <- IntentOf, carried <- times, told <- ToldTo

(* It is the promise KeyedCallsProofs is about, and no intent is empty.    *)
LEMMA SamePromise == KeyedCallsPromise => Promised!Spec
<1>1. Promise!Init <=> Promised!Init
  BY DEF Promise!Init, Promised!Init, IntentOf, ToldTo
<1>2. Promise!Next <=> Promised!Next
  BY DEF Promise!Next, Promised!Next, Promise!Ask, Promised!Ask,
         Promise!CarryOut, Promised!CarryOut, Promise!TellDone, Promised!TellDone,
         Promise!TellNotDone, Promised!TellNotDone, IntentOf, ToldTo
<1>3. [Promise!Next]_(Promise!vars) <=> [Promised!Next]_(Promised!vars)
  BY <1>2 DEF Promise!vars, Promised!vars, IntentOf, ToldTo
<1> QED
  BY <1>1, <1>3, PTL DEF KeyedCallsPromise, Promise!Spec, Promised!Spec

LEMMA ProperHere == Promised!Proper
BY DEF Promised!Proper

(* Hence Stripe carries a call out at most once, however often it is sent, *)
(* and who is told that it is done has a call of that intent that was.     *)
THEOREM PromiseKept == Spec => [](Promised!DoneOnce /\ Promised!ToldTruly)
BY Refinement, SamePromise, ProperHere, Promised!KeyedSound, PTL
=============================================================================
