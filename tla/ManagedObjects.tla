--------------------------- MODULE ManagedObjects ---------------------------
(***************************************************************************)
(* The operations of providers/stripe/adapter/adapter.go and connect.go on *)
(* payment intents, customers, subscriptions, refunds, setup intents,      *)
(* payouts and connected accounts.                                         *)
(*                                                                         *)
(* Each is a call of one request to Stripe, most of them under an          *)
(* idempotency key that names some of the fields it sends.  What tells the *)
(* operations apart is data, so that a handler is a record and the actions *)
(* below are those of every handler.  Calls interleave, a response may be  *)
(* lost and stripe-go then sends the request again.                        *)
(*                                                                         *)
(* Stripe is external and modelled as the adapter uses it: objects scoped  *)
(* by account, and for every idempotency key the parameters and the        *)
(* response of its first execution, kept for a day.                        *)
(***************************************************************************)
EXTENDS Integers, FiniteSets

CONSTANTS
    Call,        \* identities of calls of the adapter, each used once
    Instance,    \* integration instances
    Account,     \* connected Stripe accounts
    Platform,    \* the platform account: no Stripe-Account header
    Object,      \* ids of objects, never used twice by Stripe
    NoObject,
    Standing,    \* kind and account of the objects older than any call
    Outside,     \* their maker
    Touched,     \* the objects people at the dashboard may delete
    CallerKey,   \* idempotency keys callers choose
    NoKey,
    Bound,       \* stripe_account_id of each instance, or Platform
    Requests     \* the requests callers may send

Scopes == Account \union {Platform}

VARIABLES
    \* Stripe:
    born,    \* the objects that exist or existed
    live,    \* those neither deleted nor cancelled
    rec,     \* what each was made as
    saved,   \* the responses kept for idempotency keys
    \* The calls:
    pc,      \* where each call is
    req,     \* what it was asked
    result,  \* how it ended, and for which object
    \* History, which no step reads:
    maker,   \* the call that made each object
    before,  \* the calls that were over when each object was made
    times,   \* how often Stripe carried out the request of each call
    acted    \* <<c, o>>: call c changed or ended o

stripe == <<born, live, rec, saved, maker, before, times, acted>>
vars == <<born, live, rec, saved, pc, req, result, maker, before, times, acted>>

-----------------------------------------------------------------------------
(* The handlers: what each makes of a request *)

NoFill == [f \in {} |-> "nothing"]

(* A creation under the key that names these fields; it sends more, and    *)
(* needs one field of each of these sets.                                  *)
Creation(kind, named, more, needs) ==
    [kind |-> kind, verb |-> "create", as |-> "create", named |-> named,
     sends |-> named \union more, needs |-> needs, fills |-> NoFill,
     heedsKey |-> TRUE, routed |-> TRUE]

(* A POST on an object, or its DELETE; the caller's key is not asked for.  *)
OnObject(kind, verb, as, named, more) ==
    [kind |-> kind, verb |-> verb, as |-> as, named |-> named,
     sends |-> named \union more, needs |-> {}, fills |-> NoFill,
     heedsKey |-> FALSE, routed |-> TRUE]

CreatePaymentIntent ==
    Creation("payment_intent", {"amount", "currency", "customer"},
             {"payment_method", "confirm"}, {{"amount"}, {"currency"}})

ConfirmPaymentIntent ==
    [OnObject("payment_intent", "change", "confirm", {},
              {"payment_method", "return_url"}) EXCEPT !.heedsKey = TRUE]

DestroyPaymentIntent ==
    OnObject("payment_intent", "end", "cancel", {}, {"cancellation_reason"})

MutCreateCustomer ==
    Creation("customer", {"email"}, {"phone", "metadata"}, {{"email"}})
CreateCustomer ==
    Creation("customer", {"email"}, {"name", "phone", "metadata"}, {{"email"}})

UpdateCustomer ==
    OnObject("customer", "change", "update", {"email", "name", "phone"},
             {"metadata"})

DestroyCustomer == OnObject("customer", "delete", "delete", {}, {})

CreateSubscription ==
    [Creation("subscription", {"customer"},
              {"items", "payment_behavior", "trial_end", "metadata"},
              {{"customer"}, {"items"}})
        EXCEPT !.fills = [payment_behavior |-> "default_incomplete"]]

(* For ensure with an id, and for destroy at the end of the period. *)
UpdateSubscription ==
    OnObject("subscription", "change", "update", {}, {"cancel_at_period_end"})

MutCancelSubscription ==
    OnObject("subscription", "change", "cancel", {}, {})
(* A DELETE, whose key Stripe does not heed. *)
CancelSubscription == OnObject("subscription", "delete", "delete", {}, {})

MutCreateRefund ==
    [Creation("refund", {"charge", "amount"},
              {"payment_intent", "reason", "metadata"},
              {{"charge", "payment_intent"}}) EXCEPT !.heedsKey = FALSE]
CreateRefund ==
    Creation("refund", {"charge", "amount"},
             {"payment_intent", "reason", "metadata"},
             {{"charge", "payment_intent"}})

CreateSetupIntent ==
    [Creation("setup_intent", {"customer"},
              {"usage", "payment_method", "metadata"}, {})
        EXCEPT !.fills = [usage |-> "off_session"]]

(* Its key names the account too, within which keys are scoped anyway.     *)
CreatePayout ==
    [Creation("payout", {"amount", "currency"}, {"method", "metadata"},
              {{"amount"}, {"currency"}})
        EXCEPT !.fills = [method |-> "standard"]]

(* Connected accounts belong to the platform: no request of theirs is      *)
(* routed to the account of the instance.                                  *)
ConnectCreate ==
    [Creation("account", {"email", "country"}, {"type"}, {})
        EXCEPT !.fills = [country |-> "BR", type |-> "express"],
               !.heedsKey = FALSE, !.routed = FALSE]

ConnectGet ==
    [OnObject("account", "read", "get", {}, {}) EXCEPT !.routed = FALSE]

(* Without a key of its own: stripe-go makes up one for each request.      *)
ConnectUpdate ==
    [OnObject("account", "change", "unkeyed", {}, {"email"})
        EXCEPT !.routed = FALSE]

ObserveById(kind) == OnObject(kind, "read", "retrieve", {}, {})

(* What manage_connect_account does not know how to do. *)
Unsupported == [ConnectGet EXCEPT !.verb = "none"]

Handler(q) ==
    CASE q.op = "ensure_payment_intent" ->
            IF q.id = NoObject THEN CreatePaymentIntent
                               ELSE ConfirmPaymentIntent
      [] q.op = "destroy_payment_intent" -> DestroyPaymentIntent
      [] q.op = "ensure_customer" ->
            IF q.id = NoObject THEN CreateCustomer ELSE UpdateCustomer
      [] q.op = "destroy_customer" -> DestroyCustomer
      [] q.op = "ensure_subscription" ->
            IF q.id = NoObject THEN CreateSubscription ELSE UpdateSubscription
      [] q.op = "destroy_subscription" ->
            IF "cancel_at_period_end" \in DOMAIN q.in
            THEN UpdateSubscription ELSE CancelSubscription
      [] q.op = "create_refund" -> CreateRefund
      [] q.op = "create_setup_intent" -> CreateSetupIntent
      [] q.op = "create_payout" -> CreatePayout
      [] q.op = "manage_connect_account/create" -> ConnectCreate
      [] q.op = "manage_connect_account/get" -> ConnectGet
      [] q.op = "manage_connect_account/update" -> ConnectUpdate
      [] q.op = "observe_payment_intents" -> ObserveById("payment_intent")
      [] q.op = "observe_customers" -> ObserveById("customer")
      [] q.op = "observe_subscriptions" -> ObserveById("subscription")
      [] OTHER -> Unsupported

(* The inputs a caller may give with a creation, besides the account and   *)
(* the key: those docs/CAPABILITIES.md lists.                              *)
Documented(kind) ==
    CASE kind = "payment_intent" ->
            {"amount", "currency", "customer", "payment_method", "confirm",
             "payment_method_types", "capture_method", "setup_future_usage",
             "return_url", "metadata"}
      [] kind = "customer" -> {"email", "name", "phone", "metadata"}
      [] kind = "subscription" ->
            {"customer", "items", "payment_behavior", "trial_end",
             "cancel_at_period_end", "metadata"}
      [] kind = "refund" ->
            {"charge", "payment_intent", "amount", "reason", "metadata"}
      [] kind = "setup_intent" ->
            {"customer", "payment_method", "payment_method_types", "usage",
             "metadata"}
      [] kind = "payout" -> {"amount", "currency", "method", "metadata"}
      [] kind = "account" ->
            {"email", "country", "type", "capabilities", "metadata"}

(* Those among them that the handler of the creation never reads.          *)
Dropped(kind) ==
    CASE kind = "payment_intent" ->
            {"payment_method_types", "capture_method", "setup_future_usage",
             "return_url", "metadata"}
      [] kind = "subscription" -> {"cancel_at_period_end"}
      [] kind = "setup_intent" -> {"payment_method_types"}
      [] kind = "account" -> {"capabilities", "metadata"}
      [] OTHER -> {}

-----------------------------------------------------------------------------
(* What a handler sends *)

(* The account a call works in: the bound one of the instance, if any.     *)
MutScope(q) == q.account
Scope(q) == IF Bound[q.inst] # Platform THEN Bound[q.inst] ELSE q.account

(* The account the request is sent to. *)
Route(q) == IF Handler(q).routed THEN Scope(q) ELSE Platform

(* The caller's input with the defaults of the handler. *)
Input(q) ==
    LET fills == Handler(q).fills IN
    [f \in DOMAIN q.in \union DOMAIN fills |->
        IF f \in DOMAIN q.in THEN q.in[f] ELSE fills[f]]

Chosen(q, fields) == [f \in fields \intersect DOMAIN Input(q) |-> Input(q)[f]]

Sent(q) ==
    [kind |-> Handler(q).kind, as |-> Handler(q).as, account |-> Route(q),
     id |-> q.id, fields |-> Chosen(q, Handler(q).sends)]

(* idempotencyKeyOrDerived; the hash of the fields stands for the fields.  *)
KeyFor(c, q) ==
    LET h == Handler(q) IN
    CASE h.heedsKey /\ q.key # NoKey ->
            [of |-> <<"caller">>, id |-> NoObject, fields |-> q.key]
      [] ~(h.heedsKey /\ q.key # NoKey) /\ h.as # "unkeyed" ->
            [of |-> <<h.as, h.kind>>, id |-> q.id,
             fields |-> Chosen(q, h.named)]
      [] ~(h.heedsKey /\ q.key # NoKey) /\ h.as = "unkeyed" ->
            [of |-> <<"stripe-go">>, id |-> NoObject, fields |-> c]

MutKey(c) ==
    [of |-> <<"stripe-go">>, id |-> NoObject, fields |-> <<c, times[c]>>]
(* The key is computed before the request is first sent, and kept.         *)
Key(c) == KeyFor(c, req[c])

Posts == {"create", "change", "end"}

-----------------------------------------------------------------------------
(* What calls and objects are made of *)

Op == {"ensure_payment_intent", "destroy_payment_intent", "ensure_customer",
       "destroy_customer", "ensure_subscription", "destroy_subscription",
       "create_refund", "create_setup_intent", "create_payout",
       "manage_connect_account/create", "manage_connect_account/get",
       "manage_connect_account/update", "manage_connect_account/other",
       "observe_payment_intents", "observe_customers", "observe_subscriptions"}
Outcome == {"none", "refused", "done", "found", "conflict", "declined",
            "absent", "error"}

(* An object as it was made: what was sent, or what stood there before.    *)
Made(q) == [kind |-> Handler(q).kind, account |-> Route(q),
            fields |-> Chosen(q, Handler(q).sends)]
Stood(o) == [kind |-> Standing[o].kind, account |-> Standing[o].account,
             fields |-> NoFill]
Blank == [kind |-> "none", account |-> Platform, fields |-> NoFill]
Content == {Made(q) : q \in Requests} \union {Stood(o) : o \in DOMAIN Standing}
           \union {Blank}

ASSUME ObjectsAssumption ==
    /\ Platform \notin Account
    /\ NoObject \notin Object
    /\ Outside \notin Call
    /\ NoKey \notin CallerKey
    /\ DOMAIN Standing \subseteq Object
    /\ \A o \in DOMAIN Standing : Standing[o].account \in Scopes
    /\ Bound \in [Instance -> Scopes]
    /\ Requests # {}
    /\ \A q \in Requests :
          /\ q.op \in Op
          /\ q.inst \in Instance
          /\ q.account \in Scopes
          /\ q.id \in Object \union {NoObject}
          /\ q.key \in CallerKey \union {NoKey}
          /\ Handler(q).verb = "create" =>
                DOMAIN q.in \subseteq Documented(Handler(q).kind)

Init ==
    /\ born = DOMAIN Standing
    /\ live = DOMAIN Standing
    /\ rec = [o \in Object |-> IF o \in DOMAIN Standing THEN Stood(o)
                                                        ELSE Blank]
    /\ saved = {}
    /\ pc = [c \in Call |-> "idle"]
    /\ req = [c \in Call |-> CHOOSE q \in Requests : TRUE]
    /\ result = [c \in Call |-> [kind |-> "none", id |-> NoObject]]
    /\ maker = [o \in Object |-> Outside]
    /\ before = [o \in Object |-> {}]
    /\ times = [c \in Call |-> 0]
    /\ acted = {}

-----------------------------------------------------------------------------
(* Receiving a request *)

(* The account conflicts with the binding, the operation is none, or what  *)
(* it needs is missing: an id for every handler but the creations.         *)
Refused(q) ==
    \/ Bound[q.inst] # Platform /\ q.account \notin {Platform, Bound[q.inst]}
    \/ Handler(q).verb = "none"
    \/ Handler(q).verb # "create" /\ q.id = NoObject
    \/ \E one \in Handler(q).needs : one \intersect DOMAIN q.in = {}

Finish(c, kind, o) ==
    /\ pc' = [pc EXCEPT ![c] = "done"]
    /\ result' = [result EXCEPT ![c] = [kind |-> kind, id |-> o]]

Begin(c, q) ==
    /\ pc[c] = "idle"
    /\ req' = [req EXCEPT ![c] = q]
    /\ \/ Refused(q) /\ Finish(c, "refused", NoObject)
       \/ ~Refused(q) /\ pc' = [pc EXCEPT ![c] = "sending"] /\ UNCHANGED result
    /\ UNCHANGED stripe

-----------------------------------------------------------------------------
(* What Stripe makes of the request *)

Sending(c, verbs) == pc[c] = "sending" /\ Handler(req[c]).verb \in verbs

(* The object a request is about, if it is of its kind and account.        *)
Reaches(q, o) ==
    /\ q.id = o
    /\ o \in born
    /\ rec[o].kind = Handler(q).kind
    /\ rec[o].account = Route(q)

SavedFor(c) ==
    {s \in saved : s.key = Key(c) /\ s.sent.account = Route(req[c])}

Save(c, o, ok) ==
    saved' = saved \union
        {[key |-> Key(c), sent |-> Sent(req[c]), id |-> o, ok |-> ok, by |-> c,
          during |-> {d \in Call : pc[d] = "sending"}]}

(* The response arrives, or is lost and the request will be sent again.    *)
Answer(c, kind, o) ==
    \/ Finish(c, kind, o)
    \/ UNCHANGED <<pc, result>>

(* Stripe has seen the key: it answers what it answered then, or refuses   *)
(* the request when it is not the one it saw.                              *)
Replay(c) ==
    /\ Sending(c, Posts)
    /\ \E s \in SavedFor(c) :
          \/ s.sent = Sent(req[c]) /\ s.ok /\ Finish(c, "done", s.id)
          \/ s.sent = Sent(req[c]) /\ ~s.ok /\ Finish(c, "declined", NoObject)
          \/ s.sent # Sent(req[c]) /\ Finish(c, "conflict", NoObject)
    /\ UNCHANGED <<stripe, req>>

Create(c, o) ==
    /\ Sending(c, {"create"})
    /\ SavedFor(c) = {}
    /\ o \notin born
    /\ born' = born \union {o}
    /\ live' = live \union {o}
    /\ rec' = [rec EXCEPT ![o] = Made(req[c])]
    /\ maker' = [maker EXCEPT ![o] = c]
    /\ before' = [before EXCEPT ![o] = {d \in Call : pc[d] = "done"}]
    /\ times' = [times EXCEPT ![c] = @ + 1]
    /\ Save(c, o, TRUE)
    /\ Answer(c, "done", o)
    /\ UNCHANGED <<req, acted>>

(* An update, a confirmation, or the cancellation of a payment intent.     *)
Change(c, o) ==
    /\ Sending(c, {"change", "end"})
    /\ SavedFor(c) = {}
    /\ Reaches(req[c], o)
    /\ o \in live
    /\ live' = IF Handler(req[c]).verb = "end" THEN live \ {o} ELSE live
    /\ times' = [times EXCEPT ![c] = @ + 1]
    /\ acted' = acted \union {<<c, o>>}
    /\ Save(c, o, TRUE)
    /\ Answer(c, "done", o)
    /\ UNCHANGED <<born, rec, maker, before, req>>

(* A declined card, a state that forbids the request: Stripe keeps the     *)
(* refusal under the key as it keeps a success.                            *)
Decline(c) ==
    /\ Sending(c, Posts)
    /\ SavedFor(c) = {}
    /\ Save(c, NoObject, FALSE)
    /\ Answer(c, "declined", NoObject)
    /\ UNCHANGED <<born, live, rec, maker, before, times, acted, req>>

(* No key is heeded in a DELETE, so that the one sent with the           *)
(* cancellation of a subscription does nothing.                            *)
Delete(c, o) ==
    /\ Sending(c, {"delete"})
    /\ Reaches(req[c], o)
    /\ o \in live
    /\ live' = live \ {o}
    /\ times' = [times EXCEPT ![c] = @ + 1]
    /\ acted' = acted \union {<<c, o>>}
    /\ Answer(c, "done", o)
    /\ UNCHANGED <<born, rec, saved, maker, before, req>>

MutAbsent(c) ==
    LET o == req[c].id IN
    /\ \/ Sending(c, {"delete"})
       \/ Sending(c, {"change", "end"}) /\ SavedFor(c) = {}
    /\ ~(Reaches(req[c], o) /\ o \in live)
    /\ Finish(c, "already absent", NoObject)
    /\ UNCHANGED <<stripe, req>>

(* What is gone cannot be changed or deleted, and every handler passes the *)
(* 404 on: also to the call whose own DELETE was answered by a lost 200.   *)
Absent(c) ==
    LET o == req[c].id IN
    /\ \/ Sending(c, {"delete"})
       \/ Sending(c, {"change", "end"}) /\ SavedFor(c) = {}
    /\ ~(Reaches(req[c], o) /\ o \in live)
    /\ Finish(c, "absent", NoObject)
    /\ UNCHANGED <<stripe, req>>

(* What is deleted or cancelled can still be read. *)
Read(c) ==
    LET o == req[c].id IN
    /\ Sending(c, {"read"})
    /\ \/ Reaches(req[c], o) /\ Finish(c, "found", o)
       \/ ~Reaches(req[c], o) /\ Finish(c, "absent", NoObject)
    /\ UNCHANGED <<stripe, req>>

(* Denied, cancelled, out of retries. *)
Fail(c) ==
    /\ pc[c] = "sending"
    /\ Finish(c, "error", NoObject)
    /\ UNCHANGED <<stripe, req>>

-----------------------------------------------------------------------------
(* What others do *)

DashboardDelete(o) ==
    /\ o \in live \intersect Touched
    /\ live' = live \ {o}
    /\ UNCHANGED <<born, rec, saved, pc, req, result, maker, before, times, acted>>

(* Stripe forgets a response after a day, when every call that was under   *)
(* way as it was saved (thirty seconds at most) is over.                   *)
Forget(s) ==
    /\ \A c \in s.during : pc[c] = "done"
    /\ saved' = saved \ {s}
    /\ UNCHANGED <<born, live, rec, pc, req, result, maker, before, times, acted>>

Step(c) ==
    \/ Replay(c)
    \/ \E o \in Object : Create(c, o) \/ Change(c, o) \/ Delete(c, o)
    \/ Decline(c)
    \/ Absent(c)
    \/ Read(c)

Next ==
    \/ \E c \in Call :
          \/ \E q \in Requests : Begin(c, q)
          \/ Step(c)
          \/ Fail(c)
    \/ \E o \in Object : DashboardDelete(o)
    \/ \E s \in saved : Forget(s)

Spec == Init /\ [][Next]_vars

-----------------------------------------------------------------------------
(* Safety *)

TypeOK ==
    /\ born \subseteq Object
    /\ live \subseteq born
    /\ rec \in [Object -> Content]
    /\ \A s \in saved : /\ s.by \in Call
                        /\ s.id \in Object \union {NoObject}
                        /\ s.during \subseteq Call
                        /\ s.ok \in BOOLEAN
    /\ pc \in [Call -> {"idle", "sending", "done"}]
    /\ req \in [Call -> Requests]
    /\ result \in [Call -> [kind: Outcome, id: Object \union {NoObject}]]
    /\ maker \in [Object -> Call \union {Outside}]
    /\ before \in [Object -> SUBSET Call]
    /\ times \in [Call -> Nat]
    /\ acted \subseteq Call \X Object

Creates(c) == Handler(req[c]).verb = "create"

(* Two objects under one key, as of two equal orders of a customer, are of *)
(* calls that never met: one was over when the object of the other was     *)
(* made.  Concurrent copies of a step, and its retries, make one object.   *)
CopiesMakeOne ==
    \A o, p \in born :
        (/\ o # p
         /\ maker[o] # Outside /\ maker[p] # Outside
         /\ Key(maker[o]) = Key(maker[p])
         /\ rec[o].account = rec[p].account)
        => maker[o] \in before[p] \/ maker[p] \in before[o]

(* Whoever is answered with an object asked for precisely that object: of  *)
(* that kind, in that account, with these fields, although the key that    *)
(* found it names few of them.  Only the inputs its handler never reads    *)
(* may be missing from the object: exactly those of Dropped.               *)
AnswersOwnIntent ==
    \A c \in Call :
        (result[c].kind = "done" /\ Creates(c)) =>
            LET o == result[c].id
                q == req[c]
                kind == Handler(q).kind
            IN  /\ o \in born
                /\ rec[o] = [kind |-> kind, account |-> Route(q),
                             fields |-> Chosen(q, DOMAIN Input(q) \ Dropped(kind))]

(* An object a creation reports as done has every documented input the     *)
(* caller gave.                                                            *)
DocumentedInputsHeeded ==
    \A c \in Call :
        (result[c].kind = "done" /\ Creates(c)) =>
            rec[result[c].id].fields = Input(req[c])

(* A creation under a key of the caller's own is never refused for that    *)
(* key, and is answered with an object of its own: so that two equal       *)
(* refunds of one day are two.                                             *)
OwnKeySuffices ==
    \A c \in Call :
        (/\ pc[c] = "done"
         /\ Creates(c)
         /\ Handler(req[c]).kind # "account"
         /\ req[c].key # NoKey
         /\ \A d \in Call \ {c} : pc[d] = "idle" \/ req[d].key # req[c].key)
        => /\ result[c].kind # "conflict"
           /\ result[c].kind = "done" => maker[result[c].id] = c

(* A call of an instance bound to an account makes, changes and ends       *)
(* objects of that account only; connected accounts are the platform's.    *)
StaysInAccount ==
    \A c \in Call, o \in Object :
        (/\ maker[o] = c \/ <<c, o>> \in acted
         /\ Bound[req[c].inst] # Platform)
        => rec[o].account = IF rec[o].kind = "account" THEN Platform
                                                       ELSE Bound[req[c].inst]

(* A destroy that reports success leaves nothing behind, whether it did it *)
(* itself or was answered for another.                                     *)
DestroyedIsGone ==
    \A c \in Call :
        (/\ result[c].kind = "done"
         /\ req[c].op \in {"destroy_payment_intent", "destroy_customer",
                           "destroy_subscription"}
         /\ "cancel_at_period_end" \notin DOMAIN req[c].in)
        => req[c].id \in born \ live

(* A 404 is success to the delete of a customer or a subscription.         *)
AbsentIsSuccess ==
    \A c \in Call :
        (pc[c] = "done" /\ Handler(req[c]).verb = "delete")
        => result[c].kind # "absent"

(* Every call is carried out at most once and is told that it is done only *)
(* when its intent was carried out: lost responses, retries, shared keys   *)
(* and forgotten keys included.                                            *)
Promise == INSTANCE KeyedCalls WITH
    Intent <- {{Sent(q)} : q \in Requests},
    NoIntent <- {},
    intent <- [c \in Call |-> IF pc[c] = "idle" THEN {}
                                                ELSE {Sent(req[c])}],
    carried <- times,
    told <- [c \in Call |-> IF pc[c] # "done" THEN "nothing"
                            ELSE IF result[c].kind = "done" THEN "done"
                                 ELSE "not done"]

KeyedCallsPromise == Promise!Spec

-----------------------------------------------------------------------------
(* The inductive invariant behind the theorems of ManagedObjectsProofs.    *)

CallOK(c) ==
    /\ pc[c] = "idle" => times[c] = 0
    /\ pc[c] # "done" => result[c].kind = "none"
    /\ pc[c] = "sending" => ~Refused(req[c])

(* A call that was carried out and is still waiting for an answer will be  *)
(* answered from what was saved, or finds its object gone.                 *)
KeptOK(c) ==
    (pc[c] = "sending" /\ times[c] # 0) =>
        \/ /\ Handler(req[c]).verb \in Posts
           /\ \E s \in SavedFor(c) : c \in s.during
        \/ /\ Handler(req[c]).verb = "delete"
           /\ req[c].id \in born \ live

(* A saved success is that of the call that was carried out.               *)
SavedOK(s) ==
    /\ pc[s.by] # "idle"
    /\ Handler(req[s.by]).verb \in Posts
    /\ s.key = Key(s.by)
    /\ s.sent = Sent(req[s.by])
    /\ s.ok => /\ times[s.by] # 0
               /\ s.id \in born
               /\ Creates(s.by) => maker[s.id] = s.by
               /\ ~Creates(s.by) => s.id = req[s.by].id
               /\ Handler(req[s.by]).verb = "end" => s.id \notin live

MadeOK(o) ==
    maker[o] # Outside =>
        /\ o \in born
        /\ pc[maker[o]] # "idle"
        /\ times[maker[o]] # 0
        /\ Creates(maker[o])
        /\ rec[o] = Made(req[maker[o]])

ActedOK(c, o) ==
    <<c, o>> \in acted =>
        /\ o \in born
        /\ pc[c] # "idle"
        /\ rec[o].kind = Handler(req[c]).kind
        /\ rec[o].account = Route(req[c])

(* Who is told that it is done was told so of a call of its intent.        *)
DoneOK(c) ==
    result[c].kind = "done" =>
        \E d \in Call :
            /\ pc[d] # "idle"
            /\ times[d] # 0
            /\ Sent(req[d]) = Sent(req[c])
            /\ Creates(c) => result[c].id \in born /\ maker[result[c].id] = d
            /\ Handler(req[c]).verb \in {"end", "delete"} =>
                  req[c].id \in born \ live

IInv ==
    /\ TypeOK
    /\ \A c \in Call : CallOK(c)
    /\ \A c \in Call : times[c] <= 1
    /\ \A c \in Call : KeptOK(c)
    /\ \A s \in saved : SavedOK(s)
    /\ \A o \in Object : MadeOK(o)
    /\ \A c \in Call, o \in Object : ActedOK(c, o)
    /\ \A c \in Call : DoneOK(c)
    /\ CopiesMakeOne
    /\ OwnKeySuffices
=============================================================================
