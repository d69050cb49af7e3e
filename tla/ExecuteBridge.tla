--------------------------- MODULE ExecuteBridge ---------------------------
(***************************************************************************)
(* From an execute message to its answer: ExecuteHandler of message/, the  *)
(* reconcilers of reconcile.go, the names of spec.go and the dispatch of   *)
(* adapter.ExecuteContext and of onSurfaceQuery.                           *)
(*                                                                         *)
(* A message is decoded and its capability looked up.  Then the dispatcher *)
(* of the SDK gets it: an operation with a reconciler is rebuilt there     *)
(* from what the bridge stashed in the input, and runs without the context *)
(* of the caller; for every other one it reports an error, by whose text   *)
(* the bridge knows to run the switch of ExecuteContext itself.            *)
(*                                                                         *)
(* The SDK is external.  What an operation does at Stripe is the matter of *)
(* ManagedObjects and WebhookEndpoints: here it is carried out or not.     *)
(* Lists are read as in Listing, headers verified as in Signature, and the *)
(* instance of last resort is that of Configuration.                       *)
(***************************************************************************)
EXTENDS Listing, Signature, Configuration

CONSTANTS
    Platform,   \* the account of who names none
    NoCreds,
    Absent,     \* for an input without an instance_id
    Untrimmed,  \* names with blanks around them, and what Trim makes of them
    Requests    \* the messages that may arrive

ASSUME BridgeAssumption ==
    /\ Platform \in Scope
    /\ Absent \notin Nat
    /\ Requests # {}
    /\ \A q \in Requests :
          /\ q.inst \in Nat /\ q.ref \in Nat /\ q.limit \in Int
          /\ q.tol \in Word
          /\ Len(q.header) \in Nat /\ DOMAIN q.header = 1 .. Len(q.header)
          /\ {q.bound, q.account, q.elsewhere} \subseteq Scope
          /\ q.after \in Id \union {Top}

Call == Reader

VARIABLES
    phase,      \* where each call is
    ask,        \* its message
    by,         \* who runs it: a reconciler or the switch
    job,        \* the request rebuilt for ExecuteContext
    answer,     \* what the caller gets
    abandoned,  \* has the caller's context ended?
    request,    \* the request it sends: none, sent, or carried out
    \* History, which no step reads:
    runs,       \* how often Stripe carried it out
    sentTo      \* the accounts its requests were sent to

bridge == <<phase, ask, by, job, answer, abandoned, request, runs, sentTo>>
vars == <<listing, bridge>>

-----------------------------------------------------------------------------
(* Names *)

Reconciled ==
    {"ensure_payment_intent", "observe_payment_intents",
     "destroy_payment_intent", "ensure_customer", "observe_customers",
     "destroy_customer", "ensure_subscription", "observe_subscriptions",
     "destroy_subscription", "ensure_webhook_endpoint",
     "observe_webhook_endpoints", "destroy_webhook_endpoint"}

SupportedExecuteOperations ==
    Reconciled \union
    {"observe_charges", "observe_balance", "provision_webhook_endpoint",
     "create_refund", "create_setup_intent", "create_payout",
     "manage_connect_account", "verify_webhook_signature", "on_surface_query"}

LegacyOperationAliases ==
    [create_payment_intent   |-> "ensure_payment_intent",
     confirm_payment_intent  |-> "ensure_payment_intent",
     cancel_payment_intent   |-> "destroy_payment_intent",
     retrieve_payment_intent |-> "observe_payment_intents",
     create_customer         |-> "ensure_customer",
     update_customer         |-> "ensure_customer",
     list_customers          |-> "observe_customers",
     create_subscription     |-> "ensure_subscription",
     update_subscription     |-> "ensure_subscription",
     cancel_subscription     |-> "destroy_subscription",
     list_subscriptions      |-> "observe_subscriptions",
     list_charges            |-> "observe_charges",
     create_webhook_endpoint |-> "ensure_webhook_endpoint",
     update_webhook_endpoint |-> "ensure_webhook_endpoint",
     delete_webhook_endpoint |-> "destroy_webhook_endpoint",
     list_webhook_endpoints  |-> "observe_webhook_endpoints",
     retrieve_balance        |-> "observe_balance"]

(* The names the adapter knows are free of blanks. *)
ASSUME NamesAssumption ==
    DOMAIN Untrimmed \intersect
        (SupportedExecuteOperations \union DOMAIN LegacyOperationAliases
            \union {""}) = {}

Trim(name) == IF name \in DOMAIN Untrimmed THEN Untrimmed[name] ELSE name

ResolveOperation(name) ==
    IF name \in DOMAIN LegacyOperationAliases
    THEN LegacyOperationAliases[name] ELSE name

NormalizeExecuteOperation(q) ==
    IF Trim(q.op) # "" THEN Trim(q.op) ELSE Trim(q.cap)

SupportsExecuteCapability(name) ==
    Trim(name) \in SupportedExecuteOperations \union {""}

(* What the SDK has a reconciler for: the names of WireReconcilers. *)
Registered(name) ==
    ResolveOperation(name) \in Reconciled

(* The name the SDK goes by: the operation as it came, or if it is empty,  *)
(* perhaps the capability.                                                 *)
SdkNames(q) == IF q.op # "" THEN {q.op} ELSE {"", q.cap}

-----------------------------------------------------------------------------
(* The request an operation runs on *)

(* hydrateResolvedInstanceID *)
InstanceId(q) == IF q.inst # NoInstance THEN q.inst ELSE q.ref

(* input.instance_id as buildSDKDelivery leaves it. *)
NamedInstance(q) ==
    IF q.named = Absent /\ InstanceId(q) # NoInstance THEN InstanceId(q)
                                                      ELSE q.named

MutReconcileJob(q, name) ==
    LET op == ResolveOperation(name) IN
    [op |-> op,
     inst |-> IF NamedInstance(q) \in {Absent, NoInstance} THEN DefaultInstance
                                                         ELSE NamedInstance(q),
     creds |-> IF op \in {"destroy_customer", "destroy_subscription"}
               THEN NoCreds ELSE q.creds,
     bound |-> q.bound]
(* buildExecuteRequest, from the stash; DestroyWithDesired sees it too.    *)
ReconcileJob(q, name) ==
    [op |-> ResolveOperation(name),
     inst |-> IF NamedInstance(q) \in {Absent, NoInstance} THEN DefaultInstance
                                                         ELSE NamedInstance(q),
     creds |-> q.creds, bound |-> q.bound]

SwitchJob(q) ==
    [op |-> ResolveOperation(NormalizeExecuteOperation(q)),
     inst |-> InstanceId(q), creds |-> q.creds, bound |-> q.bound]

Nobody == [op |-> "", inst |-> NoInstance, creds |-> NoCreds,
           bound |-> Platform]

ListingQueries == {"list-webhook-endpoints", "list-charges",
                   "list-subscriptions", "list-payment-intents"}
Queries == ListingQueries \union {"get-balance", "charge-detail"}

(* Every id but a charge's makes of an observe_* one retrieve.             *)
Lists(j, q) ==
    \/ j.op = "observe_charges"
    \/ /\ j.op \in {"observe_payment_intents", "observe_customers",
                    "observe_subscriptions", "observe_webhook_endpoints"}
       /\ ~q.byId
    \/ j.op = "on_surface_query" /\ q.query \in ListingQueries

(* The account an operation works in.  Connected accounts are the          *)
(* platform's.  Most surface queries look for the account in their own     *)
(* params, where that of the instance is not injected, and list-charges    *)
(* nowhere.                                                                *)
AccountFor(j, q) ==
    CASE \/ j.op = "manage_connect_account"
         \/ j.op = "on_surface_query" /\ q.query = "list-charges" -> Platform
      [] /\ j.op = "on_surface_query"
         /\ q.query \in {"list-subscriptions", "list-payment-intents",
                         "charge-detail"} ->
            q.elsewhere
      [] OTHER -> IF j.bound # Platform THEN j.bound ELSE q.account

Cursor(j, q) == IF j.op = "observe_charges" THEN q.after ELSE Top

(* Why ExecuteContext does not get as far as a handler, or a handler as    *)
(* far as a request.  An unknown operation is the last thing it notices.   *)
Refuses(j, q) ==
    \/ j.op = ""
    \/ /\ j.op # "verify_webhook_signature"
       /\ \/ j.bound # Platform /\ q.account \notin {Platform, j.bound}
          \/ j.creds = NoCreds
          \/ j.op = "on_surface_query" /\ q.query \notin Queries

MutKnows(j) ==
    j.op \in SupportedExecuteOperations \ {"create_payout"}
(* The cases of the switch. *)
Knows(j) == j.op \in SupportedExecuteOperations

-----------------------------------------------------------------------------
(* Answers *)

NoAnswer == [code |-> "none", text |-> "none", more |-> "untold",
             valid |-> FALSE, at |-> 0]
Ok == [NoAnswer EXCEPT !.code = "ok"]
Failure(code, text) == [NoAnswer EXCEPT !.code = code, !.text = text]

MutFailureOf(who, q, text) ==
    IF who = "switch" /\ q.op = "provision_webhook_endpoint"
    THEN Failure("execute_failed", "redacted")
    ELSE Failure("execute_failed", text)
(* What is wrong with a provision is not said, by whatever name it came.   *)
FailureOf(who, q, text) ==
    IF /\ who = "switch"
       /\ ResolveOperation(NormalizeExecuteOperation(q))
             = "provision_webhook_endpoint"
    THEN Failure("execute_failed", "redacted")
    ELSE Failure("execute_failed", text)

Answer(c, a) ==
    /\ phase' = [phase EXCEPT ![c] = "answered"]
    /\ answer' = [answer EXCEPT ![c] = a]

-----------------------------------------------------------------------------
InitBridge ==
    /\ phase = [c \in Call |-> "idle"]
    /\ ask = [c \in Call |-> CHOOSE q \in Requests : TRUE]
    /\ by = [c \in Call |-> "nobody"]
    /\ job = [c \in Call |-> Nobody]
    /\ answer = [c \in Call |-> NoAnswer]
    /\ abandoned = [c \in Call |-> FALSE]
    /\ request = [c \in Call |-> "none"]
    /\ runs = [c \in Call |-> 0]
    /\ sentTo = [c \in Call |-> {}]

Init == InitListing /\ InitBridge

(* The gate looks at the capability, if one is given, and at the operation *)
(* only otherwise; what runs is the operation, if one is given.            *)
Gate(q) == SupportsExecuteCapability(IF q.cap = "" THEN q.op ELSE q.cap)

Receive(c, q) ==
    /\ phase[c] = "idle"
    /\ ask' = [ask EXCEPT ![c] = q]
    /\ \/ ~q.decodes /\ Answer(c, Failure("bad_request", "adapter"))
       \/ /\ q.decodes /\ ~Gate(q)
          /\ Answer(c, Failure("unsupported_capability", "unsupported"))
       \/ /\ q.decodes /\ Gate(q)
          /\ phase' = [phase EXCEPT ![c] = "dispatching"]
          /\ UNCHANGED answer
    /\ UNCHANGED <<listing, by, job, abandoned, request, runs, sentTo>>

(* ExecuteContext up to the first request to Stripe. *)
Launch(c, who, j) ==
    LET q == ask[c] IN
    /\ by' = [by EXCEPT ![c] = who]
    /\ job' = [job EXCEPT ![c] = j]
    /\ \/ /\ Refuses(j, q)
          /\ Answer(c, FailureOf(who, q, "adapter"))
          /\ UNCHANGED listing
       \/ /\ ~Refuses(j, q) /\ ~Knows(j)
          /\ Answer(c, FailureOf(who, q, "unsupported"))
          /\ UNCHANGED listing
       \/ /\ ~Refuses(j, q) /\ j.op = "verify_webhook_signature"
          /\ \E now \in Now :
                Answer(c, [Ok EXCEPT
                    !.valid = VerifySignature(q.payload, q.header, q.secret,
                                              Allowance(q.tol), now),
                    !.at = now])
          /\ UNCHANGED listing
       \/ /\ ~Refuses(j, q) /\ Knows(j) /\ Lists(j, q)
          /\ phase' = [phase EXCEPT ![c] = "listing"]
          /\ Start(c, AccountFor(j, q), q.limit, Cursor(j, q))
          /\ UNCHANGED answer
       \/ /\ ~Refuses(j, q) /\ Knows(j) /\ ~Lists(j, q)
          /\ j.op # "verify_webhook_signature"
          /\ phase' = [phase EXCEPT ![c] = "calling"]
          /\ UNCHANGED <<listing, answer>>

Dispatch(c) ==
    /\ phase[c] = "dispatching"
    /\ \E name \in SdkNames(ask[c]) :
          \/ /\ Registered(name)
             /\ Launch(c, "reconciler", ReconcileJob(ask[c], name))
          \/ ~Registered(name) /\ Launch(c, "switch", SwitchJob(ask[c]))
    /\ UNCHANGED <<ask, abandoned, request, runs, sentTo>>

(* The reconcilers drop the context of the caller, the switch heeds it.    *)
Heeds(c) == by[c] = "switch"
Stopped(c) == Heeds(c) /\ abandoned[c]

(* Is an error of the reconcilers taken for the SDK's "no such operation"? *)
MutReadsAsUnsupported(q) == TRUE
ReadsAsUnsupported(q) == q.echoes

(* An error, after the request was carried out or without.                 *)
FailCall(c) ==
    \/ /\ by[c] = "reconciler" /\ ReadsAsUnsupported(ask[c])
       /\ by' = [by EXCEPT ![c] = "switch"]
       /\ job' = [job EXCEPT ![c] = SwitchJob(ask[c])]
       /\ UNCHANGED <<phase, answer>>
    \/ /\ by[c] = "switch" \/ ~ReadsAsUnsupported(ask[c])
       /\ Answer(c, FailureOf(by[c], ask[c], "provider"))
       /\ UNCHANGED <<by, job>>

(* A handler sends its request, unless the context it heeds has ended.     *)
Send(c) ==
    /\ phase[c] = "calling"
    /\ request[c] = "none"
    /\ ~Stopped(c)
    /\ request' = [request EXCEPT ![c] = "sent"]
    /\ sentTo' = [sentTo EXCEPT ![c] = @ \union {AccountFor(job[c], ask[c])}]
    /\ UNCHANGED <<listing, phase, ask, by, job, answer, abandoned, runs>>

(* Stripe carries it out, be anybody still waiting for it or not.          *)
CarryOut(c) ==
    /\ request[c] = "sent"
    /\ request' = [request EXCEPT ![c] = "carried out"]
    /\ runs' = [runs EXCEPT ![c] = @ + 1]
    /\ UNCHANGED <<listing, phase, ask, by, job, answer, abandoned, sentTo>>

(* The response: that it was done, or an error all the same.               *)
Respond(c) ==
    /\ phase[c] = "calling"
    /\ request[c] = "carried out"
    /\ request' = [request EXCEPT ![c] = "none"]
    /\ \/ Answer(c, Ok) /\ UNCHANGED <<by, job>>
       \/ FailCall(c)
    /\ UNCHANGED <<listing, ask, abandoned, runs, sentTo>>

(* The handler misses an input, or Stripe refuses the request.             *)
Deny(c) ==
    /\ phase[c] = "calling"
    /\ request[c] # "carried out"
    /\ request' = [request EXCEPT ![c] = "none"]
    /\ FailCall(c)
    /\ UNCHANGED <<listing, ask, abandoned, runs, sentTo>>

(* The time of the request is up, or the context it was sent with ended:   *)
(* the handler gives it up, and Stripe may yet carry it out.               *)
GiveUp(c) ==
    /\ phase[c] = "calling"
    /\ Answer(c, FailureOf(by[c], ask[c], "provider"))
    /\ UNCHANGED <<listing, ask, by, job, abandoned, request, runs, sentTo>>

NextPage(c) ==
    /\ phase[c] = "listing"
    /\ ~Stopped(c)
    /\ Page(c)
    /\ UNCHANGED bridge

BreakOff(c) ==
    /\ phase[c] = "listing"
    /\ PageFails(c)
    /\ UNCHANGED bridge

(* has_more is told by the switch; what a reconciler hands to the SDK are  *)
(* the items and an empty cursor.                                          *)
ToldMore(c) ==
    CASE by[c] = "reconciler" -> "untold"
      [] by[c] # "reconciler" /\ read[c].more -> "yes"
      [] by[c] # "reconciler" /\ ~read[c].more -> "no"

MutEndList(c) ==
    /\ phase[c] = "listing"
    /\ read[c].state = "done"
    /\ Answer(c, [Ok EXCEPT !.more = ToldMore(c)])
    /\ UNCHANGED <<listing, ask, by, job, abandoned, request, runs, sentTo>>
MutIgnoreError(c) ==
    /\ phase[c] = "listing"
    /\ read[c].state \in {"done", "failed"}
    /\ Answer(c, [Ok EXCEPT !.more = ToldMore(c)])
    /\ UNCHANGED <<listing, ask, by, job, abandoned, request, runs, sentTo>>
EndList(c) ==
    /\ phase[c] = "listing"
    /\ \/ /\ read[c].state = "done"
          /\ Answer(c, [Ok EXCEPT !.more = ToldMore(c)])
       \/ /\ read[c].state = "failed"
          /\ Answer(c, FailureOf(by[c], ask[c], "provider"))
    /\ UNCHANGED <<listing, ask, by, job, abandoned, request, runs, sentTo>>

(* The caller was told that there is more and asks for it: the same        *)
(* message but for its starting_after, which only observe_charges heeds.   *)
GoOn(c) ==
    /\ phase[c] = "answered"
    /\ job[c].op = "observe_charges"
    /\ answer[c].more = "yes"
    /\ Continue(c, ask[c].limit)
    /\ phase' = [phase EXCEPT ![c] = "listing"]
    /\ answer' = [answer EXCEPT ![c] = NoAnswer]
    /\ UNCHANGED <<ask, by, job, abandoned, request, runs, sentTo>>

(* The caller gives up; nobody but the context tells the adapter.          *)
Abandon(c) ==
    /\ phase[c] \notin {"idle", "answered"}
    /\ ~abandoned[c]
    /\ abandoned' = [abandoned EXCEPT ![c] = TRUE]
    /\ UNCHANGED <<listing, phase, ask, by, job, answer, request, runs, sentTo>>

Step(c) ==
    \/ Dispatch(c)
    \/ Send(c)
    \/ Respond(c)
    \/ Deny(c)
    \/ GiveUp(c)
    \/ NextPage(c)
    \/ BreakOff(c)
    \/ EndList(c)

Next ==
    \/ \E c \in Call :
          \/ \E q \in Requests : Receive(c, q)
          \/ Step(c)
          \/ CarryOut(c)
          \/ GoOn(c)
          \/ Abandon(c)
    \/ Change /\ UNCHANGED bridge

Spec == Init /\ [][Next]_vars

(* Handlers run; every request ends, by a timeout if need be.  Of Stripe   *)
(* nothing is assumed: CarryOut is no part of Step.                        *)
FairSpec == Spec /\ \A c \in Call : WF_vars(Step(c))

-----------------------------------------------------------------------------
TypeOK ==
    /\ ListingTypeOK
    /\ phase \in [Call -> {"idle", "dispatching", "calling", "listing",
                           "answered"}]
    /\ ask \in [Call -> Requests]
    /\ by \in [Call -> {"nobody", "reconciler", "switch"}]
    /\ abandoned \in [Call -> BOOLEAN]
    /\ request \in [Call -> {"none", "sent", "carried out"}]
    /\ runs \in [Call -> Nat]
    /\ sentTo \in [Call -> SUBSET Scope]

(* The accounts a call has reached, or is reading.                         *)
Reached(c) ==
    sentTo[c] \union IF phase[c] = "listing" THEN {read[c].scope} ELSE {}

(* What does not work in the account of its instance: the operation on     *)
(* connected accounts, and four of the six surface queries.                *)
WorksElsewhere(op, query) ==
    \/ op = "manage_connect_account"
    \/ /\ op = "on_surface_query"
       /\ query \in {"list-charges", "list-subscriptions",
                     "list-payment-intents", "charge-detail"}

(* Whichever way a call takes through stash and rebuild, and even if both  *)
(* dispatchers run it, it works with the credentials of its own instance,  *)
(* and for the instance its message names, unless its input names another. *)
(* Every request it sends and every page it reads is of the account that   *)
(* instance is bound to or, if it is bound to none, that the caller names; *)
(* but for what WorksElsewhere lists.                                      *)
ActsForItsInstance ==
    \A c \in Call : by[c] # "nobody" =>
        LET q == ask[c] IN
        /\ job[c].creds = q.creds
        /\ (/\ InstanceId(q) # NoInstance
            /\ q.named \in {Absent, InstanceId(q)})
           => job[c].inst = InstanceId(q)
        /\ ~WorksElsewhere(job[c].op, q.query) =>
              Reached(c) \subseteq
                  IF q.bound # Platform THEN {q.bound} ELSE {q.account}

(* docs/CONFIGURATION.md says of the account an instance is bound to that  *)
(* it is injected into calls and cannot be overridden by request input: no *)
(* call of the instance reaches another account.                           *)
BoundAccountHolds ==
    \A c \in Call :
        ask[c].bound # Platform => Reached(c) \subseteq {ask[c].bound}

(* No two dispatchers carry out one message, unless an error of Stripe's   *)
(* quotes the words by which the bridge knows one of the SDK; and whoever  *)
(* was refused at the gate was not carried out at all.                     *)
OneDispatcher ==
    \A c \in Call :
        /\ ~ask[c].echoes => runs[c] <= 1
        /\ answer[c].code \in {"bad_request", "unsupported_capability"} =>
              runs[c] = 0

(* No error text of Stripe leaves in the answer to a provision, however    *)
(* the message spells it and whatever capability it claims.                *)
ProvisionRedacted ==
    \A c \in Call :
        job[c].op = "provision_webhook_endpoint" =>
            answer[c].text \in {"none", "redacted"}

(* An answer holds, also against what Stripe does after it was given: ok   *)
(* is said of a request that was carried out, of a list that was read to   *)
(* its end, or of a verification; and what the adapter itself refuses was  *)
(* not carried out, nor will it be.  Only an error of the provider leaves  *)
(* the caller in doubt.                                                    *)
AnswersHold ==
    \A c \in Call :
        /\ answer[c].code = "ok" =>
              \/ runs[c] # 0 /\ request[c] # "sent"
              \/ read[c].state = "done"
              \/ job[c].op = "verify_webhook_signature"
        /\ answer[c].text \in {"adapter", "unsupported"} =>
              runs[c] = 0 /\ request[c] # "sent"

(* An operation of the catalogue, in either field or both, is never        *)
(* answered as unsupported: gate, SDK and switch know the same names.      *)
CatalogueServed ==
    \A c \in Call :
        (/\ {Trim(ask[c].op), Trim(ask[c].cap)}
               \subseteq SupportedExecuteOperations \union {""})
        => answer[c].text # "unsupported"

(* verify_webhook_signature says "valid" of every genuine header, and of   *)
(* no other unless the time it names is out of the range of an int64.      *)
ValidIffGenuine ==
    \A c \in Call :
        LET q == ask[c]
            genuine == Genuine(q.payload, q.header, q.secret,
                               IF q.tol > 0 THEN q.tol ELSE DefaultTolerance,
                               answer[c].at)
        IN  (answer[c].code = "ok" /\ job[c].op = "verify_webhook_signature") =>
                /\ genuine => answer[c].valid
                /\ answer[c].valid =>
                      genuine \/ OutOfRange(q.header, answer[c].at)

(* docs/CAPABILITIES.md lists has_more among the outputs of each observe_* *)
(* operation: whoever is not told that there is more was given everything  *)
(* that was there all the time.                                            *)
TruncationTold ==
    \A c \in Call :
        (/\ phase[c] = "answered" /\ answer[c].code = "ok"
         /\ read[c].state = "done" /\ answer[c].more # "yes")
        => throughout[c] \subseteq Returned(c)

(* Every message is answered. *)
CallAnswered ==
    \A c \in Call : phase[c] # "idle" ~> phase[c] = "answered"
=============================================================================
