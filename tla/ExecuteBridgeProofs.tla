------------------------ MODULE ExecuteBridgeProofs ------------------------
(* Theorems about ExecuteBridge, for every value of the constants that     *)
(* satisfies its assumptions: what dispatches an operation and with what,  *)
(* that its lists are read as Listing says, and its headers as Signature.  *)
EXTENDS ExecuteBridge, ListingProofs, SignatureProofs

-----------------------------------------------------------------------------
(* Names *)

(* An operation of the catalogue is no legacy name: to resolve it changes  *)
(* nothing.                                                                *)
LEMMA NamesResolved ==
    ASSUME NEW op \in SupportedExecuteOperations \union {""}
    PROVE  ResolveOperation(op) = op
<1>1. op \notin DOMAIN LegacyOperationAliases
  BY DEF SupportedExecuteOperations, Reconciled, LegacyOperationAliases
<1> QED
  BY <1>1 DEF ResolveOperation

(* A provision has no reconciler, and neither has the empty name. *)
LEMMA ReconciledIsNot ==
    ASSUME NEW op \in Reconciled
    PROVE  /\ op \notin {"provision_webhook_endpoint", "", "observe_charges",
                         "on_surface_query", "verify_webhook_signature"}
           /\ op \in SupportedExecuteOperations
BY DEF Reconciled, SupportedExecuteOperations

(* The account an operation works in is one. *)
LEMMA AccountIsScope ==
    ASSUME NEW q \in Requests, NEW j, j.bound = q.bound
    PROVE  AccountFor(j, q) \in Scope
BY BridgeAssumption DEF AccountFor

(* It is the bound one, or else the one named, but for WorksElsewhere.     *)
LEMMA AccountIsBound ==
    ASSUME NEW q, NEW j, j.bound = q.bound, ~WorksElsewhere(j.op, q.query)
    PROVE  AccountFor(j, q) = IF q.bound # Platform THEN q.bound ELSE q.account
BY DEF AccountFor, WorksElsewhere

(* And its cursor is an id or the top. *)
LEMMA CursorOfRead ==
    ASSUME NEW q \in Requests, NEW j
    PROVE  Cursor(j, q) \in Id \union {Top}
BY BridgeAssumption DEF Cursor

-----------------------------------------------------------------------------
(* The inductive invariant *)

(* Where the job of a call comes from. *)
JobOK(c) ==
    \/ by[c] = "nobody" /\ job[c] = Nobody
    \/ by[c] = "switch" /\ job[c] = SwitchJob(ask[c])
    \/ /\ by[c] = "reconciler"
       /\ \E name \in SdkNames(ask[c]) : Registered(name) /\ job[c] = ReconcileJob(ask[c], name)

(* How far a call has come, and what was done for it on the way.           *)
CallOK(c) ==
    /\ JobOK(c)
    /\ phase[c] \in {"idle", "dispatching"} => by[c] = "nobody"
    /\ phase[c] \in {"calling", "listing"} => by[c] # "nobody"
    /\ phase[c] # "answered" => answer[c] = NoAnswer
    /\ by[c] = "nobody" =>
          request[c] = "none" /\ runs[c] = 0 /\ sentTo[c] = {}
    /\ request[c] = "carried out" => runs[c] # 0
    /\ (phase[c] = "listing" \/ answer[c].more = "yes") =>
          /\ request[c] = "none"
          /\ read[c].scope = AccountFor(job[c], ask[c])
    /\ sentTo[c] \subseteq {AccountFor(job[c], ask[c])}
    /\ ~ask[c].echoes =>
          /\ runs[c] <= 1
          /\ (\/ phase[c] \in {"calling", "listing"} /\ request[c] = "none"
              \/ request[c] = "sent" \/ answer[c].more = "yes") => runs[c] = 0
    /\ answer[c].code \in {"bad_request", "unsupported_capability"} =>
          by[c] = "nobody"

(* What an answer says holds. *)
HoldOK(c) ==
    /\ answer[c].code = "ok" =>
          \/ runs[c] # 0 /\ request[c] # "sent"
          \/ read[c].state = "done"
          \/ job[c].op = "verify_webhook_signature"
    /\ answer[c].text \in {"adapter", "unsupported"} =>
          runs[c] = 0 /\ request[c] # "sent"

(* A message that names operations of the catalogue only. *)
InCatalogue(q) ==
    {Trim(q.op), Trim(q.cap)} \subseteq SupportedExecuteOperations \union {""}

(* What the text of an answer may be. *)
TextOK(c) ==
    /\ job[c].op = "provision_webhook_endpoint" =>
          answer[c].text \in {"none", "redacted"}
    /\ InCatalogue(ask[c]) => answer[c].text # "unsupported"

(* Jobs and answers are kept one for each call. *)
Functions ==
    /\ job = [c \in Call |-> job[c]]
    /\ answer = [c \in Call |-> answer[c]]

(* The types of what the bridge itself keeps. *)
BridgeTypes ==
    /\ phase \in [Call -> {"idle", "dispatching", "calling", "listing",
                           "answered"}]
    /\ ask \in [Call -> Requests]
    /\ by \in [Call -> {"nobody", "reconciler", "switch"}]
    /\ abandoned \in [Call -> BOOLEAN]
    /\ request \in [Call -> {"none", "sent", "carried out"}]
    /\ runs \in [Call -> Nat]
    /\ sentTo \in [Call -> SUBSET Scope]

CallsInv ==
    /\ BridgeTypes
    /\ Functions
    /\ \A c \in Call : CallOK(c) /\ HoldOK(c) /\ TextOK(c)

BridgeInv == TypeOK /\ CallsInv

(* What a call that a step leaves alone is said to be. *)
Same(c) ==
    /\ phase'[c] = phase[c] /\ ask'[c] = ask[c] /\ by'[c] = by[c]
    /\ job'[c] = job[c] /\ answer'[c] = answer[c] /\ request'[c] = request[c]
    /\ runs'[c] = runs[c] /\ sentTo'[c] = sentTo[c]
    /\ read'[c].scope = read[c].scope
    /\ phase[c] = "listing" \/ read'[c].state = read[c].state

(* What a success says. *)
LEMMA OkSays ==
    /\ NoAnswer.text = "none" /\ NoAnswer.more = "untold" /\ NoAnswer.code = "none"
    /\ Ok.text = "none" /\ Ok.more = "untold" /\ Ok.code = "ok"
    /\ \A valid, at :
          LET a == [Ok EXCEPT !.valid = valid, !.at = at] IN
          a.text = "none" /\ a.more = "untold" /\ a.code = "ok"
    /\ \A more : LET a == [Ok EXCEPT !.more = more] IN
          a.text = "none" /\ a.more = more /\ a.code = "ok"
BY DEF Ok, NoAnswer

(* A call that a step leaves alone stays as it is. *)
LEMMA Frame ==
    ASSUME BridgeInv, NEW c \in Call, Same(c)
    PROVE  CallOK(c)' /\ HoldOK(c)' /\ TextOK(c)'
<1>1. CallOK(c) /\ HoldOK(c) /\ TextOK(c)
  BY DEF BridgeInv, CallsInv
<1>2. CallOK(c)'
  BY <1>1 DEF CallOK, JobOK, Same
<1>3. TextOK(c)'
  BY <1>1 DEF TextOK, Same
<1>4. phase[c] = "listing" => answer[c] = NoAnswer
  BY <1>1 DEF CallOK
<1>5. HoldOK(c)'
  BY <1>1, <1>4, OkSays DEF HoldOK, Same
<1> QED
  BY <1>2, <1>3, <1>5

(* What a failure says. *)
LEMMA FailureSays ==
    ASSUME NEW who, NEW q, NEW text
    PROVE  LET a == FailureOf(who, q, text) IN
           /\ a.code = "execute_failed"
           /\ a.more = "untold"
           /\ a.text \in {text, "redacted"}
           /\ (who = "switch" /\ SwitchJob(q).op = "provision_webhook_endpoint")
                 => a.text = "redacted"
BY DEF FailureOf, Failure, NoAnswer, SwitchJob

(* The job of a reconciler is never a provision; the one the switch gets   *)
(* of a message of the catalogue is one it knows, or refused as empty.     *)
LEMMA JobsOf ==
    ASSUME NEW q
    PROVE  /\ SwitchJob(q).bound = q.bound
           /\ InCatalogue(q) => \/ SwitchJob(q).op = ""
                                \/ Knows(SwitchJob(q))
           /\ \A name : LET j == ReconcileJob(q, name) IN
                 /\ j.bound = q.bound
                 /\ Registered(name) => j.op \in Reconciled /\ Knows(j)
<1>1. SwitchJob(q).bound = q.bound
  BY DEF SwitchJob
<1>2. ASSUME InCatalogue(q) PROVE SwitchJob(q).op = "" \/ Knows(SwitchJob(q))
  <2>1. NormalizeExecuteOperation(q) \in SupportedExecuteOperations \union {""}
    BY <1>2 DEF InCatalogue, NormalizeExecuteOperation
  <2>2. SwitchJob(q).op = NormalizeExecuteOperation(q)
    BY <2>1, NamesResolved DEF SwitchJob
  <2> QED
    BY <2>1, <2>2 DEF Knows
<1>3. ASSUME NEW name
      PROVE  LET j == ReconcileJob(q, name) IN
             /\ j.bound = q.bound
             /\ Registered(name) => j.op \in Reconciled /\ Knows(j)
  <2>1. /\ ReconcileJob(q, name).bound = q.bound
        /\ ReconcileJob(q, name).op = ResolveOperation(name)
    BY DEF ReconcileJob
  <2> QED
    BY <2>1 DEF Registered, Knows, SupportedExecuteOperations
<1> QED
  BY <1>1, <1>2, <1>3

-----------------------------------------------------------------------------
(* The steps *)

(* The invariant holds of the calls at the start. *)
LEMMA BridgeInit == Init => BridgeInv
<1> SUFFICES ASSUME Init PROVE BridgeInv
  OBVIOUS
<1>1. ListingTypeOK
  BY ListingInit DEF Init, ListingInv
<1>2. BridgeTypes /\ Functions
  BY BridgeAssumption DEF Init, InitBridge, BridgeTypes, Functions
<1>3. ASSUME NEW c \in Call PROVE CallOK(c) /\ HoldOK(c) /\ TextOK(c)
  <2>1. /\ phase[c] = "idle" /\ by[c] = "nobody" /\ job[c] = Nobody
        /\ answer[c] = NoAnswer /\ runs[c] = 0 /\ request[c] = "none"
        /\ sentTo[c] = {}
    BY DEF Init, InitBridge
  <2> QED
    BY <2>1, OkSays DEF CallOK, JobOK, HoldOK, TextOK
<1> QED
  BY <1>1, <1>2, <1>3 DEF BridgeInv, CallsInv, TypeOK, BridgeTypes

(* A message arrives: it is refused at the gate, or on its way.            *)
LEMMA ReceiveStep ==
    ASSUME BridgeInv, NEW c \in Call, NEW q \in Requests, Receive(c, q)
    PROVE  CallsInv'
<1>1. BridgeTypes /\ Functions /\ CallOK(c) /\ TextOK(c)
  BY DEF BridgeInv, CallsInv
<1>2. BridgeTypes' /\ Functions'
  BY <1>1 DEF Receive, Answer, BridgeTypes, Functions
<1>3. \A d \in Call \ {c} : Same(d)
  BY <1>1 DEF Receive, Answer, BridgeTypes, Functions, Same, listing
<1>4. /\ ask'[c] = q /\ by'[c] = "nobody" /\ job'[c] = Nobody /\ runs'[c] = 0
      /\ request'[c] = "none" /\ sentTo'[c] = {}
      /\ phase'[c] \in {"answered", "dispatching"}
  BY <1>1 DEF Receive, Answer, BridgeTypes, CallOK, JobOK
<1>5. \/ phase'[c] = "dispatching" /\ answer'[c] = NoAnswer
      \/ phase'[c] = "answered" /\ answer'[c] = Failure("bad_request", "adapter")
      \/ /\ phase'[c] = "answered" /\ ~Gate(q)
         /\ answer'[c] = Failure("unsupported_capability", "unsupported")
  BY <1>1 DEF Receive, Answer, BridgeTypes, Functions, CallOK
<1>6. InCatalogue(q) => Gate(q)
  BY DEF InCatalogue, Gate, SupportsExecuteCapability
<1>7. \A code, text : /\ Failure(code, text).more = "untold"
                      /\ Failure(code, text).text = text
                      /\ Failure(code, text).code = code
  BY DEF Failure, NoAnswer
<1>8. CallOK(c)'
  BY <1>4, <1>5, <1>7, OkSays DEF CallOK, JobOK
<1>9. Nobody.op = ""
  BY DEF Nobody
<1>10. TextOK(c)'
  <2>1. job'[c].op = ""
    BY <1>4, <1>9
  <2>2. InCatalogue(ask'[c]) => answer'[c].text # "unsupported"
    BY <1>4, <1>5, <1>6, <1>7, OkSays
  <2> QED
    BY <2>1, <2>2 DEF TextOK
<1>11. HoldOK(c)'
  BY <1>4, <1>5, <1>7, OkSays DEF HoldOK
<1> QED
  BY <1>2, <1>3, <1>8, <1>10, <1>11, Frame DEF CallsInv

(* The job a dispatcher goes by. *)
JobOf(who, q, j) ==
    \/ who = "switch" /\ j = SwitchJob(q)
    \/ /\ who = "reconciler"
       /\ \E name \in SdkNames(q) : Registered(name) /\ j = ReconcileJob(q, name)

(* An operation of the catalogue is refused or known, by any dispatcher; a *)
(* provision is the switch's.                                              *)
LEMMA JobKnown ==
    ASSUME NEW who, NEW q, NEW j, JobOf(who, q, j)
    PROVE  /\ j.bound = q.bound
           /\ InCatalogue(q) => Refuses(j, q) \/ Knows(j)
           /\ who # "nobody"
           /\ j.op = "provision_webhook_endpoint" => who = "switch"
<1>1. CASE who = "switch" /\ j = SwitchJob(q)
  BY <1>1, JobsOf DEF Refuses
<1>2. CASE /\ who = "reconciler"
           /\ \E name \in SdkNames(q) :
                 Registered(name) /\ j = ReconcileJob(q, name)
  BY <1>2, JobsOf, ReconciledIsNot
<1> QED
  BY <1>1, <1>2 DEF JobOf

(* A dispatcher takes a call up to its first request to Stripe.            *)
LEMMA LaunchStep ==
    ASSUME BridgeInv, NEW c \in Call, NEW who \in {"reconciler", "switch"}, NEW j,
           phase[c] = "dispatching", JobOf(who, ask[c], j),
           Launch(c, who, j), UNCHANGED <<ask, abandoned, request, runs, sentTo>>
    PROVE  CallsInv'
<1> DEFINE q == ask[c]
<1>1. BridgeTypes /\ Functions /\ CallOK(c) /\ ListingTypeOK
  BY DEF BridgeInv, CallsInv, TypeOK
<1>2. \A d \in Call \ {c} : read'[d] = read[d]
  BY <1>1 DEF Launch, Start, ListingTypeOK, listing, Call
<1>3. BridgeTypes' /\ Functions'
  BY <1>1 DEF Launch, Answer, BridgeTypes, Functions
<1>4. \A d \in Call \ {c} : Same(d)
  BY <1>1, <1>2 DEF Launch, Answer, BridgeTypes, Functions, Same
<1>5. /\ by'[c] = who /\ job'[c] = j /\ ask'[c] = q /\ answer[c] = NoAnswer
      /\ runs'[c] = 0 /\ request'[c] = "none" /\ sentTo'[c] = {}
  BY <1>1 DEF Launch, BridgeTypes, Functions, CallOK
<1>6. JobOK(c)'
  BY <1>5 DEF JobOK, JobOf
<1> DEFINE a == answer'[c]
<1> HIDE DEF q
<1>7. /\ phase'[c] \in {"answered", "listing", "calling"}
      /\ phase'[c] # "answered" => a = NoAnswer
      /\ phase'[c] = "listing" => read'[c].scope = AccountFor(j, q)
      /\ phase'[c] = "answered" =>
            /\ a.code \in {"ok", "execute_failed"}
            /\ a.more = "untold"
            /\ a.code = "ok" => j.op = "verify_webhook_signature"
            /\ a.text = "unsupported" => ~Refuses(j, q) /\ ~Knows(j)
            /\ (who = "switch" /\ j.op = "provision_webhook_endpoint") =>
                  a.text \in {"none", "redacted"}
  <2>1. ASSUME NEW x, Answer(c, x) PROVE phase'[c] = "answered" /\ a = x
    BY <1>1, <2>1 DEF Answer, BridgeTypes, Functions
  <2>2. (who = "switch" /\ j.op = "provision_webhook_endpoint") =>
           SwitchJob(q).op = "provision_webhook_endpoint"
    BY DEF JobOf, q
  <2>3. CASE Refuses(j, q) /\ Answer(c, FailureOf(who, q, "adapter"))
    <3>1. phase'[c] = "answered" /\ a = FailureOf(who, q, "adapter")
      BY <2>1, <2>3
    <3> QED
      BY <2>2, <3>1, FailureSays
  <2>4. CASE ~Refuses(j, q) /\ ~Knows(j) /\ Answer(c, FailureOf(who, q, "unsupported"))
    <3>1. phase'[c] = "answered" /\ a = FailureOf(who, q, "unsupported")
      BY <2>1, <2>4
    <3> QED
      BY <2>2, <2>4, <3>1, FailureSays
  <2>5. ASSUME NEW valid, NEW at, Answer(c, [Ok EXCEPT !.valid = valid, !.at = at])
        PROVE  /\ phase'[c] = "answered" /\ a.code = "ok"
               /\ a.more = "untold" /\ a.text = "none"
    <3>1. phase'[c] = "answered" /\ a = [Ok EXCEPT !.valid = valid, !.at = at]
      BY <2>1, <2>5, Zenon
    <3> HIDE DEF a
    <3> QED
      BY <3>1 DEF Ok, NoAnswer
  <2>6. CASE /\ phase' = [phase EXCEPT ![c] = "listing"]
             /\ Start(c, AccountFor(j, q), q.limit, Cursor(j, q))
             /\ UNCHANGED answer
    BY <1>1, <1>5, <2>6 DEF BridgeTypes, Start, ListingTypeOK, Call
  <2>7. CASE phase' = [phase EXCEPT ![c] = "calling"] /\ UNCHANGED answer
    BY <1>1, <1>5, <2>7 DEF BridgeTypes
  <2>8. CASE /\ j.op = "verify_webhook_signature"
             /\ \E now \in Now :
                   Answer(c, [Ok EXCEPT
                       !.valid = VerifySignature(q.payload, q.header, q.secret,
                                                 Allowance(q.tol), now),
                       !.at = now])
    <3>1. phase'[c] = "answered" /\ a.code = "ok" /\ a.more = "untold" /\ a.text = "none"
      BY <2>5, <2>8, Zenon
    <3> QED
      BY <2>8, <3>1
  <2> QED
    BY <2>3, <2>4, <2>6, <2>7, <2>8, Zenon DEF Launch, q
<1>8. CallOK(c)'
  <2>1. /\ a.code \notin {"bad_request", "unsupported_capability"}
        /\ a.more # "yes"
    BY <1>7, OkSays
  <2>2. phase'[c] = "listing" => read'[c].scope = AccountFor(job'[c], ask'[c])
    BY <1>5, <1>7
  <2> QED
    BY <1>5, <1>6, <1>7, <2>1, <2>2, JobKnown, OkSays DEF CallOK
<1>9. TextOK(c)'
  <2>1. InCatalogue(ask'[c]) => a.text # "unsupported"
    BY <1>5, <1>7, OkSays, JobKnown DEF q
  <2>2. job'[c].op = "provision_webhook_endpoint" => a.text \in {"none", "redacted"}
    BY <1>5, <1>7, OkSays, JobKnown DEF q
  <2> QED
    BY <2>1, <2>2 DEF TextOK
<1>10. HoldOK(c)'
  BY <1>5, <1>7, OkSays DEF HoldOK
<1> QED
  BY <1>3, <1>4, <1>8, <1>9, <1>10, Frame DEF CallsInv

(* The SDK hands the call to a reconciler, or back for the switch.         *)
LEMMA DispatchStep ==
    ASSUME BridgeInv, NEW c \in Call, Dispatch(c)
    PROVE  CallsInv'
<1>1. UNCHANGED <<ask, abandoned, request, runs, sentTo>> /\ phase[c] = "dispatching"
  BY DEF Dispatch
<1>2. ASSUME NEW name \in SdkNames(ask[c]), Registered(name),
             Launch(c, "reconciler", ReconcileJob(ask[c], name))
      PROVE  CallsInv'
  <2>1. JobOf("reconciler", ask[c], ReconcileJob(ask[c], name))
    BY <1>2 DEF JobOf
  <2> QED
    BY <1>1, <1>2, <2>1, LaunchStep
<1>3. ASSUME Launch(c, "switch", SwitchJob(ask[c])) PROVE CallsInv'
  <2>1. JobOf("switch", ask[c], SwitchJob(ask[c]))
    BY DEF JobOf
  <2> QED
    BY <1>1, <1>3, <2>1, LaunchStep
<1> QED
  BY <1>2, <1>3 DEF Dispatch

(* What the switch makes of a message that the SDK gave to a reconciler.   *)
LEMMA SwitchAgrees ==
    ASSUME NEW q, NEW name \in SdkNames(q), Registered(name)
    PROVE  SwitchJob(q).op \in Reconciled
<1>1. name \in Reconciled \union DOMAIN LegacyOperationAliases
  BY DEF Registered, ResolveOperation
<1>2. name # ""
  <2>1. "" \notin DOMAIN LegacyOperationAliases
    BY DEF LegacyOperationAliases
  <2> QED
    BY <1>1, <2>1, ReconciledIsNot
<1>3. Trim(name) = name
  BY <1>1, NamesAssumption, ReconciledIsNot DEF Trim
<1>4. Trim("") = ""
  BY NamesAssumption DEF Trim
<1>5. NormalizeExecuteOperation(q) = name
  BY <1>2, <1>3, <1>4 DEF NormalizeExecuteOperation, SdkNames
<1> QED
  BY <1>5 DEF SwitchJob, Registered

(* A request was carried out, or not, and its handler reports an error.    *)
LEMMA FailStep ==
    ASSUME BridgeInv, NEW c \in Call, phase[c] = "calling", FailCall(c),
           request' = [request EXCEPT ![c] = "none"],
           UNCHANGED <<listing, ask, abandoned, runs, sentTo>>
    PROVE  CallsInv'
<1> DEFINE q == ask[c]
           a == answer'[c]
<1>1. BridgeTypes /\ Functions /\ CallOK(c) /\ TextOK(c)
  BY DEF BridgeInv, CallsInv
<1>2. BridgeTypes' /\ Functions'
  <2>1. by' \in [Call -> {"nobody", "reconciler", "switch"}]
    BY <1>1 DEF FailCall, BridgeTypes
  <2>2. request' \in [Call -> {"none", "sent", "carried out"}]
    BY <1>1 DEF BridgeTypes
  <2>3. phase' \in [Call -> {"idle", "dispatching", "calling", "listing", "answered"}]
    BY <1>1 DEF FailCall, Answer, BridgeTypes
  <2>4. Functions'
    BY <1>1 DEF FailCall, Answer, Functions
  <2> QED
    BY <1>1, <2>1, <2>2, <2>3, <2>4 DEF BridgeTypes
<1>3. \A d \in Call \ {c} : Same(d)
  BY <1>1 DEF FailCall, Answer, BridgeTypes, Functions, Same, listing
<1>4. /\ ask'[c] = q /\ runs[c] \in Nat /\ runs'[c] = runs[c]
      /\ request'[c] = "none" /\ sentTo'[c] = sentTo[c]
      /\ sentTo[c] \subseteq {AccountFor(job[c], q)}
      /\ by[c] \in {"reconciler", "switch"}
  BY <1>1 DEF BridgeTypes, CallOK
<1>5. CASE /\ by[c] = "reconciler" /\ q.echoes
           /\ by' = [by EXCEPT ![c] = "switch"]
           /\ job' = [job EXCEPT ![c] = SwitchJob(q)]
           /\ UNCHANGED <<phase, answer>>
  <2>1. /\ by'[c] = "switch" /\ job'[c] = SwitchJob(q) /\ phase'[c] = "calling"
        /\ answer'[c] = NoAnswer
    BY <1>1, <1>5 DEF BridgeTypes, Functions, CallOK
  <2>2. JobOK(c)'
    BY <1>4, <2>1 DEF JobOK
  <2>3. AccountFor(SwitchJob(q), q) = AccountFor(job[c], q)
    <3>1. PICK name \in SdkNames(q) : Registered(name) /\ job[c] = ReconcileJob(q, name)
      BY <1>1, <1>5 DEF CallOK, JobOK
    <3>2. job[c].op \in Reconciled /\ SwitchJob(q).op \in Reconciled
      BY <3>1, JobsOf, SwitchAgrees
    <3>3. job[c].bound = q.bound /\ SwitchJob(q).bound = q.bound
      BY <3>1, JobsOf
    <3>4. \A op \in Reconciled : ~WorksElsewhere(op, q.query)
      BY DEF WorksElsewhere, Reconciled
    <3> QED
      BY <3>2, <3>3, <3>4, AccountIsBound
  <2>4. CallOK(c)'
    BY <1>4, <1>5, <2>1, <2>2, <2>3, OkSays DEF CallOK
  <2>5. TextOK(c)' /\ HoldOK(c)'
    BY <2>1, OkSays DEF TextOK, HoldOK
  <2> QED
    BY <1>2, <1>3, <2>4, <2>5, Frame DEF CallsInv
<1>6. CASE /\ by[c] = "switch" \/ ~q.echoes
           /\ Answer(c, FailureOf(by[c], q, "provider"))
           /\ UNCHANGED <<by, job>>
  <2>1. /\ by'[c] = by[c] /\ job'[c] = job[c] /\ phase'[c] = "answered"
        /\ a = FailureOf(by[c], q, "provider")
    BY <1>1, <1>6 DEF Answer, BridgeTypes, Functions
  <2>2. /\ a.code = "execute_failed" /\ a.more = "untold"
        /\ a.text \in {"provider", "redacted"}
        /\ (by[c] = "switch" /\ SwitchJob(q).op = "provision_webhook_endpoint")
              => a.text = "redacted"
    BY <2>1, FailureSays
  <2>3. /\ ~q.echoes => runs'[c] <= 1
        /\ JobOK(c)
    BY <1>1, <1>4 DEF CallOK
  <2>4. JobOK(c)'
    BY <1>4, <2>1, <2>3 DEF JobOK
  <2>5. CallOK(c)'
    BY <1>4, <2>1, <2>2, <2>3, <2>4 DEF CallOK
  <2>6. job[c].op = "provision_webhook_endpoint" =>
           by[c] = "switch" /\ job[c] = SwitchJob(q)
    BY <1>4, <2>3, JobsOf, ReconciledIsNot DEF JobOK
  <2>7. TextOK(c)'
    BY <1>4, <2>1, <2>2, <2>6 DEF TextOK
  <2>8. HoldOK(c)'
    BY <2>2 DEF HoldOK
  <2> QED
    BY <1>2, <1>3, <2>5, <2>7, <2>8, Frame DEF CallsInv
<1> QED
  BY <1>5, <1>6 DEF FailCall, ReadsAsUnsupported

(* A request is sent. *)
LEMMA SendStep ==
    ASSUME BridgeInv, NEW c \in Call, Send(c)
    PROVE  CallsInv'
<1>1. /\ BridgeTypes /\ Functions /\ CallOK(c) /\ HoldOK(c) /\ TextOK(c)
      /\ phase[c] = "calling" /\ request[c] = "none"
  BY DEF BridgeInv, CallsInv, Send
<1>2. by[c] # "nobody" /\ answer[c] = NoAnswer
  BY <1>1 DEF CallOK
<1>3. AccountFor(job[c], ask[c]) \in Scope
  <2>1. ask[c] \in Requests /\ JobOK(c)
    BY <1>1 DEF BridgeTypes, CallOK
  <2>2. job[c].bound = ask[c].bound
    BY <1>2, <2>1, JobsOf DEF JobOK
  <2> QED
    BY <2>1, <2>2, AccountIsScope
<1>4. BridgeTypes' /\ Functions'
  BY <1>1, <1>3 DEF Send, BridgeTypes, Functions
<1>5. \A d \in Call \ {c} : Same(d)
  BY <1>1 DEF Send, BridgeTypes, Same, listing
<1>6. /\ request'[c] = "sent" /\ runs'[c] = runs[c]
      /\ sentTo'[c] = sentTo[c] \union {AccountFor(job[c], ask[c])}
      /\ UNCHANGED <<phase, ask, by, job, answer>>
  BY <1>1 DEF Send, BridgeTypes
<1>7. CallOK(c)'
  BY <1>1, <1>2, <1>6, OkSays DEF CallOK, JobOK
<1>8. TextOK(c)' /\ HoldOK(c)'
  BY <1>2, <1>6, OkSays DEF TextOK, HoldOK
<1> QED
  BY <1>4, <1>5, <1>7, <1>8, Frame DEF CallsInv

(* The count of what was carried out goes up by one. *)
LEMMA Successor ==
    ASSUME NEW n \in Nat
    PROVE  n + 1 \in Nat /\ n + 1 # 0 /\ (n = 0 => n + 1 <= 1)
OBVIOUS

(* Stripe carries a request out, perhaps after its call was answered.      *)
LEMMA CarryOutStep ==
    ASSUME BridgeInv, NEW c \in Call, CarryOut(c)
    PROVE  CallsInv'
<1>1. /\ BridgeTypes /\ Functions /\ CallOK(c) /\ HoldOK(c) /\ TextOK(c)
      /\ request[c] = "sent"
  BY DEF BridgeInv, CallsInv, CarryOut
<1>2. /\ request' = [request EXCEPT ![c] = "carried out"]
      /\ runs' = [runs EXCEPT ![c] = @ + 1]
      /\ UNCHANGED <<phase, ask, by, job, answer, abandoned, sentTo, read>>
  BY DEF CarryOut, listing
<1>3. BridgeTypes'
  <2>1. runs \in [Call -> Nat] /\ runs[c] + 1 \in Nat
    BY <1>1, Successor DEF BridgeTypes
  <2>2. runs' \in [Call -> Nat]
    BY <1>2, <2>1
  <2>3. request' \in [Call -> {"none", "sent", "carried out"}]
    BY <1>1, <1>2 DEF BridgeTypes
  <2> QED
    BY <1>1, <1>2, <2>2, <2>3 DEF BridgeTypes
<1>4. Functions'
  BY <1>1, <1>2 DEF Functions
<1>5. \A d \in Call \ {c} : Same(d)
  BY <1>1, <1>2 DEF BridgeTypes, Same
<1>6. request'[c] = "carried out" /\ runs'[c] = runs[c] + 1 /\ runs[c] \in Nat
  BY <1>1, <1>2 DEF BridgeTypes
<1>7. CallOK(c)'
  <2>1. JobOK(c)'
    BY <1>1, <1>2 DEF CallOK, JobOK
  <2>2. by[c] # "nobody" /\ phase[c] # "listing" /\ answer[c].more # "yes"
    BY <1>1 DEF CallOK
  <2>3. ~ask[c].echoes => runs[c] = 0
    BY <1>1 DEF CallOK
  <2>4. phase[c] # "answered" => answer[c] = NoAnswer
    BY <1>1 DEF CallOK
  <2>5. /\ phase[c] \in {"idle", "dispatching"} => by[c] = "nobody"
        /\ sentTo[c] \subseteq {AccountFor(job[c], ask[c])}
        /\ answer[c].code \in {"bad_request", "unsupported_capability"} =>
              by[c] = "nobody"
    BY <1>1 DEF CallOK
  <2>6. runs'[c] # 0 /\ (runs[c] = 0 => runs'[c] <= 1)
    BY <1>6, Successor
  <2> QED
    BY <1>2, <1>6, <2>1, <2>2, <2>3, <2>4, <2>5, <2>6 DEF CallOK
<1>8. TextOK(c)' /\ HoldOK(c)'
  BY <1>1, <1>2, <1>6 DEF TextOK, HoldOK
<1> QED
  BY <1>3, <1>4, <1>5, <1>7, <1>8, Frame DEF CallsInv

(* The response of a request that was carried out. *)
LEMMA RespondStep ==
    ASSUME BridgeInv, NEW c \in Call, Respond(c)
    PROVE  CallsInv'
<1>1. /\ BridgeTypes /\ Functions /\ CallOK(c) /\ TextOK(c)
      /\ phase[c] = "calling" /\ request[c] = "carried out"
  BY DEF BridgeInv, CallsInv, Respond
<1>2. CASE Answer(c, Ok) /\ UNCHANGED <<by, job>>
  <2>1. BridgeTypes' /\ Functions'
    BY <1>1, <1>2 DEF Respond, Answer, BridgeTypes, Functions
  <2>2. \A d \in Call \ {c} : Same(d)
    BY <1>1, <1>2 DEF Respond, Answer, BridgeTypes, Functions, Same, listing
  <2>3. /\ phase'[c] = "answered" /\ answer'[c] = Ok /\ ask'[c] = ask[c]
        /\ by'[c] = by[c] /\ job'[c] = job[c] /\ runs'[c] = runs[c]
        /\ request'[c] = "none" /\ sentTo'[c] = sentTo[c]
    BY <1>1, <1>2 DEF Respond, Answer, BridgeTypes, Functions
  <2>4. JobOK(c)'
    BY <1>1, <2>3 DEF CallOK, JobOK
  <2>5. CallOK(c)'
    BY <1>1, <2>3, <2>4, OkSays DEF CallOK
  <2>6. TextOK(c)'
    BY <2>3, OkSays DEF TextOK
  <2>7. HoldOK(c)'
    BY <1>1, <2>3, OkSays DEF CallOK, HoldOK
  <2> QED
    BY <2>1, <2>2, <2>5, <2>6, <2>7, Frame DEF CallsInv
<1>3. CASE FailCall(c)
  BY <1>1, <1>3, FailStep DEF Respond
<1> QED
  BY <1>2, <1>3 DEF Respond

(* A handler gives its request up, which may be under way all the same.    *)
LEMMA GiveUpStep ==
    ASSUME BridgeInv, NEW c \in Call, GiveUp(c)
    PROVE  CallsInv'
<1> DEFINE q == ask[c]
           a == answer'[c]
<1>1. /\ BridgeTypes /\ Functions /\ CallOK(c) /\ TextOK(c)
      /\ phase[c] = "calling"
  BY DEF BridgeInv, CallsInv, GiveUp
<1>2. BridgeTypes' /\ Functions'
  BY <1>1 DEF GiveUp, Answer, BridgeTypes, Functions
<1>3. \A d \in Call \ {c} : Same(d)
  BY <1>1 DEF GiveUp, Answer, BridgeTypes, Functions, Same, listing
<1>4. /\ phase'[c] = "answered" /\ a = FailureOf(by[c], q, "provider")
      /\ UNCHANGED <<ask, by, job, request, runs, sentTo>>
  BY <1>1 DEF GiveUp, Answer, BridgeTypes, Functions
<1>5. /\ a.code = "execute_failed" /\ a.more = "untold"
      /\ a.text \in {"provider", "redacted"}
      /\ (by[c] = "switch" /\ SwitchJob(q).op = "provision_webhook_endpoint")
            => a.text = "redacted"
  BY <1>4, FailureSays
<1>6. CallOK(c)'
  BY <1>1, <1>4, <1>5 DEF CallOK, JobOK
<1>7. job[c].op = "provision_webhook_endpoint" =>
         by[c] = "switch" /\ job[c] = SwitchJob(q)
  BY <1>1, JobsOf, ReconciledIsNot DEF CallOK, JobOK
<1>8. TextOK(c)'
  BY <1>4, <1>5, <1>7 DEF TextOK
<1>9. HoldOK(c)'
  BY <1>5 DEF HoldOK
<1> QED
  BY <1>2, <1>3, <1>6, <1>8, <1>9, Frame DEF CallsInv

(* A list is over, and its caller is told. *)
LEMMA EndListStep ==
    ASSUME BridgeInv, NEW c \in Call, EndList(c)
    PROVE  CallsInv'
<1> DEFINE q == ask[c]
           a == answer'[c]
<1>1. BridgeTypes /\ Functions /\ CallOK(c) /\ TextOK(c) /\ phase[c] = "listing"
  BY DEF BridgeInv, CallsInv, EndList
<1>2. BridgeTypes' /\ Functions'
  BY <1>1 DEF EndList, Answer, BridgeTypes, Functions
<1>3. \A d \in Call \ {c} : Same(d)
  BY <1>1 DEF EndList, Answer, BridgeTypes, Functions, Same, listing
<1>4. /\ phase'[c] = "answered" /\ ask'[c] = q /\ by'[c] = by[c] /\ job'[c] = job[c]
      /\ runs'[c] = runs[c] /\ read'[c] = read[c] /\ runs[c] \in Nat
      /\ request'[c] = request[c] /\ sentTo'[c] = sentTo[c] /\ request[c] = "none"
      /\ by[c] \in {"reconciler", "switch"}
      /\ read[c].scope = AccountFor(job[c], q)
  BY <1>1 DEF EndList, Answer, BridgeTypes, Functions, listing, CallOK
<1>5. \/ a = [Ok EXCEPT !.more = ToldMore(c)] /\ read[c].state = "done"
      \/ a = FailureOf(by[c], q, "provider")
  BY <1>1 DEF EndList, Answer, BridgeTypes, Functions
<1>6. /\ a.code \in {"ok", "execute_failed"}
      /\ a.code = "ok" => read[c].state = "done"
      /\ a.text \in {"none", "provider", "redacted"}
      /\ (by[c] = "switch" /\ SwitchJob(q).op = "provision_webhook_endpoint")
            => a.text # "provider"
  <2>1. CASE a = [Ok EXCEPT !.more = ToldMore(c)] /\ read[c].state = "done"
    BY <2>1 DEF Ok, NoAnswer
  <2>2. CASE a = FailureOf(by[c], q, "provider")
    BY <2>2, FailureSays
  <2> QED
    BY <1>5, <2>1, <2>2
<1> HIDE DEF a
<1>7. JobOK(c)'
  BY <1>1, <1>4 DEF CallOK, JobOK
<1>8. CallOK(c)'
  BY <1>1, <1>4, <1>6, <1>7 DEF CallOK, a
<1>9. job[c].op = "provision_webhook_endpoint" =>
         by[c] = "switch" /\ job[c] = SwitchJob(q)
  <2>1. JobOK(c)
    BY <1>1 DEF CallOK
  <2> QED
    BY <1>4, <2>1, JobsOf, ReconciledIsNot DEF JobOK
<1>10. TextOK(c)'
  BY <1>4, <1>6, <1>9 DEF TextOK, a
<1>11. HoldOK(c)'
  BY <1>4, <1>6 DEF HoldOK, a
<1> QED
  BY <1>2, <1>3, <1>8, <1>10, <1>11, Frame DEF CallsInv

(* A caller that was told of more asks for it. *)
LEMMA GoOnStep ==
    ASSUME BridgeInv, NEW c \in Call, GoOn(c)
    PROVE  CallsInv'
<1>1. /\ BridgeTypes /\ Functions /\ CallOK(c) /\ TextOK(c) /\ ListingTypeOK
      /\ phase[c] = "answered" /\ answer[c].more = "yes"
      /\ job[c].op = "observe_charges"
  BY DEF BridgeInv, CallsInv, TypeOK, GoOn
<1>2. BridgeTypes' /\ Functions'
  BY <1>1 DEF GoOn, BridgeTypes, Functions
<1>3. /\ \A d \in Call : read'[d].scope = read[d].scope
      /\ \A d \in Call \ {c} : read'[d] = read[d]
  BY <1>1 DEF GoOn, Continue, ListingTypeOK, Call
<1>4. \A d \in Call \ {c} : Same(d)
  BY <1>1, <1>3 DEF GoOn, BridgeTypes, Functions, Same
<1>5. /\ phase'[c] = "listing" /\ answer'[c] = NoAnswer /\ ask'[c] = ask[c]
      /\ by'[c] = by[c] /\ job'[c] = job[c] /\ runs'[c] = runs[c]
      /\ request'[c] = request[c] /\ sentTo'[c] = sentTo[c]
  BY <1>1 DEF GoOn, BridgeTypes, Functions
<1>6. by[c] # "nobody"
  <2>1. Nobody.op = ""
    BY DEF Nobody
  <2>2. JobOK(c)
    BY <1>1 DEF CallOK
  <2> QED
    BY <1>1, <2>1, <2>2 DEF JobOK
<1>7. JobOK(c)'
  BY <1>1, <1>5 DEF CallOK, JobOK
<1>8. CallOK(c)'
  BY <1>1, <1>3, <1>5, <1>6, <1>7, OkSays DEF CallOK
<1>9. TextOK(c)' /\ HoldOK(c)'
  BY <1>5, OkSays DEF TextOK, HoldOK
<1> QED
  BY <1>2, <1>4, <1>8, <1>9, Frame DEF CallsInv

(* A step that touches no call. *)
LEMMA NoCallStep ==
    ASSUME BridgeInv, \A c \in Call : Same(c),
           UNCHANGED <<phase, ask, by, job, answer, request, runs, sentTo>>,
           abandoned' \in [Call -> BOOLEAN]
    PROVE  CallsInv'
<1>1. BridgeTypes' /\ Functions'
  BY DEF BridgeInv, CallsInv, BridgeTypes, Functions
<1> QED
  BY <1>1, Frame DEF CallsInv

-----------------------------------------------------------------------------
(* The bridge reads as Listing says *)

(* A list is started with a limit, a cursor and an account as in Listing.  *)
LEMMA LaunchLists ==
    ASSUME BridgeTypes, NEW c \in Call, NEW who, NEW j, j.bound = ask[c].bound,
           Launch(c, who, j)
    PROVE  [ListingNext]_listing
<1>1. ask[c] \in Requests
  BY DEF BridgeTypes
<1>2. /\ AccountFor(j, ask[c]) \in Scope
      /\ Cursor(j, ask[c]) \in Id \union {Top}
      /\ ask[c].limit \in Int
  BY <1>1, AccountIsScope, CursorOfRead, BridgeAssumption
<1>3. \/ UNCHANGED listing
      \/ Start(c, AccountFor(j, ask[c]), ask[c].limit, Cursor(j, ask[c]))
  BY Zenon DEF Launch
<1> QED
  BY <1>2, <1>3 DEF ListingNext, Call

(* Every step of the bridge is a step of Listing, or leaves it alone.      *)
LEMMA StepLists ==
    ASSUME BridgeTypes, [Next]_vars
    PROVE  [ListingNext]_listing
<1>1. ASSUME NEW c \in Call, Dispatch(c) PROVE [ListingNext]_listing
  <2>1. ASSUME NEW name PROVE ReconcileJob(ask[c], name).bound = ask[c].bound
    BY JobsOf
  <2>2. SwitchJob(ask[c]).bound = ask[c].bound
    BY JobsOf
  <2> QED
    BY <1>1, <2>1, <2>2, LaunchLists DEF Dispatch
<1>2. ASSUME NEW c \in Call, NextPage(c) \/ BreakOff(c) PROVE [ListingNext]_listing
  BY <1>2 DEF NextPage, BreakOff, ListingNext, Call
<1>3. ASSUME NEW c \in Call, GoOn(c) PROVE [ListingNext]_listing
  <2>1. ask[c].limit \in Int
    BY BridgeAssumption DEF BridgeTypes
  <2> QED
    BY <1>3, <2>1 DEF GoOn, ListingNext, Call
<1>4. ASSUME NEW c \in Call,
             \/ Send(c) \/ CarryOut(c) \/ Respond(c) \/ Deny(c) \/ GiveUp(c)
             \/ EndList(c) \/ Abandon(c)
      PROVE  UNCHANGED listing
  BY <1>4 DEF Send, CarryOut, Respond, Deny, GiveUp, EndList, Abandon
<1>5. ASSUME NEW c \in Call, NEW q \in Requests, Receive(c, q)
      PROVE  UNCHANGED listing
  BY <1>5 DEF Receive
<1>6. ASSUME Change PROVE ListingNext
  BY <1>6 DEF ListingNext
<1>7. ASSUME UNCHANGED vars PROVE UNCHANGED listing
  BY <1>7 DEF vars
<1> QED
  BY <1>1, <1>2, <1>3, <1>4, <1>5, <1>6, <1>7 DEF Next, Step

(* Every step keeps what is true of the calls. *)
LEMMA CallsStep ==
    ASSUME BridgeInv, [Next]_vars
    PROVE  CallsInv'
<1>1. BridgeTypes /\ ListingTypeOK
  BY DEF BridgeInv, CallsInv, TypeOK
<1>2. ASSUME NEW c \in Call, Deny(c) PROVE CallsInv'
  BY <1>2, FailStep DEF Deny
<1>3. ASSUME NEW c \in Call, NextPage(c) \/ BreakOff(c) PROVE CallsInv'
  <2>1. /\ \A d \in Call : read'[d].scope = read[d].scope
        /\ \A d \in Call \ {c} : read'[d] = read[d]
        /\ phase[c] = "listing"
    <3>1. read \in [Call -> [state: {"idle", "reading", "done", "failed"},
                             scope: Scope, limit: 1..MaxLimit,
                             after: Id \union {Top}, items: SUBSET Id,
                             more: BOOLEAN]]
      BY <1>1 DEF ListingTypeOK, Call
    <3>2. CASE Page(c)
      <4>1. PICK v : v = read[c]
        OBVIOUS
      <4>2. read' = [read EXCEPT ![c] =
                [v EXCEPT !.items = v.items \union Taken(v),
                          !.more = (Taken(v) # PageOf(v)),
                          !.state = IF Taken(v) # PageOf(v) \/ PageOf(v) = Rest(v)
                                    THEN "done" ELSE "reading"]]
        BY <1>1, <3>2, <4>1, PageEffect DEF Call
      <4>3. read'[c].scope = read[c].scope
        BY <3>1, <4>1, <4>2
      <4>4. \A d \in Call \ {c} : read'[d] = read[d]
        BY <3>1, <4>2
      <4> QED
        BY <1>3, <4>3, <4>4 DEF NextPage, BreakOff
    <3>3. CASE PageFails(c)
      BY <1>1, <1>3, <3>3 DEF PageFails, ListingTypeOK, Call, NextPage, BreakOff
    <3> QED
      BY <1>3, <3>2, <3>3 DEF NextPage, BreakOff
  <2>2. UNCHANGED bridge
    BY <1>3 DEF NextPage, BreakOff
  <2> QED
    BY <1>1, <2>1, <2>2, NoCallStep DEF Same, bridge, BridgeTypes
<1>4. ASSUME NEW c \in Call, Abandon(c) PROVE CallsInv'
  <2>1. abandoned' \in [Call -> BOOLEAN]
    BY <1>1, <1>4 DEF Abandon, BridgeTypes
  <2>2. UNCHANGED <<read, phase, ask, by, job, answer, request, runs, sentTo>>
    BY <1>4 DEF Abandon, listing
  <2>3. \A d \in Call : Same(d)
    BY <2>2 DEF Same
  <2> QED
    BY <2>1, <2>2, <2>3, NoCallStep
<1>5. ASSUME Change, UNCHANGED bridge PROVE CallsInv'
  <2>1. UNCHANGED read
    BY <1>5 DEF Change, Appear, Vanish
  <2> QED
    BY <1>1, <1>5, <2>1, NoCallStep DEF Same, bridge, BridgeTypes
<1>6. ASSUME UNCHANGED vars PROVE CallsInv'
  BY <1>1, <1>6, NoCallStep DEF vars, listing, Same, bridge, BridgeTypes
<1> QED
  BY <1>2, <1>3, <1>4, <1>5, <1>6, ReceiveStep, DispatchStep, SendStep,
     CarryOutStep, RespondStep, GiveUpStep, EndListStep, GoOnStep DEF Next, Step

-----------------------------------------------------------------------------
(* Verdicts *)

(* A verification sends nothing and is no list; its verdict is that of     *)
(* VerifySignature at the time it gives.                                   *)
VerdictOK(c) ==
    job[c].op = "verify_webhook_signature" =>
        /\ phase[c] \notin {"calling", "listing"}
        /\ answer[c].code = "ok" =>
              /\ answer[c].at \in Now
              /\ answer[c].valid <=>
                    VerifySignature(ask[c].payload, ask[c].header, ask[c].secret,
                                    Allowance(ask[c].tol), answer[c].at)

Verdicts == \A c \in Call : VerdictOK(c)

(* A dispatcher leaves a verification with its verdict.                    *)
LEMMA LaunchVerdict ==
    ASSUME BridgeInv, Verdicts, NEW c \in Call, NEW who, NEW j,
           phase[c] = "dispatching",
           Launch(c, who, j), UNCHANGED <<ask, abandoned, request, runs, sentTo>>
    PROVE  Verdicts'
<1> DEFINE q == ask[c]
           a == answer'[c]
<1>1. BridgeTypes /\ Functions /\ CallOK(c)
  BY DEF BridgeInv, CallsInv
<1>2. \A d \in Call \ {c} : /\ phase'[d] = phase[d] /\ ask'[d] = ask[d]
                            /\ job'[d] = job[d] /\ answer'[d] = answer[d]
  BY <1>1 DEF Launch, Answer, BridgeTypes, Functions
<1>3. job'[c] = j /\ ask'[c] = q /\ answer[c] = NoAnswer
  BY <1>1 DEF Launch, Functions, CallOK
<1>4. ASSUME NEW x, Answer(c, x) PROVE phase'[c] = "answered" /\ a = x
  BY <1>1, <1>4 DEF Answer, BridgeTypes, Functions
<1>5. ASSUME j.op = "verify_webhook_signature"
      PROVE  /\ phase'[c] = "answered"
             /\ a.code = "ok" =>
                   /\ a.at \in Now
                   /\ a.valid <=> VerifySignature(q.payload, q.header, q.secret,
                                                  Allowance(q.tol), a.at)
  <2>1. CASE Answer(c, FailureOf(who, q, "adapter"))
    BY <1>4, <2>1, FailureSays
  <2>2. CASE Answer(c, FailureOf(who, q, "unsupported"))
    BY <1>4, <2>2, FailureSays
  <2>3. ASSUME NEW now \in Now,
               Answer(c, [Ok EXCEPT
                    !.valid = VerifySignature(q.payload, q.header, q.secret,
                                              Allowance(q.tol), now),
                    !.at = now])
        PROVE  /\ phase'[c] = "answered"
               /\ a.at = now
               /\ a.valid <=> VerifySignature(q.payload, q.header, q.secret,
                                              Allowance(q.tol), now)
    <3> DEFINE v == VerifySignature(q.payload, q.header, q.secret,
                                    Allowance(q.tol), now)
    <3>1. phase'[c] = "answered" /\ a = [Ok EXCEPT !.valid = v, !.at = now]
      BY <1>4, <2>3, Zenon
    <3> HIDE DEF a, v
    <3>2. a.at = now /\ a.valid = v
      BY <3>1 DEF Ok, NoAnswer
    <3> QED
      BY <3>1, <3>2 DEF v
  <2>4. ~Lists(j, q)
    BY <1>5 DEF Lists
  <2>5. \/ Answer(c, FailureOf(who, q, "adapter"))
        \/ Answer(c, FailureOf(who, q, "unsupported"))
        \/ \E now \in Now :
              Answer(c, [Ok EXCEPT
                    !.valid = VerifySignature(q.payload, q.header, q.secret,
                                              Allowance(q.tol), now),
                    !.at = now])
    BY <1>5, <2>4, Zenon DEF Launch
  <2> HIDE DEF a
  <2> QED
    BY <2>1, <2>2, <2>3, <2>5
<1>6. VerdictOK(c)'
  BY <1>3, <1>5 DEF VerdictOK
<1>7. ASSUME NEW d \in Call \ {c} PROVE VerdictOK(d)'
  BY <1>2, <1>7 DEF Verdicts, VerdictOK
<1> QED
  BY <1>6, <1>7 DEF Verdicts

(* Every step keeps the verdicts. *)
LEMMA VerdictsStep ==
    ASSUME BridgeInv, Verdicts, [Next]_vars
    PROVE  Verdicts'
<1>1. BridgeTypes /\ Functions
  BY DEF BridgeInv, CallsInv
<1>2. ASSUME NEW c \in Call, Dispatch(c) PROVE Verdicts'
  BY <1>2, LaunchVerdict DEF Dispatch
<1>3. ASSUME NEW c \in Call, NEW q \in Requests, Receive(c, q) PROVE Verdicts'
  <2>1. job' = job /\ \A d \in Call \ {c} :
           phase'[d] = phase[d] /\ ask'[d] = ask[d] /\ answer'[d] = answer[d]
    BY <1>1, <1>3 DEF Receive, Answer, BridgeTypes, Functions
  <2>2. job[c].op = ""
    <3>1. phase[c] = "idle" /\ by[c] = "nobody" /\ JobOK(c)
      BY <1>3 DEF Receive, BridgeInv, CallsInv, CallOK
    <3>2. job[c] = Nobody
      BY <3>1 DEF JobOK
    <3>3. Nobody.op = ""
      BY DEF Nobody
    <3> QED
      BY <3>2, <3>3
  <2>3. VerdictOK(c)'
    BY <2>1, <2>2 DEF VerdictOK
  <2>4. ASSUME NEW d \in Call \ {c} PROVE VerdictOK(d)'
    BY <2>1, <2>4 DEF Verdicts, VerdictOK
  <2> QED
    BY <2>3, <2>4 DEF Verdicts
<1>4. ASSUME NEW c \in Call, FailCall(c), UNCHANGED ask, phase[c] = "calling"
      PROVE  Verdicts'
  <2>1. \A d \in Call \ {c} :
           phase'[d] = phase[d] /\ job'[d] = job[d] /\ answer'[d] = answer[d]
    BY <1>1, <1>4 DEF FailCall, Answer, BridgeTypes, Functions
  <2>2. JobOK(c) /\ VerdictOK(c)
    BY DEF BridgeInv, CallsInv, CallOK, Verdicts
  <2>3. VerdictOK(c)'
    <3>1. \/ by[c] = "reconciler" /\ job' = [job EXCEPT ![c] = SwitchJob(ask[c])]
          \/ job' = job
      BY <1>4 DEF FailCall
    <3>2. CASE by[c] = "reconciler" /\ job' = [job EXCEPT ![c] = SwitchJob(ask[c])]
      <4>1. SwitchJob(ask[c]).op \in Reconciled
        BY <2>2, <3>2, SwitchAgrees DEF JobOK
      <4>2. job'[c].op \in Reconciled
        BY <1>1, <3>2, <4>1 DEF Functions
      <4> QED
        BY <4>2, ReconciledIsNot DEF VerdictOK
    <3>3. CASE job' = job
      BY <1>4, <2>2, <3>3 DEF VerdictOK
    <3> QED
      BY <3>1, <3>2, <3>3
  <2>4. ASSUME NEW d \in Call \ {c} PROVE VerdictOK(d)'
    BY <1>4, <2>1, <2>4 DEF Verdicts, VerdictOK
  <2> QED
    BY <2>3, <2>4 DEF Verdicts
<1>5. ASSUME NEW c \in Call, NEW x, Answer(c, x), UNCHANGED <<ask, job>>,
             phase[c] \in {"calling", "listing"}
      PROVE  Verdicts'
  <2>1. \A d \in Call \ {c} : phase'[d] = phase[d] /\ answer'[d] = answer[d]
    BY <1>1, <1>5 DEF Answer, BridgeTypes, Functions
  <2>2. job'[c].op # "verify_webhook_signature"
    BY <1>5 DEF Verdicts, VerdictOK
  <2>3. VerdictOK(c)'
    BY <2>2 DEF VerdictOK
  <2>4. ASSUME NEW d \in Call \ {c} PROVE VerdictOK(d)'
    BY <1>5, <2>1, <2>4 DEF Verdicts, VerdictOK
  <2> QED
    BY <2>3, <2>4 DEF Verdicts
<1>6. ASSUME NEW c \in Call, Respond(c) \/ Deny(c) \/ GiveUp(c) \/ EndList(c)
      PROVE  Verdicts'
  BY <1>4, <1>5, <1>6, Zenon DEF Respond, Deny, GiveUp, EndList
<1>7. ASSUME NEW c \in Call, GoOn(c) PROVE Verdicts'
  <2>1. /\ \A d \in Call \ {c} : phase'[d] = phase[d] /\ answer'[d] = answer[d]
        /\ UNCHANGED <<ask, job>> /\ job[c].op = "observe_charges"
    BY <1>1, <1>7 DEF GoOn, BridgeTypes, Functions
  <2>2. VerdictOK(c)'
    BY <2>1 DEF VerdictOK
  <2>3. ASSUME NEW d \in Call \ {c} PROVE VerdictOK(d)'
    BY <2>1, <2>3 DEF Verdicts, VerdictOK
  <2> QED
    BY <2>2, <2>3 DEF Verdicts
<1>8. ASSUME UNCHANGED <<phase, ask, job, answer>> PROVE Verdicts'
  BY <1>8 DEF Verdicts, VerdictOK
<1> QED
  BY <1>2, <1>3, <1>6, <1>7, <1>8
     DEF Next, Step, Send, CarryOut, NextPage, BreakOff, Abandon, vars, bridge

-----------------------------------------------------------------------------
(* The theorems *)

(* The bridge and its lists keep their inductive invariants: by each name  *)
(* a call may have, it is run by one dispatcher, on the job rebuilt from   *)
(* its own message.                                                        *)
THEOREM BridgeInvariant == Spec => [](BridgeInv /\ ListingInv)
<1>1. Init => BridgeInv /\ ListingInv
  BY BridgeInit, ListingInit DEF Init
<1>2. (BridgeInv /\ ListingInv) /\ [Next]_vars => (BridgeInv /\ ListingInv)'
  <2> SUFFICES ASSUME BridgeInv, ListingInv, [Next]_vars
               PROVE  BridgeInv' /\ ListingInv'
    OBVIOUS
  <2>1. ListingInv'
    BY StepLists, ListingStep DEF BridgeInv, CallsInv
  <2>2. CallsInv'
    BY CallsStep
  <2>3. TypeOK'
    BY <2>1, <2>2 DEF TypeOK, CallsInv, BridgeTypes, ListingInv
  <2> QED
    BY <2>1, <2>2, <2>3 DEF BridgeInv
<1> QED
  BY <1>1, <1>2, PTL DEF Spec

(* Reads keep their limits and their accounts, calls the places they go    *)
(* through.                                                                *)
THEOREM BridgeTypeCorrect == Spec => []TypeOK
<1>1. BridgeInv => TypeOK
  BY DEF BridgeInv
<1> QED
  BY <1>1, BridgeInvariant, PTL

(* What the bridge does to its lists is what Listing says: every behaviour *)
(* of the bridge is one of Listing.                                        *)
THEOREM ReadsAsListing == Spec => ListingSpec
<1>1. Init => InitListing
  BY DEF Init
<1>2. BridgeInv /\ [Next]_vars => [ListingNext]_listing
  BY StepLists DEF BridgeInv, CallsInv
<1>3. Spec => []BridgeInv
  BY BridgeInvariant, PTL
<1> QED
  BY <1>1, <1>2, <1>3, PTL DEF Spec, ListingSpec

(* Thus no list of an operation or of the console has a gap, gives an      *)
(* object twice or is longer than asked for, and has_more is true of it.   *)
THEOREM ListsSound == Spec => [](OnceEach /\ MoreIsTrue)
BY ReadsAsListing, EachOnce, Truthful, PTL

(* And each of them takes two requests at most. *)
THEOREM ListsShort == Spec => TwoPagesAtMost
BY ReadsAsListing, TwoPages, PTL

(* Whichever way a call takes through stash and rebuild, and even if both  *)
(* dispatchers run it, it works with the credentials and for the instance  *)
(* of its own message, and reaches no other account than that instance's,  *)
(* but for what WorksElsewhere lists.                                      *)
THEOREM OwnInstance == Spec => []ActsForItsInstance
<1>1. BridgeInv => ActsForItsInstance
  <2> SUFFICES ASSUME BridgeInv, NEW c \in Call, by[c] # "nobody"
               PROVE  LET q == ask[c] IN
                      /\ job[c].creds = q.creds
                      /\ (/\ InstanceId(q) # NoInstance
                          /\ q.named \in {Absent, InstanceId(q)})
                         => job[c].inst = InstanceId(q)
                      /\ ~WorksElsewhere(job[c].op, q.query) =>
                            Reached(c) \subseteq
                               IF q.bound # Platform THEN {q.bound}
                                                     ELSE {q.account}
    BY DEF ActsForItsInstance
  <2> DEFINE q == ask[c]
  <2>1. JobOK(c) /\ q \in Requests
    BY DEF BridgeInv, CallsInv, CallOK, BridgeTypes
  <2>2. InstanceId(q) # Absent
    BY <2>1, BridgeAssumption DEF InstanceId
  <2>3. /\ job[c].creds = q.creds
        /\ job[c].bound = q.bound
        /\ (/\ InstanceId(q) # NoInstance
            /\ q.named \in {Absent, InstanceId(q)})
           => job[c].inst = InstanceId(q)
    <3>1. CASE job[c] = SwitchJob(q)
      BY <3>1 DEF SwitchJob
    <3>2. ASSUME NEW name, job[c] = ReconcileJob(q, name)
          PROVE  /\ job[c].creds = q.creds
                 /\ job[c].bound = q.bound
                 /\ (/\ InstanceId(q) # NoInstance
                     /\ q.named \in {Absent, InstanceId(q)})
                    => job[c].inst = InstanceId(q)
      BY <2>2, <3>2 DEF ReconcileJob, NamedInstance
    <3> QED
      BY <2>1, <3>1, <3>2 DEF JobOK
  <2>4. Reached(c) \subseteq {AccountFor(job[c], q)}
    BY DEF Reached, BridgeInv, CallsInv, CallOK
  <2> QED
    BY <2>3, <2>4, AccountIsBound
<1> QED
  BY <1>1, BridgeInvariant, PTL

(* The instance of last resort is the least of those loaded, so it is the  *)
(* same in whatever order their map is ranged over.                        *)
THEOREM DefaultIsLeast ==
    ASSUME Loaded # {}
    PROVE  /\ DefaultInstance \in Loaded
           /\ \A n \in Loaded : DefaultInstance <= n
<1>1. Loaded \subseteq Nat
  BY ConfigurationAssumption DEF Loaded
<1>2. \E first \in Loaded : \A n \in Loaded : first <= n
  BY <1>1, LeastExists
<1> QED
  BY <1>2 DEF DefaultInstance

(* As long as any instance is loaded, no reconciler runs without one.      *)
THEOREM NoneNameless ==
    Loaded # {} =>
        (Spec => [](\A c \in Call : by[c] = "reconciler" => job[c].inst # NoInstance))
<1> SUFFICES ASSUME Loaded # {}
             PROVE  Spec => [](\A c \in Call :
                                 by[c] = "reconciler" => job[c].inst # NoInstance)
  OBVIOUS
<1>1. DefaultInstance # NoInstance
  BY DefaultIsLeast DEF Loaded, NoInstance
<1>2. BridgeInv => \A c \in Call : by[c] = "reconciler" => job[c].inst # NoInstance
  <2> SUFFICES ASSUME BridgeInv, NEW c \in Call, by[c] = "reconciler"
               PROVE  job[c].inst # NoInstance
    OBVIOUS
  <2>1. JobOK(c)
    BY DEF BridgeInv, CallsInv, CallOK
  <2>2. PICK name : job[c] = ReconcileJob(ask[c], name)
    BY <2>1 DEF JobOK
  <2> QED
    BY <1>1, <2>2 DEF ReconcileJob
<1> QED
  BY <1>2, BridgeInvariant, PTL

(* No two dispatchers carry out one message, unless an error of Stripe's   *)
(* reads like one of the SDK.                                              *)
THEOREM OnlyOneDispatcher == Spec => []OneDispatcher
<1>1. BridgeInv => OneDispatcher
  BY DEF BridgeInv, CallsInv, CallOK, OneDispatcher
<1> QED
  BY <1>1, BridgeInvariant, PTL

(* No error text of Stripe leaves in the answer to a provision. *)
THEOREM Redacted == Spec => []ProvisionRedacted
<1>1. BridgeInv => ProvisionRedacted
  BY DEF BridgeInv, CallsInv, TextOK, ProvisionRedacted
<1> QED
  BY <1>1, BridgeInvariant, PTL

(* An operation of the catalogue is never answered as unsupported. *)
THEOREM Served == Spec => []CatalogueServed
<1>1. BridgeInv => CatalogueServed
  BY DEF BridgeInv, CallsInv, TextOK, InCatalogue, CatalogueServed
<1> QED
  BY <1>1, BridgeInvariant, PTL

(* What is answered holds, whatever Stripe does with a request after its   *)
(* call was answered.                                                      *)
THEOREM AnswersTrue == Spec => []AnswersHold
<1>1. BridgeInv => AnswersHold
  BY DEF BridgeInv, CallsInv, HoldOK, AnswersHold
<1> QED
  BY <1>1, BridgeInvariant, PTL

(* verify_webhook_signature says "valid" of every genuine header, and of   *)
(* no other unless the time it names is out of the range of an int64: of   *)
(* any length, at any time and for any tolerance.                          *)
THEOREM ValidGenuine == Spec => []ValidIffGenuine
<1>1. Init => Verdicts
  <2>1. Nobody.op # "verify_webhook_signature"
    BY DEF Nobody
  <2>2. Init => \A c \in Call : job[c] = Nobody
    BY DEF Init, InitBridge
  <2> QED
    BY <2>1, <2>2 DEF Verdicts, VerdictOK
<1>2. BridgeInv /\ Verdicts /\ [Next]_vars => Verdicts'
  BY VerdictsStep
<1>3. BridgeInv /\ Verdicts => ValidIffGenuine
  <2> SUFFICES ASSUME BridgeInv, Verdicts, NEW c \in Call, answer[c].code = "ok",
                      job[c].op = "verify_webhook_signature"
               PROVE  LET q == ask[c]
                          genuine == Genuine(q.payload, q.header, q.secret,
                                             IF q.tol > 0 THEN q.tol
                                             ELSE DefaultTolerance, answer[c].at)
                      IN  /\ genuine => answer[c].valid
                          /\ answer[c].valid =>
                                genuine \/ OutOfRange(q.header, answer[c].at)
    BY DEF ValidIffGenuine
  <2> DEFINE q == ask[c]
             tol == IF q.tol > 0 THEN q.tol ELSE DefaultTolerance
  <2>1. /\ Len(q.header) \in Nat /\ DOMAIN q.header = 1 .. Len(q.header)
        /\ q.tol \in Word
    BY BridgeAssumption DEF BridgeInv, CallsInv, BridgeTypes
  <2>2. Allowance(q.tol) = tol /\ tol \in Word
    BY <2>1, SignatureAssumption DEF Allowance, Word
  <2>3. /\ answer[c].at \in Now
        /\ answer[c].valid <=> VerifySignature(q.payload, q.header, q.secret,
                                               Allowance(q.tol), answer[c].at)
    BY DEF Verdicts, VerdictOK
  <2> HIDE DEF q, tol
  <2> DEFINE verified == VerifySignature(q.payload, q.header, q.secret, tol,
                                         answer[c].at)
             genuine == Genuine(q.payload, q.header, q.secret, tol, answer[c].at)
  <2>4. /\ genuine => verified
        /\ verified => genuine \/ OutOfRange(q.header, answer[c].at)
    BY <2>1, <2>2, <2>3, VerifiedIffGenuine
  <2> QED
    BY <2>2, <2>3, <2>4 DEF q, tol
<1>4. Spec => []BridgeInv
  BY BridgeInvariant, PTL
<1> QED
  BY <1>1, <1>2, <1>3, <1>4, PTL DEF Spec
=============================================================================
