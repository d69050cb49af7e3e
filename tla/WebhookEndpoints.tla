-------------------------- MODULE WebhookEndpoints --------------------------
(***************************************************************************)
(* The webhook_endpoint operations of providers/stripe/adapter/adapter.go: *)
(* provision, ensure, observe and destroy.                                 *)
(*                                                                         *)
(* Each operation is a call of several requests to Stripe: it reads, it    *)
(* judges what it read, then it writes.  Calls of several instances and    *)
(* the people at Stripe's dashboard interleave between those requests.  A  *)
(* request may fail, or be executed and have its response lost; stripe-go  *)
(* then sends it again under the same idempotency key.                     *)
(*                                                                         *)
(* Stripe is external and modelled as the adapter uses it: endpoints       *)
(* scoped by account, a list, a 404, and for every idempotency key the     *)
(* parameters and the response of its first execution, kept for a day.     *)
(***************************************************************************)
EXTENDS Integers, FiniteSets

CONSTANTS
    Call,           \* identities of calls of the adapter, each used once
    Instance,       \* integration instances
    Account,        \* connected Stripe accounts
    Platform,       \* the platform account: no Stripe-Account header
    Url, NoUrl,
    Endpoint,       \* ids of webhook endpoints, never used twice by Stripe
    Handmade,       \* those of the endpoints the dashboard may create
    NoEndpoint,
    Field,          \* what an update may change besides the URL
    Value,          \* values of fields
    Default,        \* the value of a field that a creation leaves out
    Unset,          \* the wish of a call that says nothing of a field
    CallerKey,      \* idempotency keys callers choose
    NoKey,
    Gate,           \* reasons to refuse a request for what it lacks
    Nobody,         \* the owner of an endpoint without reserved metadata
    Outside,        \* the maker of an endpoint no call created
    Bound,          \* stripe_account_id of each instance, or Platform
    OptedIn,        \* allow_sensitive_webhook_endpoint_creation
    Requests,       \* the requests callers may send
    Rotates,        \* whether operators change the generation after a deletion
    MaxGeneration   \* bound on the generations an instance goes through

Scopes == Account \union {Platform}
Wanted == [Field -> Value \union {Unset}]
Request ==
    [op: {"provision", "ensure", "observe", "destroy"}, inst: Instance,
     account: Scopes, id: Endpoint \union {NoEndpoint},
     url: Url \union {NoUrl}, connect: BOOLEAN, want: Wanted,
     override: Instance \union {Nobody}, key: CallerKey \union {NoKey},
     lacks: SUBSET Gate]

ASSUME EndpointsAssumption ==
    /\ Platform \notin Account
    /\ NoUrl \notin Url /\ Url # {}
    /\ NoEndpoint \notin Endpoint /\ Handmade \subseteq Endpoint
    /\ "metadata" \in Field
    /\ Default \in Value /\ Unset \notin Value
    /\ NoKey \notin CallerKey
    /\ Nobody \notin Instance
    /\ Outside \notin Call
    /\ Bound \in [Instance -> Scopes]
    /\ OptedIn \subseteq Instance
    /\ Requests \subseteq Request /\ Requests # {}
    /\ \A q \in Requests : q.op = "provision" => q.url # NoUrl
    /\ \A q \in Requests :
          q.op = "ensure" => (q.id # NoEndpoint \/ q.url # NoUrl)
    /\ \A q \in Requests : q.op = "destroy" => q.id # NoEndpoint
    /\ Rotates \in BOOLEAN
    /\ MaxGeneration \in Nat \ {0}

VARIABLES
    \* Stripe:
    born,       \* the endpoints that exist or existed
    live,       \* the endpoints that exist
    rec,        \* the content of each, as it is or as it last was
    saved,      \* the responses kept for idempotency keys
    \* The operators' configuration:
    generation, \* webhook_endpoint_provisioning_generation of each instance
    stale,      \* the instances that lost an endpoint of this generation
    \* The calls:
    pc,         \* the request to Stripe each call is about to make
    req,        \* what each call was asked
    gen,        \* the generation its configuration held
    target,     \* the endpoint it judged
    snap,       \* what that endpoint held when it was read
    result,     \* how it ended, and for which endpoint
    \* History, which no step reads except to rotate generations:
    maker,      \* the call that created each endpoint
    moved,      \* the endpoints whose URL was ever changed
    acted,      \* <<c, e>>: call c really changed or deleted e
    raced,      \* the endpoints handed over while an update was on its way
    gone        \* the endpoints that were dead when each call began

stripe == <<born, live, rec, saved, maker, moved, acted, raced>>
config == <<generation, stale>>
given == <<req, gen, gone>>
judged == <<target, snap>>
vars == <<born, live, rec, saved, generation, stale, pc, req, gen, target,
          snap, result, maker, moved, acted, raced, gone>>

-----------------------------------------------------------------------------
(* What calls and endpoints are made of *)

Op == {"provision", "ensure", "observe", "destroy"}
Waiting == {"preflight", "create", "lookup", "fetch", "update", "observe",
            "delete"}
Kind == {"none", "refused", "exists", "absent", "ambiguous", "foreign",
         "reserved", "conflict", "error", "provisioned", "unchanged",
         "updated", "observed", "destroyed"}

(* The reserved metadata keys: scope, instance, account and generation. *)
Tag == [owner: Instance \union {Nobody}, connect: BOOLEAN, account: Scopes,
        generation: Nat]
NoTag == [owner |-> Nobody, connect |-> FALSE, account |-> Platform,
          generation |-> 0]
Content == [account: Scopes, url: Url, set: [Field -> Value], tag: Tag]
Blank == [account |-> Platform, url |-> CHOOSE u \in Url : TRUE,
          set |-> [f \in Field |-> Default], tag |-> NoTag]

Key == ({"provision_we"} \X Url \X BOOLEAN \X Scopes \X Nat)
       \union ({"update_we"} \X Endpoint)
       \union ({"caller"} \X (CallerKey \union Call))
Params == [op: {"create"}, account: Scopes, url: Url, connect: BOOLEAN,
           set: [Field -> Value], tag: Tag]
          \union [op: {"update"}, account: Scopes, id: Endpoint \union {NoEndpoint},
                  url: Url \union {NoUrl}, set: Wanted, tag: Tag]
Response == [key: Key, params: Params, id: Endpoint, during: SUBSET Call]

TypeOK ==
    /\ born \subseteq Endpoint
    /\ live \subseteq born
    /\ rec \in [Endpoint -> Content]
    /\ saved \subseteq Response
    /\ generation \in [Instance -> Nat]
    /\ stale \subseteq Instance
    /\ pc \in [Call -> Waiting \union {"idle", "done"}]
    /\ req \in [Call -> Requests]
    /\ gen \in [Call -> Nat]
    /\ target \in [Call -> Endpoint \union {NoEndpoint}]
    /\ snap \in [Call -> Content]
    /\ result \in [Call -> [kind: Kind, id: Endpoint \union {NoEndpoint}]]
    /\ maker \in [Endpoint -> Call \union {Outside}]
    /\ moved \subseteq Endpoint
    /\ acted \subseteq Call \X Endpoint
    /\ raced \subseteq Endpoint
    /\ gone \in [Call -> SUBSET Endpoint]

Init ==
    /\ born = {}
    /\ live = {}
    /\ rec = [e \in Endpoint |-> Blank]
    /\ saved = {}
    /\ generation = [i \in Instance |-> 1]
    /\ stale = {}
    /\ pc = [c \in Call |-> "idle"]
    /\ req = [c \in Call |-> CHOOSE q \in Requests : TRUE]
    /\ gen = [c \in Call |-> 0]
    /\ target = [c \in Call |-> NoEndpoint]
    /\ snap = [c \in Call |-> Blank]
    /\ result = [c \in Call |-> [kind |-> "none", id |-> NoEndpoint]]
    /\ maker = [e \in Endpoint |-> Outside]
    /\ moved = {}
    /\ acted = {}
    /\ raced = {}
    /\ gone = [c \in Call |-> {}]

-----------------------------------------------------------------------------
(* Receiving a request *)

MutScope(q) == q.account
(* The account a call works in: the bound one of the instance, if any.     *)
Scope(q) == IF Bound[q.inst] # Platform THEN Bound[q.inst] ELSE q.account

(* The refusals that depend on nothing read from Stripe.  Those of ensure  *)
(* come after its first read, which has no effect.                         *)
Refused(q) ==
    \/ q.lacks # {}
    \/ Bound[q.inst] # Platform /\ q.account \notin {Platform, Bound[q.inst]}
    \/ q.op \in {"provision", "ensure"} /\ q.connect /\ Scope(q) # Platform
    \/ /\ q.op = "provision"
       /\ q.inst \notin OptedIn \/ q.override # Nobody \/ q.key # NoKey

MutFirst(q) ==
    CASE q.op = "provision" -> "preflight"
      [] q.op = "ensure" -> "reconcile"
      [] q.op = "observe" -> "observe"
      [] q.op = "destroy" -> "delete"

First(q) ==
    CASE q.op = "provision" -> "preflight"
      [] q.op = "ensure" /\ q.id # NoEndpoint -> "fetch"
      [] q.op = "ensure" /\ q.id = NoEndpoint -> "lookup"
      [] q.op = "observe" -> "observe"
      [] q.op = "destroy" -> "delete"

MutGenerationOf(i) == 1
GenerationOf(i) == generation[i]

Finish(c, kind, e) ==
    /\ pc' = [pc EXCEPT ![c] = "done"]
    /\ result' = [result EXCEPT ![c] = [kind |-> kind, id |-> e]]

(* After a deletion operators provision anew only under a new generation,  *)
(* when Rotates says that they follow docs/CAPABILITIES.md:216.            *)
Begin(c, q) ==
    /\ pc[c] = "idle"
    /\ Rotates /\ q.op = "provision" => q.inst \notin stale
    /\ req' = [req EXCEPT ![c] = q]
    /\ gen' = [gen EXCEPT ![c] = GenerationOf(q.inst)]
    /\ gone' = [gone EXCEPT ![c] = born \ live]
    /\ IF Refused(q)
       THEN Finish(c, "refused", NoEndpoint)
       ELSE pc' = [pc EXCEPT ![c] = First(q)] /\ UNCHANGED result
    /\ UNCHANGED <<stripe, config, judged>>

-----------------------------------------------------------------------------
(* Reading from Stripe *)

Visible(q) == {e \in live : rec[e].account = Scope(q)}

(* findWebhookEndpointsByURL; a page of 100 holds more endpoints than      *)
(* Stripe allows an account, so the list is read at once.                  *)
Matching(q) == {e \in Visible(q) : rec[e].url = q.url}

MutPreflight(c) ==
    /\ pc[c] = "preflight"
    /\ pc' = [pc EXCEPT ![c] = "create"]
    /\ UNCHANGED <<result, stripe, config, given, judged>>
(* provision: no endpoint of that URL may exist. *)
Preflight(c) ==
    /\ pc[c] = "preflight"
    /\ \/ /\ Matching(req[c]) = {}
          /\ pc' = [pc EXCEPT ![c] = "create"]
          /\ UNCHANGED result
       \/ /\ Matching(req[c]) # {}
          /\ Finish(c, "exists", NoEndpoint)
    /\ UNCHANGED <<stripe, config, given, judged>>

MutProven(q, s) ==
    s.tag.owner # Nobody /\ s.tag.connect = q.connect /\ s.tag.account = Scope(q)
(* The metadata prove scope, owner and account. *)
Proven(q, s) ==
    /\ s.tag.connect = q.connect
    /\ s.tag.owner = q.inst
    /\ s.tag.account = Scope(q)

(* The fields, and the URL, in which the request differs from s. *)
Diff(q, s) ==
    [url |-> IF q.url # s.url THEN q.url ELSE NoUrl,
     set |-> [f \in Field |->
                IF q.want[f] # s.set[f] THEN q.want[f] ELSE Unset]]
Changes(d) == d.url # NoUrl \/ \E f \in Field : d.set[f] # Unset

(* The request's metadata claim the endpoint for another instance. *)
Overrides(q, s) ==
    /\ q.want["metadata"] # Unset
    /\ q.override \notin {Nobody, s.tag.owner}

(* reconcileWebhookEndpoint up to its update, of endpoint e as just read.  *)
Judge(c, e) ==
    LET q == req[c]
        s == rec[e]
    IN  \/ /\ ~Proven(q, s)
           /\ Finish(c, "foreign", NoEndpoint)
           /\ UNCHANGED judged
        \/ /\ Proven(q, s) /\ Overrides(q, s)
           /\ Finish(c, "reserved", NoEndpoint)
           /\ UNCHANGED judged
        \/ /\ Proven(q, s) /\ ~Overrides(q, s) /\ ~Changes(Diff(q, s))
           /\ Finish(c, "unchanged", e)
           /\ UNCHANGED judged
        \/ /\ Proven(q, s) /\ ~Overrides(q, s) /\ Changes(Diff(q, s))
           /\ pc' = [pc EXCEPT ![c] = "update"]
           /\ target' = [target EXCEPT ![c] = e]
           /\ snap' = [snap EXCEPT ![c] = s]
           /\ UNCHANGED result

(* ensure by id. *)
Fetch(c) ==
    /\ pc[c] = "fetch"
    /\ \/ /\ req[c].id \in Visible(req[c])
          /\ Judge(c, req[c].id)
       \/ /\ req[c].id \notin Visible(req[c])
          /\ Finish(c, "absent", NoEndpoint)
          /\ UNCHANGED judged
    /\ UNCHANGED <<stripe, config, given>>

(* ensure by URL: exactly one endpoint may match. *)
Lookup(c) ==
    /\ pc[c] = "lookup"
    /\ \/ \E e \in Matching(req[c]) :
             Matching(req[c]) = {e} /\ Judge(c, e)
       \/ /\ Matching(req[c]) = {}
          /\ Finish(c, "absent", NoEndpoint)
          /\ UNCHANGED judged
       \/ /\ \E d, e \in Matching(req[c]) : d # e
          /\ Finish(c, "ambiguous", NoEndpoint)
          /\ UNCHANGED judged
    /\ UNCHANGED <<stripe, config, given>>

(* observe, by id (a 404 is no item) or all that is there. *)
Observe(c) ==
    /\ pc[c] = "observe"
    /\ Finish(c, "observed", IF req[c].id \in Visible(req[c]) THEN req[c].id
                                                              ELSE NoEndpoint)
    /\ UNCHANGED <<stripe, config, given, judged>>

-----------------------------------------------------------------------------
(* Writing to Stripe *)

(* What a replay can be answered from: the response saved for this key in  *)
(* the account of the call.                                                *)
SavedFor(k, p) == {s \in saved : s.key = k /\ s.params.account = p.account}

Save(k, p, e) ==
    saved' = saved \union {[key |-> k, params |-> p, id |-> e,
                            during |-> {d \in Call : pc[d] \in Waiting}]}

(* Stripe has seen the key: it answers what it answered then, or refuses   *)
(* the request when it is not the one it saw.                              *)
Replay(c, k, p, kind) ==
    /\ \E s \in SavedFor(k, p) :
          \/ s.params = p /\ Finish(c, kind, s.id)
          \/ s.params # p /\ Finish(c, "conflict", NoEndpoint)
    /\ UNCHANGED <<stripe, config, given, judged>>

(* The response arrives, or is lost and the request will be sent again.    *)
Answer(c, kind, e) ==
    \/ Finish(c, kind, e)
    \/ UNCHANGED <<pc, result>>

MutOwnerOf(q) == CHOOSE i \in Instance : TRUE
OwnerOf(q) == q.inst

Filled(want) ==
    [f \in Field |-> IF want[f] = Unset THEN Default ELSE want[f]]

CreateParams(c) ==
    [op |-> "create", account |-> Scope(req[c]), url |-> req[c].url,
     connect |-> req[c].connect,
     set |-> Filled(req[c].want),
     tag |-> [owner |-> OwnerOf(req[c]), connect |-> req[c].connect,
              account |-> Scope(req[c]), generation |-> gen[c]]]

MutCreateKeyOfCall(c) == <<"caller", c>>
MutCreateKeyNoGeneration(c) ==
    <<"provision_we", req[c].url, req[c].connect, Scope(req[c]), 0>>
(* webhookProvisionAttempt: the key says nothing of the instance or of the *)
(* fields.                                                                 *)
CreateKey(c) ==
    <<"provision_we", req[c].url, req[c].connect, Scope(req[c]), gen[c]>>

Create(c, e) ==
    LET k == CreateKey(c)
        p == CreateParams(c)
    IN  /\ pc[c] = "create"
        /\ SavedFor(k, p) = {}
        /\ e \notin born \union Handmade
        /\ born' = born \union {e}
        /\ live' = live \union {e}
        /\ rec' = [rec EXCEPT ![e] = [account |-> p.account, url |-> p.url,
                                      set |-> p.set, tag |-> p.tag]]
        /\ maker' = [maker EXCEPT ![e] = c]
        /\ Save(k, p, e)
        /\ Answer(c, "provisioned", e)
        /\ UNCHANGED <<moved, acted, raced, config, given, judged>>

CreateReplayed(c) ==
    /\ pc[c] = "create"
    /\ Replay(c, CreateKey(c), CreateParams(c), "provisioned")

MutSentTag(s) == NoTag
(* An update of metadata erases the keys the request does not name, so it  *)
(* sends the reserved ones again as they were read.                        *)
SentTag(s) == s.tag

UpdateParams(c) ==
    LET d == Diff(req[c], snap[c]) IN
    [op |-> "update", account |-> Scope(req[c]), id |-> target[c],
     url |-> d.url, set |-> d.set,
     tag |-> IF d.set["metadata"] # Unset THEN SentTag(snap[c]) ELSE NoTag]

MutUpdateKey(c) == <<"update_we", target[c]>>
UpdateKey(c) == IF req[c].key # NoKey THEN <<"caller", req[c].key>>
                                      ELSE <<"update_we", target[c]>>

(* What Stripe makes of endpoint content s under the update p. *)
Updated(s, p) ==
    [account |-> s.account,
     url |-> IF p.url # NoUrl THEN p.url ELSE s.url,
     set |-> [f \in Field |-> IF p.set[f] # Unset THEN p.set[f] ELSE s.set[f]],
     tag |-> IF p.set["metadata"] # Unset THEN p.tag ELSE s.tag]

Update(c) ==
    LET k == UpdateKey(c)
        p == UpdateParams(c)
        e == target[c]
    IN  /\ pc[c] = "update"
        /\ SavedFor(k, p) = {}
        /\ \/ /\ e \in live
              /\ rec' = [rec EXCEPT ![e] = Updated(rec[e], p)]
              /\ moved' = IF p.url # NoUrl THEN moved \union {e} ELSE moved
              /\ acted' = acted \union {<<c, e>>}
              /\ Save(k, p, e)
              /\ Answer(c, "updated", e)
           \/ /\ e \notin live
              /\ Finish(c, "absent", NoEndpoint)
              /\ UNCHANGED <<rec, moved, acted, saved>>
        /\ UNCHANGED <<born, live, maker, raced, config, given, judged>>

UpdateReplayed(c) ==
    /\ pc[c] = "update"
    /\ Replay(c, UpdateKey(c), UpdateParams(c), "updated")

(* An instance whose endpoint died has to rotate its generation. *)
Mourn(e) == stale' = IF maker[e] = Outside THEN stale
                     ELSE stale \union {req[maker[e]].inst}

MutDelete(c) ==
    LET e == req[c].id IN
    /\ pc[c] = "delete"
    /\ \/ /\ e \in Visible(req[c])
          /\ live' = live \ {e}
          /\ acted' = acted \union {<<c, e>>}
          /\ Mourn(e)
          /\ Answer(c, "destroyed", e)
       \/ /\ e \notin Visible(req[c])
          /\ Finish(c, "absent", NoEndpoint)
          /\ UNCHANGED <<live, acted, stale>>
    /\ UNCHANGED <<born, rec, saved, maker, moved, raced, generation, given,
                   judged>>

(* destroy: a 404 means that nothing is left to do, also for the repeated  *)
(* request of a call whose first response was lost.                        *)
Delete(c) ==
    LET e == req[c].id IN
    /\ pc[c] = "delete"
    /\ \/ /\ e \in Visible(req[c])
          /\ live' = live \ {e}
          /\ acted' = acted \union {<<c, e>>}
          /\ Mourn(e)
          /\ Answer(c, "destroyed", e)
       \/ /\ e \notin Visible(req[c])
          /\ Finish(c, "destroyed", e)
          /\ UNCHANGED <<live, acted, stale>>
    /\ UNCHANGED <<born, rec, saved, maker, moved, raced, generation, given,
                   judged>>

(* A request to Stripe fails for good: denied, cancelled, out of retries.  *)
Fail(c) ==
    /\ pc[c] \in Waiting
    /\ Finish(c, "error", NoEndpoint)
    /\ UNCHANGED <<stripe, config, given, judged>>

-----------------------------------------------------------------------------
(* What others do *)

DashboardCreate(e, u, a) ==
    /\ e \in Handmade \ born
    /\ born' = born \union {e}
    /\ live' = live \union {e}
    /\ rec' = [rec EXCEPT ![e] = [Blank EXCEPT !.account = a, !.url = u]]
    /\ UNCHANGED <<saved, maker, moved, acted, raced, config, given, judged, pc,
                   result>>

(* The reserved metadata operators write: instance i may adopt e, or none. *)
Handover(e, i, k) ==
    IF i = Nobody THEN NoTag
    ELSE [owner |-> i, connect |-> k, account |-> rec[e].account,
          generation |-> 0]

(* An operator gives e to another instance, or to none, at any time: also  *)
(* between the read that proved its ownership and the update.              *)
Retag(e, i, k) ==
    /\ e \in live
    /\ rec[e].tag # Handover(e, i, k)
    /\ rec' = [rec EXCEPT ![e].tag = Handover(e, i, k)]
    /\ raced' = IF \E c \in Call : pc[c] = "update" /\ target[c] = e
                THEN raced \union {e} ELSE raced
    /\ UNCHANGED <<born, live, saved, maker, moved, acted, config, given,
                   judged, pc, result>>

DashboardEdit(e, f, v) ==
    /\ e \in live
    /\ rec' = [rec EXCEPT ![e].set[f] = v]
    /\ UNCHANGED <<born, live, saved, maker, moved, acted, raced, config,
                   given, judged, pc, result>>

DashboardMove(e, u) ==
    /\ e \in live
    /\ rec[e].url # u
    /\ rec' = [rec EXCEPT ![e].url = u]
    /\ moved' = moved \union {e}
    /\ UNCHANGED <<born, live, saved, maker, acted, raced, config, given,
                   judged, pc, result>>

DashboardDelete(e) ==
    /\ e \in live
    /\ live' = live \ {e}
    /\ Mourn(e)
    /\ UNCHANGED <<born, rec, saved, maker, moved, acted, raced, generation,
                   given, judged, pc, result>>

Rotate(i) ==
    /\ generation[i] < MaxGeneration
    /\ generation' = [generation EXCEPT ![i] = @ + 1]
    /\ stale' = stale \ {i}
    /\ UNCHANGED <<stripe, given, judged, pc, result>>

(* Stripe forgets a response after a day, when every call that was under   *)
(* way as it was saved (thirty seconds at most) is over.                   *)
Forget(s) ==
    /\ \A c \in s.during : pc[c] = "done"
    /\ saved' = saved \ {s}
    /\ UNCHANGED <<born, live, rec, maker, moved, acted, raced, config, given,
                   judged, pc, result>>

Others ==
    \/ \E e \in Endpoint :
          \/ \E u \in Url : DashboardMove(e, u)
          \/ \E u \in Url, a \in Scopes : DashboardCreate(e, u, a)
          \/ \E i \in Instance \union {Nobody}, k \in BOOLEAN : Retag(e, i, k)
          \/ \E f \in Field, v \in Value : DashboardEdit(e, f, v)
          \/ DashboardDelete(e)
    \/ \E i \in Instance : Rotate(i)
    \/ \E s \in saved : Forget(s)

Step(c) ==
    \/ Preflight(c)
    \/ Fetch(c)
    \/ Lookup(c)
    \/ Observe(c)
    \/ \E e \in Endpoint : Create(c, e)
    \/ CreateReplayed(c)
    \/ Update(c)
    \/ UpdateReplayed(c)
    \/ Delete(c)

Next ==
    \/ \E c \in Call :
          \/ \E q \in Requests : Begin(c, q)
          \/ Step(c)
          \/ Fail(c)
    \/ Others

Spec == Init /\ [][Next]_vars

(* Every request to Stripe is answered, or fails by its timeout, which is  *)
(* also the end of the call's wait. *)
Fairness == \A c \in Call : WF_vars(Step(c))

FairSpec == Spec /\ Fairness

-----------------------------------------------------------------------------
(* Safety *)

Made(e) == maker[e] # Outside

(* The intent of a call: what its idempotency key is derived from, and the *)
(* whole of it.                                                            *)
Attempt(c) == <<req[c].url, req[c].connect, Scope(req[c]), gen[c]>>
Intent(c) == <<Attempt(c), req[c].inst, Filled(req[c].want)>>

(* Of all the endpoints created for one attempt at most one exists, but    *)
(* for those whose URL was changed since: concurrent copies of a workflow, *)
(* lost responses and forgotten keys never leave two.                      *)
AttemptUnique ==
    \A d, e \in live \ moved :
        Made(d) /\ Made(e) /\ Attempt(maker[d]) = Attempt(maker[e]) => d = e

(* The create-only secret of an endpoint reaches no call but those of the  *)
(* instance that created it, and with the very intent it was created for,  *)
(* although the idempotency key names neither.                             *)
SecretStaysHome ==
    \A c \in Call :
        result[c].kind = "provisioned" =>
            /\ Made(result[c].id)
            /\ Intent(maker[result[c].id]) = Intent(c)

(* A provision is refused by Stripe for a key it has seen only when the    *)
(* same attempt was made with another intent: after a rotation of the      *)
(* generation the recovery is never taken for the attempt that failed.     *)
ConflictMeansSameAttempt ==
    \A c \in Call :
        (result[c].kind = "conflict" /\ req[c].op = "provision") =>
            \E e \in born : /\ Made(e)
                            /\ Attempt(maker[e]) = Attempt(c)
                            /\ Intent(maker[e]) # Intent(c)

(* When operators rotate generations (docs/CAPABILITIES.md:214-217), no    *)
(* provision answers with an endpoint that was dead when it began.         *)
ProvisionedIsNew ==
    \A c \in Call :
        Rotates /\ result[c].kind = "provisioned" => result[c].id \notin gone[c]

(* An update meets an endpoint that its instance owns at that very moment, *)
(* although the proof of ownership is read a request earlier and others    *)
(* edit and update the endpoint in between; only an operator who hands the *)
(* endpoint over while an update is on its way can make that untrue.       *)
OnlyOwnersUpdate ==
    [][\A c \in Call, e \in Endpoint :
         (/\ <<c, e>> \in acted' \ acted
          /\ req[c].op = "ensure"
          /\ e \notin raced) => rec[e].tag.owner = req[c].inst]_vars

(* A call of an instance bound to an account creates, changes and deletes  *)
(* endpoints of that account only.                                         *)
StaysInAccount ==
    \A c \in Call, e \in Endpoint :
        (maker[e] = c \/ <<c, e>> \in acted) /\ Bound[req[c].inst] # Platform =>
            rec[e].account = Bound[req[c].inst]

(* No step but an operator's changes the reserved metadata of an owned     *)
(* endpoint, whatever metadata callers send: but where the endpoint was    *)
(* handed over while an update was on its way, which puts the old ones     *)
(* back when it arrives.                                                   *)
OwnershipKept ==
    [][\A e \in Endpoint :
         (rec[e].tag.owner # Nobody /\ rec'[e].tag # rec[e].tag) =>
            \/ e \in raced
            \/ \E i \in Instance \union {Nobody}, k \in BOOLEAN :
                  Retag(e, i, k)]_vars

(* An ensure whose caller gave it an idempotency key of its own is never    *)
(* refused for a key Stripe has seen, and reports updated=true only when   *)
(* it has itself changed the endpoint, lost responses included.            *)
OwnKeySuffices ==
    \A c \in Call :
        (/\ req[c].op = "ensure"
         /\ req[c].key # NoKey
         /\ \A d \in Call \ {c} : pc[d] = "idle" \/ req[d].key # req[c].key)
        => /\ result[c].kind # "conflict"
           /\ result[c].kind = "updated" => <<c, result[c].id>> \in acted

-----------------------------------------------------------------------------
(* Liveness *)

(* Every call comes to an end, with responses lost and requests sent again *)
(* and whatever happens to the endpoint meanwhile, and a destroy that      *)
(* finds nothing left, as the repetition of one that worked does, ends as  *)
(* the success it is.                                                      *)
CallsEnd ==
    \A c \in Call :
        (pc[c] \in Waiting) ~>
            /\ pc[c] = "done"
            /\ req[c].op = "destroy" => result[c].kind \in {"destroyed", "error"}

-----------------------------------------------------------------------------
(* The operations keep the promise of EndpointRegistry. *)

Place(e) ==
    CASE e \notin born -> "unborn"
      [] e \in born \ live -> "gone"
      [] e \in live \intersect moved -> "moved"
      [] e \in live \ moved -> "standing"

Registry == INSTANCE EndpointRegistry WITH
    Wish <- {<<<<q.url, q.connect, Scope(q), n>>, q.inst, Filled(q.want)>> :
               q \in Requests, n \in 1..MaxGeneration},
    NoWish <- <<>>,
    Owner <- Instance,
    wish <- [c \in Call |-> IF pc[c] = "idle" THEN <<>> ELSE Intent(c)],
    place <- [e \in Endpoint |-> Place(e)],
    purpose <- [e \in Endpoint |->
                  IF maker[e] = Outside THEN <<>> ELSE Intent(maker[e])],
    owner <- [e \in Endpoint |-> rec[e].tag.owner],
    secret <- [c \in Call |-> IF result[c].kind = "provisioned"
                              THEN result[c].id ELSE NoEndpoint],
    changed <- {x \in acted : req[x[1]].op = "ensure"},
    contested <- raced

(* Every behaviour of the operations is one of the registry: endpoints are *)
(* made one at a time for an attempt, their secrets given to their own     *)
(* intent, their owners the only callers to change them unless contested,  *)
(* and none returns.                                                       *)
RegistryPromise == Registry!Spec

-----------------------------------------------------------------------------
(* The inductive invariant behind the theorems of WebhookEndpointsProofs.  *)

(* What a call judged still holds of its target when it updates it, but    *)
(* for the fields and the URL.                                             *)
CallOK(c) ==
    /\ pc[c] # "done" => result[c].kind = "none"
    /\ pc[c] \in {"preflight", "create"} => req[c].op = "provision"
    /\ pc[c] = "delete" => req[c].op = "destroy"
    /\ pc[c] \in {"fetch", "lookup", "update"} => req[c].op = "ensure"
    /\ pc[c] = "update" => /\ target[c] \in born
                           /\ Proven(req[c], snap[c])
                           /\ target[c] \notin raced =>
                                 snap[c].tag = rec[target[c]].tag
                           /\ rec[target[c]].account = Scope(req[c])
    /\ pc[c] # "idle" => gen[c] <= generation[req[c].inst]
    /\ gone[c] \subseteq born \ live
    /\ result[c].kind = "provisioned" => result[c].id \in born

(* An endpoint keeps the account it was made in, and its URL until moved.  *)
MadeOK(e) ==
    /\ e \notin born => rec[e].tag = NoTag
    /\ Made(e) =>
        /\ e \in born
        /\ pc[maker[e]] # "idle"
        /\ rec[e].account = Scope(req[maker[e]])
        /\ e \notin moved => rec[e].url = req[maker[e]].url
        /\ (e \notin live /\ gen[maker[e]] = generation[req[maker[e]].inst])
              => req[maker[e]].inst \in stale

ActedOK(c, e) ==
    <<c, e>> \in acted =>
        /\ e \in born
        /\ pc[c] # "idle"
        /\ rec[e].account = Scope(req[c])

(* A call about to create what exists already will be answered from the    *)
(* response that was saved after it passed its preflight.                  *)
CopyOK(c, e) ==
    (/\ pc[c] = "create"
     /\ e \in live \ moved
     /\ Made(e)
     /\ Attempt(maker[e]) = Attempt(c)) =>
        \E s \in saved : /\ s.key = CreateKey(c)
                         /\ s.params.account = Scope(req[c])
                         /\ c \in s.during

(* A saved response is that of the call that was executed. *)
SavedOK(s) ==
    \/ /\ s.id \in born
       /\ Made(s.id)
       /\ s.key = CreateKey(maker[s.id])
       /\ s.params = CreateParams(maker[s.id])
    \/ \E c \in Call : /\ pc[c] \in {"update", "done"}
                       /\ s.key = UpdateKey(c)
                       /\ s.params = UpdateParams(c)
                       /\ s.id = target[c]
                       /\ <<c, s.id>> \in acted

(* Once a generation lost an endpoint, operators provision under another.  *)
RotatedOK(c, e) ==
    (/\ Rotates
     /\ pc[c] # "idle"
     /\ req[c].op = "provision"
     /\ e \in gone[c]
     /\ Made(e)
     /\ req[maker[e]].inst = req[c].inst) => gen[maker[e]] # gen[c]

IInv ==
    /\ TypeOK
    /\ \A c \in Call : CallOK(c)
    /\ \A e \in Endpoint : MadeOK(e)
    /\ \A c \in Call, e \in Endpoint : ActedOK(c, e)
    /\ \A c \in Call, e \in Endpoint : CopyOK(c, e)
    /\ \A c \in Call, e \in Endpoint : RotatedOK(c, e)
    /\ \A s \in saved : SavedOK(s)
    /\ AttemptUnique
    /\ SecretStaysHome
    /\ ConflictMeansSameAttempt
    /\ ProvisionedIsNew
    /\ OwnKeySuffices
=============================================================================
