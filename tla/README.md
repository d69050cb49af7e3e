# Formal verification of integration-stripe

TLA+ modules, TLC model checks and TLAPS proofs for the Stripe adapter of this
repository. Paths of sources are relative to `src/`; short file names are those
of `providers/stripe/adapter/`.

## 1. The system and its parts

The adapter is one Go process per integration type. It answers calls of
yggdrasil-core that arrive over AMQP (`describe`, `execute`, reconcile) by making
requests to Stripe, and it receives Stripe's webhooks over HTTP and relays them
to the core's RTA. Stripe, the yggdrasil SDK, AMQP and the RTA are external.

| Component | Code | State it keeps | Operations | Talks to |
|---|---|---|---|---|
| Webhook reactor | `webhook_server.go`, `metrics.go`, `cmd/adapter/main.go` | dedup map (`sync.Map`), Prometheus counters, handler / emit / sweep goroutines, all in memory | receive a delivery, relay it, evict expired entries, shut down, restart | Stripe (at-least-once sender), the emitter of the SDK |
| Webhook endpoint lifecycle | `adapter.go` 809-1265, `client.go` | none of its own; endpoints, their reserved metadata and the idempotency store at Stripe; the provisioning generation in the instance's configuration | provision, ensure (adopt, reconcile), observe, destroy | Stripe; people at its dashboard; other calls |
| Payment intents, customers, subscriptions | `adapter.go` 160-694 | as above | ensure, confirm, update, observe, destroy | Stripe |
| Refunds, payouts, setup intents, connect accounts | `adapter.go` 1285-1404, `connect.go` | as above | create, get, update | Stripe |
| Reads and pagination | `adapter.go` 250-317, 435-497, 607-666, 707-806, 1182-1238 | a cursor during a call | list with a limit | Stripe, page by page |
| Signature verification | `hmac.go`, `adapter.go` 1604 | none | parse the header, check the age, compare | reactor, `verify_webhook_signature` |
| Event routing | `event_router.go` | none | Stripe type to bounded type | reactor |
| Instance configuration | `config/config.go`, `main.go` 131 | instances read at boot | load, default, pick the default instance | reactor |
| Execute and reconcile bridge | `message/*.go`, `reconcile.go` | none | gate, dispatch, fall back, wrap the answer, redact errors | SDK |
| Capability catalogue and its lint | `spec.go`, `pkg/contractcheck` | none | resolve names, check a catalogue | bridge, core |
| Surface queries and UI | `surface_query.go`, `surface-ui/` | the query cache of the browser | read-only pages | execute bridge |
| Health, metrics, wiring | `main.go`, `metrics.go` | counters | serve | operators |

Components interact by calls (bridge → `ExecuteContext` → Stripe), through state
kept at Stripe (two calls meet in an endpoint or in an idempotency key), through
shared memory (deliveries meet in the dedup map) and by messages (webhooks in,
envelopes out).

What is hard:

* **Concurrency.** Every delivery is a goroutine, each first delivery starts a
  sweep of the map and an emission; calls of the adapter are sequences of
  requests to Stripe that interleave with each other and with people at the
  dashboard, so what was read may be stale when it is acted on.
* **Failure.** A crash forgets the dedup map; an emission is never retried; a
  response of Stripe may be lost after the request was executed, and stripe-go
  sends it again; a call may be run again by its workflow; a caller gives up
  while its request goes on.
* **Keys.** The idempotency key of most operations names some of the fields they
  send, so that different calls meet in one key and equal ones of different
  intent are taken for one.
* **Routes.** A message passes a gate, the SDK, a rebuild of the request and a
  fallback chosen by the text of an error; names, credentials and accounts have
  to survive all of them.
* **Ordering.** 200 before emission, preflight before creation, ownership before
  update.
* **Time.** The dedup window, the day Stripe keeps idempotency keys, the
  tolerance of signatures.
* **Lists.** A list is read in pages while it changes.

What makes each correct: the reactor relays an authentic event at least claimed
once and at most once a window, and answers 200 only for what it claimed; the
endpoint operations leave at most one endpoint per attempt, show the create-only
secret only to whom it belongs, touch only what the instance owns, in its own
account; managed objects are created once per intent and destroyed idempotently;
a list says truthfully whether it is complete; a call is executed by exactly one
of the two dispatchers; names and types resolve totally.

## 2. Modules

| Module | Models |
|---|---|
| `WebhookReactor` | `webhook_server.go` and the life of its process |
| `EventRelay` | abstract: tickets issued under keys, relayed at most once; `WebhookReactor` implements it |
| `WebhookEndpoints` | the webhook_endpoint operations against Stripe |
| `EndpointRegistry` | abstract: one endpoint per attempt, owned, its secret given for one wish, gone for good; `WebhookEndpoints` implements it |
| `ManagedObjects` | every other operation that writes to Stripe, and reads of one object |
| `KeyedCalls` | abstract: a call is carried out at most once and truthfully told; `ManagedObjects` implements it |
| `Listing` | the reads of lists, page by page |
| `Signature` | `hmac.go` |
| `Configuration` | `config.go` and the default instance of `main.go` |
| `ExecuteBridge` | from a message to its answer; composes `Listing`, `Signature` and `Configuration` |
| `MC...` | instances for TLC, one module for each of the four specifications that are run |
| `...Proofs` | proofs about `WebhookReactor`, `WebhookEndpoints`, `EndpointRegistry`, `ManagedObjects`, `KeyedCalls`, `Listing`, `Signature`, `ExecuteBridge` |

`PROJECT.json` maps every definition to the lines it models. Definitions named
`Mut...` stand before the definition they mutate: each is that definition with a
plausible bug, and shows that a property would notice it. Nothing uses them.

### 2.1 WebhookReactor

State: `dedup` is `WebhookServer.dedup`; `stage[r]` says where the handler of
request `r` is (`open`: read; `claimed`: LoadOrStore stored its entry; `counted`: the
delivery is counted and the sweep started; `answering`: WriteHeader called; `closed`); `emission[r]` and `sweep[r]` are the
two goroutines of a claimed request; `counters` the Prometheus counters;
`status` and `run` the process. `bornIn`, `claimed`, `claimedAt`, `published`
and `raced` (the keys that two sweeps were about to delete at once) are history
that no step reads.

Actions: `Receive` (a request is read), `Reject` (the checks before the map, in
order, 404/503-style answers and the signature counter), `Suppress` and `Claim`
(the two outcomes of LoadOrStore), `Count` (the delivery is counted, the sweep
started), `Acknowledge` (200 buffered, emit goroutine
started when an emitter is wired), `Flush` (net/http sends the answer when the
handler returns); `Publish`, `EmitOk`, `EmitFail`; `SweepStart`, `SweepVisit`,
`SweepDelete` (Range reads an entry, the callback deletes its key later);
`Tick`, `BeginShutdown`, `Exit`, `Crash`, `Restart`.

Abstractions: the checks before the map touch no shared state and happen in one
step with LoadOrStore; reading the time and LoadOrStore are one step; the
signature is a secret compared with that of the instance named by the path (the
header's syntax and the tolerance are the matter of `Signature`, whose theorem
`StripesHeader` says that a recent header of Stripe is accepted for exactly the
secrets it was made with); `instance:event` is the pair, as instance ids hold no
colon; an empty event id is one more event; the fields of the envelope are left
out. `sync.Map.Range` hands over every key present throughout at most once, in
any order, with the value it reads at that moment. An entry that is expired but
not yet evicted still suppresses: eviction is lazy in the code and in the model.
`Crash` stands for a crash, `logger.Fatal` and the ten seconds of `Shutdown`;
`Exit` waits for handlers only, as `Shutdown` does. Stripe delivers whatever it
likes as often as it likes.

Bounds: `Request` (how many deliveries), `MaxClock`, `MaxRun`. Four deliveries
suffice for two sweeps that doom one key while two more deliveries of that event
arrive; the proofs remove the bounds for the safety properties.

| Run | Shows |
|---|---|
| `window` | `FirstWindowHonoured`: the first claim of an event in a run closes a whole window. `WindowUnlessSweepsRace`: so does every later claim, unless two sweeps raced for its key. `SweepLeavesNoExpired`. Four deliveries of two events, four sweeps, the clock passing the window twice |
| `deliveries` | `TypeOK`, `AnsweredMeansClaimed`, `OnlyAuthenticRelayed`, `CountersTellRelayed`; `RelayPromise`: the reactor implements `EventRelay`; and under fairness every delivery is answered, every claim's emission and every sweep ends. Two deliveries of one event id to two tenants, every outcome of the checks, an expired entry, a crash and a restart |
| `evict_race` | refutes `WindowHonoured`: a sweep deletes by key what another goroutine stored meanwhile, so an event is claimed twice in one window |
| `unwired` | refutes `ClaimSettles` where, as in `main.go`, no emitter is wired |

The envelope may be out before the 200, which net/http holds back until the
handler returns (`Flush` and `Publish` are independent); docs/OPERATIONS.md:93
has it otherwise, and nothing in the code depends on the order.

`WindowUnlessSweepsRace` is the other side of `evict_race`: the race it exhibits is
the only way to claim an event twice in a window. In `window` that race does
happen: `WindowHonoured`, which is the same statement without the exception of
`raced` keys, is violated there.

`CountersTellRelayed` is what the acceptance test of docs/OPERATIONS.md:120 relies
on: received = rta_emit means that every delivery was relayed. A handler between
LoadOrStore (`webhook_server.go:131`) and the counter (`:136`) has claimed its event
and is in neither count; the property excepts exactly that stage.

`RelayPromise` lets the abstract relay forget a key at any time, as an eviction, a
crash and the race do; how long a key is held is the matter of the window
properties. `ClaimSettles` counts an emission that the end of the process cut off
as ended: that it is lost for good is `LostStaysLost` (below).

The runs prune their searches, never the actions: `window` has no shutdown
(`Running`) and no restart, which leave the map empty; in `window` and `deliveries` no
handler sleeps over a tick of the clock (`HandlersArePrompt`: a tick is hours; sweeps
may sleep); `deliveries` has a tick or a restart (`TickOrRestart`); `evict_race` one
handler at a time and no goroutine that sleeps over a tick. What they leave out
the theorems cover for the safety properties, and the counterexamples are of the
unrestricted model.

Fairness: weak fairness of `Handle`, `Emit` and `SweepStep` of every request: the
Go scheduler runs every runnable goroutine and an emission ends within its five
seconds. Nothing is assumed of Stripe, of the clock or of failures. A sweep ends
although the map changes, since Range visits a key once.

### 2.2 WebhookEndpoints

State at Stripe: `born`, `live`, `rec` (the endpoints and what they hold: the
account, the URL, the fields, and `tag`, the reserved metadata), `saved` (the
idempotency store). Configuration: `generation`; `stale` is what the operators
remember, that an endpoint of the present generation died. Calls: `pc[c]` is the
next request to Stripe, `req[c]` the input, `gen[c]` the generation in the
configuration it came with, `target[c]` and `snap[c]` the endpoint it judged and
what that held, `result[c]` the answer. `maker`, `moved`, `acted`, `raced`
(the endpoints handed over while an update of them was on its way) and `gone` are
history.

Actions of a call: `Begin` (receipt and every refusal that depends on nothing
read: account binding, opt-in, missing input, connect with an account),
`Preflight` and `Create`/`CreateReplayed` (provision), `Fetch` or `Lookup` with
`Judge`, then `Update`/`UpdateReplayed` (ensure), `Observe`, `Delete`, and
`Fail`. Others: the dashboard creates, edits, moves and deletes endpoints,
operators `Retag` them and `Rotate` the generation, Stripe `Forget`s a key.

Abstractions: a list is one request (a page holds more endpoints than Stripe
allows an account); ensure's refusals that read nothing are made in `Begin`
although the code makes them after a first read, which has no effect; a lost
response is a request executed while the call stays where it is, and sends the
request again under the same key; a response is forgotten when every call under
way as it was saved is over (a call has thirty seconds, a key a day); all the
metadata a caller chooses is the one field `metadata`, written as a whole, the
reserved keys are `tag`; `Retag` is an operator who writes the reserved keys of any
endpoint at any time, to have it adopted, handed to another instance or set free,
also between the read that proves an ownership and the update; `Handmade` splits the ids
of the dashboard from those of the adapter, so that neither exhausts the other's.
`destroy` checks no ownership, as in the code. Stripe is modelled as the code
uses it: the answer saved for a key is repeated for the same parameters and
refused for others, per account; a request that fails (a 404) leaves no key.

`Rotates` says whether operators follow docs/CAPABILITIES.md:214-217, by which
an instance provisions again only under a new generation once an endpoint of its
generation is gone. `ProvisionedIsNew` needs it; without it the code promises
nothing of the kind.

Bounds: `Call` (two or three calls), `Endpoint`, `MaxGeneration`. A violation of
`AttemptUnique` or `ProvisionedIsNew` takes two provisions and a deletion between
them, of the other properties two calls and the dashboard. `attempts` has one
URL, so no endpoint moves there, and hands none over (`NoHandover`); `updates` has
two. To keep it small, the two calls of `updates` are both rivals over one endpoint
or both any others (`Related`), and people act there only while a call is about to
write, or before the first (`OthersMeetCalls`): between two calls nothing is read
that they could make stale. The proofs have any number of everything and neither
restriction.

| Run | Shows |
|---|---|
| `attempts` | `AttemptUnique`: of the endpoints made for one attempt at most one is live and unmoved; `SecretStaysHome`; `ProvisionedIsNew`, `ConflictMeansSameAttempt` under rotation. Three calls of two instances |
| `updates` | `OnlyOwnersUpdate`, `OwnershipKept`, `OwnKeySuffices` (an ensure with a key of its own is not refused for it and reports what it did), `TypeOK`, `StaysInAccount` with a bound and an unbound instance, `RegistryPromise`: the refinement of `EndpointRegistry`; and `CallsEnd` under fairness. Two calls of rival instances and an active dashboard |

Ownership is proved by a read and used by an update one request later. What the
code does about everything that may happen in between is nothing, and for most of
it nothing is needed: no call takes an endpoint from its owner, and edits, moves
and deletions do not change whose it is. A hand-over by an operator in that very
window does: the update of the former owner then arrives, and since it re-sends
the reserved metadata it read, it may take the endpoint back. `OnlyOwnersUpdate`,
`OwnershipKept` and the registry's `Change` except the endpoints for which
that happened (`raced`, there `contested`), and no others: a hand-over at any other
time is covered.

`EndpointRegistry` has no lists, keys, lost responses or retries: wishes, endpoints
that stand where they were made, were moved or are gone, owners, and who holds
which secret. The mapping (`Registry` in `WebhookEndpoints`) takes the wish of a
call from its request, the fate of an endpoint from `born`, `live` and `moved`, its
purpose from the call that made it, its owner from its reserved metadata. The rest
(reads and what is judged of them, refusals, edits of fields, rotations, forgotten
keys) are stutters.

The derived key of an update names the endpoint only. So a second ensure within a
day is refused when it wishes for something else, and answered from the first
one's response when it wishes for the same again, whatever was changed in
between; `OwnKeySuffices` says what a key of one's own does about it.

Fairness: weak fairness of the steps of each call: a request is answered or
times out. `Fail` is not assumed to happen, nor anything of the others.

### 2.3 ManagedObjects

The operations differ in data, not in control: each handler checks its input,
chooses fields, derives a key from some of them and sends one request. So a
handler is a record (`CreateCustomer`, `ConfirmPaymentIntent`, ...): the kind and
verb of its request, the fields its key names, the fields it sends besides, the
fields one of which must be there, the defaults, whether it heeds a key of the
caller, whether the account of the instance reaches it. `Handler(q)` chooses it
as the switch and the collapsed ensure/destroy handlers do; `Scope`, `Input`,
`Chosen`, `Sent` and `KeyFor` make the request of it.

State at Stripe: `born`, `live`, `rec` (what each object was made as), `saved`.
Calls: `pc`, `req`, `result`. History: `maker`, `before`, `times`, `acted`.
Actions: `Begin` (binding, unsupported actions, missing input), `Create`,
`Change` (update, confirm, cancel), `Delete`, `Read`, `Replay` (Stripe knows the
key), `Decline` (a card, or a state that forbids it; kept under the key too),
`Absent` (a 404, passed on), `Fail`; others: `DashboardDelete`, `Forget`.

Abstractions: a hash of fields stands for the fields; a value is an uninterpreted
one, so that empty input is absent input and amounts are not computed with; the
fields of an update are not applied to `rec`, as no operation reads them back to
decide anything; a declined creation leaves nothing behind; stripe-go retries as
often as it likes; the state machine of a payment intent or a subscription is in
the choice between `Change` and `Decline`; Stripe heeds no key of a DELETE.
`Touched` are the objects the dashboard may delete, `Standing` those older than
the calls.

Bounds: two calls, out of 32 requests, with room for two more objects than
stand. Every property but `StaysInAccount` and `AbsentIsSuccess` is about two
calls that meet in a key or in an object; copies of one step that are three are
the proofs' matter. Calls are symmetric.

| Run | Shows |
|---|---|
| `objects` | `CopiesMakeOne`: two objects of one key are of calls that never met; `AnswersOwnIntent`: whoever is answered with an object asked for it field by field, though the key names few, but for the inputs no handler reads; `OwnKeySuffices`: a key of one's own is never refused and makes an object of one's own; `StaysInAccount`; `DestroyedIsGone`; `KeyedCallsPromise`: the refinement; `TypeOK` |
| `dropped` | refutes `DocumentedInputsHeeded`: a creation reports success though an input docs/CAPABILITIES.md lists for it was never sent |
| `absence` | refutes `AbsentIsSuccess`: the delete of a customer that is gone, by its own lost response too, fails |

`manage_connect_account` is the platform's whatever the instance is bound to:
`StaysInAccount` says so.

`Documented` lists the inputs docs/CAPABILITIES.md gives a creation, `Dropped` those of
them its handler does not read. A request may hold any documented input
(`ObjectsAssumption`); the requests of the runs hold dropped ones too.
`AnswersOwnIntent` says that the object has all of them but the dropped,
`DocumentedInputsHeeded` that it has all, which is refuted.

`CopiesMakeOne` is about the keys the code derives; that a key is one per intent and
not one per call is `KeyedCallsPromise`.

### 2.4 Listing

`exists` and `latest` are the collections at Stripe; `read[r]` is the state of
the loop that every list handler has: its account, its limit after the clamp,
the cursor it began with, what it took and whether it stopped early. `got` and
`throughout` are history: what earlier reads of a walk returned, and what was
there all the time since it began. `Page` is one request and the turns of the
loop on it; `PageFails` a request that fails, and with it what came before;
`Continue` the next read of a walk over charges. `Appear` and `Vanish` are
everybody else. A page is as large as the limit (each handler sets it), so a read
takes two requests at most (`TwoPagesAtMost`): the first fills the answer or is the
last. `OnceEach` is `NoGaps` and `NoneTwice`, `MoreIsTrue` is `CompleteUnlessMore` and
`FullWhenMore`. Ids grow, and a page begins behind the last object of the one
before: a deleted cursor is an error (`PageFails`). Filters are abstracted to
the collection they are applied to.

### 2.5 Signature and Configuration

Operators. `VerifySignature` goes through the parts of a header as the loop does
(`Scan`, a recursive function of the number of turns), and takes the distance of two times in words of `2 * Half` values; `Genuine` is
the reference: what the docs and the comment of `hmac.go` say, without a loop, in
the integers and without exception. They agree but for timestamps so long ago that
an int64 does not hold how long (`OutOfRange`): of those the code accepts some,
because negation leaves the smallest integer as it is. `ValidIffGenuine` and the
theorems except them by that name. HMAC is taken to be injective. `Loaded` and
`DefaultInstance` say which instances a process has, and which one it uses for
calls that name none. Filling in the default tolerance and dedup window is in
`Allowance` and in the constants of `WebhookReactor`; a file that cannot be read
ends the process before it begins.

### 2.6 ExecuteBridge

`phase[c]` is where a call is: `dispatching` after the gate, `calling` before
its one request, `listing`, `answered`. `ask` is its message, `by` whether a
reconciler or the switch runs it, `job` the request as it reaches the handler,
`answer` what leaves, `abandoned` the end of the caller's context, `request`
whether its request is sent and carried out; `runs` (how often Stripe carried it
out) and `sentTo` (in which accounts) are history.

Actions: `Receive` (decode, gate), `Dispatch` (the SDK has a reconciler or has
not; `Launch` is `ExecuteContext` up to the first request: refusals in the order
of the code, the pure verification, a list or a request), `Send` (a request
leaves, unless a context that is heeded has ended), `CarryOut` (Stripe executes it,
whether or not anybody waits for it), `Respond`, `Deny` (a missing input, or
Stripe's refusal) and `GiveUp` (a timeout, or the end of the context while the
request is on its way); an error goes by `FailCall` to the caller, or back to
the switch when its text quotes the SDK's; `NextPage`, `BreakOff`, `EndList`,
`GoOn` (the caller asks for more charges), `Abandon`. The SDK's choice of name
when the operation is empty is outside the repository and left open (`SdkNames`).

Abstractions: what an operation does at Stripe is in the other modules, here it
is carried out or not; names are strings as the code compares them, `Trim` acts
on the few that have blanks; of an instance's configuration only the bound
account is kept, and of credentials whether they are the instance's; a text is
`adapter`, `provider`, `unsupported` or `redacted` by whence it comes; the error of a
list is not one that quotes the SDK's; the
reserved keys of the stash are the fields `creds` and `bound` of the message.

Bounds: one call at a time (calls of the bridge share no state of the process;
the lists they read change by themselves), three objects, limits up to two,
words of four bits, headers of up to three parts, every name of the catalogue in
both fields or in one.

| Run | Shows |
|---|---|
| `bridge` | of the route: `ActsForItsInstance`, `OneDispatcher`, `ProvisionRedacted`, `CatalogueServed`, `AnswersHold`, `CallAnswered` (liveness), `TypeOK`; of lists: `OnceEach`, `MoreIsTrue`, `TwoPagesAtMost`; of signatures: `ValidIffGenuine` |
| `elsewhere` | refutes `BoundAccountHolds`: a surface query of an instance bound to an account reaches the account its params name |
| `truncated` | refutes `TruncationTold`: a reconciler's list that was cut off at its limit does not say so |

`AccountFor` is the account an operation works in. `manage_connect_account` and the
query `list-charges` work in the platform's, `list-subscriptions`,
`list-payment-intents` and `charge-detail` in the one their params name, whatever
the instance is bound to (`surface_query.go:138`, `:163`, `:255`, `:310`).
`ActsForItsInstance` says of all other operations that every request and page is of
the bound account, and names these five in `WorksElsewhere`; docs/CONFIGURATION.md:43
names none, and `BoundAccountHolds`, which says that, is refuted.

`AnswersHold` is about requests that outlive their calls: a handler may give its
request up, by its timeout or because its context ended, and Stripe carries it out
afterwards. An ok is nevertheless true, and what the adapter itself refuses is never
done; after an error of the provider the caller cannot know, and has the
idempotency keys of `ManagedObjects`.

What the properties leave out, because the code does: a reconciler does not heed
the end of its caller's context, and works on; an error of Stripe that quotes the
SDK's runs an operation a second time (`OneDispatcher` excepts it); a legacy name
alone, or as capability, is refused at the gate, which looks before names are
translated (`CatalogueServed` is about canonical names).

Fairness: weak fairness of the steps of each call: handlers run, and a request
to Stripe ends, by its timeout if need be. Page after page without end cannot be:
a read takes two at most, which is proved. Nothing is assumed of callers.

## 3. Proofs

Assumptions: the named ASSUMEs of the modules only (`ReactorAssumption`,
`EndpointsAssumption`, `ObjectsAssumption`, `ListingAssumption`,
`SignatureAssumption`, `ConfigurationAssumption`, `BridgeAssumption`,
`NamesAssumption`); each is
what the code or its callers guarantee of the constants (disjoint sentinels,
requests of the right shape, limits and clocks in range), and TLC evaluates them
in every run that uses the module.

**WebhookReactorProofs.** `IInv` strengthens the properties with: how the parts
of a request go together (`RequestOK`), that an entry was stored by a claim of
this run (`EntryOK`), what a sweep has left behind (`SweepOK`), and that until the
window of the first claim is over its entry is in the map and no sweep is about
to delete it (`FirstOK`). The last is why `FirstWindowHonoured` is true in spite
of the race of the sweeps: a sweep dooms a key only when its entry is expired,
which the first entry is not within its window, and no other entry of that key
can come before. Proved: `TypeCorrect`, `Invariant`, `FirstWindow`,
`AnsweredClaimed`, `AuthenticRelayed`, `SweepClean`, `Refinement` (the reactor
implements `EventRelay`), `LostStaysLost` (what that implies: an envelope that was
not emitted while its request owed it, because emission failed or the process
died, is never emitted later), `WindowUnlessRace` and `CountersSound`, whose `Ledger` counts the counted claims of
the present run and those whose emission was reported: finite sets, so that equal
cardinalities make them equal. `WindowUnlessRace` has an invariant of its own,
`RaceFree`, about the keys that are not `raced` in this run: the entry of such a key
is the time of its last claim, without an entry the windows of all its claims are
over (`EntryIsLast`), and what a sweep dooms is still the entry it found expired
(`DoomedIsExpired`).

**WebhookEndpointsProofs.** The proof first states what every step keeps
(`EndpointKept`, `Birth`, `CallKept`, `Entry`, `Act`, `Outcome`, `HistoryKept`), one
case per action, then derives each part of `IInv` from those. The parts: what a
call judged still holds of its target but for fields and URL (`CallOK`), an
endpoint keeps its account, and its URL until moved (`MadeOK`), who acted on it
(`ActedOK`), a saved response is that of the call that was executed (`SavedOK`),
a call that is about to create a copy will find the response that was saved after
its preflight (`CopyOK`; the heart of `AttemptUnique`), and a lost generation is
not used again (`RotatedOK`). Proved: `TypeCorrect`, `Invariant`,
`OneEndpointPerAttempt`, `Secrecy`, `Conflicts`, `Recovery`, `OwnKeys`, `Owners`,
`Accounts`, `Ownership`, and `RegistryRefinement`, step by step: lemmas say which
step of the registry each action makes (`AskStep`, `MakeStep`, `GiveStep`,
`ChangeStep`, `RemoveStep`) or that it is `Silent`. `Bounds` is the only addition to
`IInv`: generations stay within what a wish may name. What EndpointRegistryProofs
proves of the registry is then carried over: `RegistryKept`, `NothingComesBack`.

**EndpointRegistryProofs.** `RegistrySound`: of the endpoints made for one attempt
one stands, and a secret is with calls of the wish its endpoint was made for; the
invariant adds that what is not made yet has no purpose, owner, holder or change
(`Untouched`). `NothingRevoked`: what is gone stays gone, and purposes, wishes and
secrets are for good. `OwnersChange`: an endpoint takes changes from its owner alone,
unless it is contested. The first two assume `Proper`, that the sentinels are no wish, owner or endpoint, which
`ProperHere` proves of the mapping.

**ManagedObjectsProofs.** `IInv` says of a call that was carried out and still
waits for its answer that it will be answered from the response saved for it, or
find its object gone (`KeptOK`); of a saved success that it is that of its call
(`SavedOK`); of objects who made and changed them (`MadeOK`, `ActedOK`); and of who
is told done that a call of that intent was carried out (`DoneOK`). `KeptOK` is the
heart: it makes a request sent twice one that is carried out once, hence `OneObject`
and `Refinement`. Proved besides: `TypeCorrect`, `Invariant`, `OwnKeys`,
`Accounts`, `Destroyed`, and `OwnIntent`, for which `DocumentedSent` shows, handler by
handler, that every documented input is sent but those of `Dropped`. `PromiseKept`
carries over what KeyedCallsProofs proves.

**KeyedCallsProofs.** `KeyedSound`: a call is carried out at most once and not before
it comes (`DoneOnce`), and who is told "done" has a call of that intent that was
carried out, perhaps an equal one before it (`ToldTruly`). The invariant adds that a
call which has not come was told nothing, so that one that comes takes no other's
answer. `NothingRetold` is `ToldOnce`: intents and answers are for good. Both assume
`Proper`, that the absence of an intent is none, which holds of the mapping: an
intent is the set of the one thing sent, its absence the empty set.

**ListingProofs.** `ListingInv` adds to `NoGaps` and `CompleteUnlessMore` that a
read and the walk before it lie on their sides of its cursor (`ReadOK`). What a
page takes is determined by cardinalities (`Newest`), so the lemmas there are
about them: the newest n of a finite set are closed upwards and are n, or all.
Proved: `ListingTypes`, `EachOnce` (`Gapless` and `Once`), `Truthful` (`Complete` and
`Full`) and the action property `TwoPages`: a read that goes on after a page took a
whole limit of objects with it, so it had none before.

**SignatureProofs.** `VerifiedIffGenuine`: for headers of any length, any tolerance
and any time, `VerifySignature` accepts every genuine one, and no other unless its
timestamp is `OutOfRange`. `NotedOf` says what
the loop has noted after `n` parts; `NotedStep` is one turn. The induction over `n`
runs over the set of the numbers for which it holds (`UpTo`: the least missing one
would have one before it), as the library's induction theorems cannot be
instantiated. `WrapIs` and `DeltaIs` do the arithmetic of an int64. `StripesHeader`
follows: a header with a time and a MAC per secret in force is accepted for its own
payload and for those secrets, while recent.

**ExecuteBridgeProofs.** `ReadsAsListing` shows that every behaviour of the bridge
is one of `Listing`, so that `ListsSound` follows from ListingProofs. `BridgeInv`
ties the job of a call to its message by whoever runs it, its request to its phase
and to its runs, the accounts it reached to its job, and its answer to all of them
(`HoldOK`): a request under way keeps a call from having answered ok for it. Proved: `BridgeInvariant`, `BridgeTypeCorrect`,
`OwnInstance`, `OnlyOneDispatcher`, `Redacted`, `Served`, `AnswersTrue`, `ValidGenuine` (from
`VerifiedIffGenuine`), `ListsShort`, and of `Configuration` `DefaultIsLeast`, with
`NoneNameless`: no reconciler runs without an instance while any is loaded.

Model-checked only: the liveness properties (`DeliverySettles`, `ClaimSettles`,
`SweepTerminates`, `CallsEnd`, `CallAnswered`: the prover has no fairness and no
ENABLED), and the six refuted statements. Every invariant and every action
property that a passing run checks, the three refinements among them, is a theorem.

## 4. Not modelled

* **Event routing** (`event_router.go`): a stateless table with a default; a
  definition of it would be the table, and no property says more.
* **Contract lint** (`pkg/contractcheck`): a helper of tests that compares sets.
* **Describe and the schemas** of `spec.go`, contract types, manifests, packaging:
  constant data.
* **Surface UI**: rendering, and stateless combinations of what the host's query
  library returns; that library's caching is outside the repository.
* **Projections and texts**: which fields of an object an answer shows, wording,
  logging, metrics of execute calls.
* **SDK, AMQP, health endpoints**: I/O without state of this program. The SDK's
  mutation events are emitted there, best effort.

## 5. What could come next

The safety half of the other liveness properties, as `TwoPages` is that of lists;
proofs of the liveness properties, should a prover for them become available.
