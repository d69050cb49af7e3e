--------------------------- MODULE WebhookReactor ---------------------------
(***************************************************************************)
(* The webhook reactor of providers/stripe/adapter/webhook_server.go with  *)
(* the process that hosts it (cmd/adapter/main.go).                        *)
(*                                                                         *)
(* Every HTTP delivery runs in a goroutine of its own.  The deliveries     *)
(* share one map, the dedup map.  A first delivery starts two more         *)
(* goroutines: a sweep of the expired entries of the map, and the emission *)
(* of the envelope.  The steps of all of them interleave with the clock,   *)
(* with a shutdown and with a crash of the process.                        *)
(*                                                                         *)
(* Stripe is the environment: it delivers at least once, so any event may  *)
(* be delivered again at any time and several times at once.               *)
(***************************************************************************)
EXTENDS Integers, FiniteSets

CONSTANTS
    Request,        \* identities of HTTP requests, each used at most once
    Path,           \* what may follow /webhooks/stripe/ in a URL
    NoPath,         \* the empty path segment
    Instance,       \* the configured instances
    Event,          \* Stripe event ids
    Secret,         \* webhook signing secrets
    SecretOf,       \* the webhook secret of each configured instance
    Deliveries,     \* the requests the environment may send
    EmitterWired,   \* whether SetEmitter was called with an emitter
    TTL,            \* dedupTTL in ticks of the clock
    MaxClock,       \* bound on the clock
    MaxRun          \* bound on the number of times the process starts

Delivery == [path: Path, event: Event, secret: Secret,
             fits: BOOLEAN, parses: BOOLEAN]

ASSUME ReactorAssumption ==
    /\ Instance \subseteq Path
    /\ NoPath \in Path \ Instance
    /\ SecretOf \in [Instance -> Secret]
    /\ Deliveries \subseteq Delivery /\ Deliveries # {}
    /\ EmitterWired \in BOOLEAN
    /\ TTL \in Nat
    /\ MaxClock \in Nat
    /\ MaxRun \in Nat

VARIABLES
    clock,      \* time.Now(), in ticks
    status,     \* of the process: "up", "draining" (Shutdown called), "down"
    run,        \* how many times the process has started
    dedup,      \* the sync.Map: the time stored for each key, or Absent
    stage,      \* where the handler of each request is
    msg,        \* what each request carries
    answer,     \* the HTTP status each client received, or NoAnswer
    emission,   \* where the emit goroutine of each request is
    sweep,      \* the evictExpired goroutine each request started
    counters,   \* the Prometheus counters of the process
    \* History, which no step reads:
    bornIn,     \* the run in which each request was received
    claimed,    \* the requests that stored an entry in the dedup map
    claimedAt,  \* the time they stored
    published,  \* the requests whose envelope reached the RTA
    raced       \* the runs and keys for which two sweeps at a time were
                \* about to delete the entry

process == <<clock, status, run>>
history == <<bornIn, claimed, claimedAt, published, raced>>
vars == <<clock, status, run, dedup, stage, msg, answer, emission, sweep,
          counters, bornIn, claimed, claimedAt, published, raced>>

-----------------------------------------------------------------------------
(* Requests and keys *)

Key == Instance \X Event
Absent == -1
NoAnswer == 0

MutKeyOfEventOnly(d) == <<CHOOSE i \in Instance : TRUE, d.event>>
KeyOf(d) == <<d.path, d.event>>

(* The checks of handleStripeWebhook, in the order the code makes them.    *)
(* The signature is judged against the secret of the instance that the     *)
(* path names.                                                             *)
MutAuthenticAnyTenant(d) == \E i \in Instance : d.secret = SecretOf[i]
Authentic(d) == d.secret = SecretOf[d.path]

MutVerdictUnprocessable(d) ==
    IF d.path \in Instance /\ d.fits /\ Authentic(d) /\ ~d.parses
    THEN 422
    ELSE IF d.path \in Instance /\ d.fits /\ Authentic(d) THEN 200 ELSE 400

Verdict(d) ==
    CASE d.path = NoPath -> 400
      [] d.path \notin Instance /\ d.path # NoPath -> 404
      [] d.path \in Instance /\ ~d.fits -> 413
      [] d.path \in Instance /\ d.fits /\ ~Authentic(d) -> 400
      [] d.path \in Instance /\ d.fits /\ Authentic(d) /\ ~d.parses -> 400
      [] OTHER -> 200

BadSignature(d) == d.path \in Instance /\ d.fits /\ ~Authentic(d)

Stage == {"unsent", "open", "claimed", "counted", "answering", "closed",
          "aborted"}
InFlight == {"open", "claimed", "counted", "answering"}
Emission == {"none", "running", "accepted", "ok", "failed", "lost"}
Emitting == {"running", "accepted"}
Counter == {"received", "dedup", "sigFailures", "emitOk", "emitErrors"}

NoSweep == [state |-> "none", now |-> 0, todo |-> {}, doomed |-> {}]
Sweep == [state: {"none", "armed", "ranging"}, now: Nat,
          todo: SUBSET Key, doomed: SUBSET Key]

Bump(c) == [counters EXCEPT ![c] = @ + 1]

TypeOK ==
    /\ clock \in Nat
    /\ status \in {"up", "draining", "down"}
    /\ run \in Nat
    /\ dedup \in [Key -> Nat \union {Absent}]
    /\ stage \in [Request -> Stage]
    /\ msg \in [Request -> Deliveries]
    /\ answer \in [Request -> {NoAnswer, 200, 400, 404, 413}]
    /\ emission \in [Request -> Emission]
    /\ sweep \in [Request -> Sweep]
    /\ counters \in [Counter -> Nat]
    /\ bornIn \in [Request -> Nat]
    /\ claimed \subseteq Request
    /\ claimedAt \in [Request -> Nat]
    /\ published \subseteq Request
    /\ raced \subseteq Nat \X Key

Init ==
    /\ clock = 0
    /\ status = "up"
    /\ run = 1
    /\ dedup = [k \in Key |-> Absent]
    /\ stage = [r \in Request |-> "unsent"]
    /\ msg = [r \in Request |-> CHOOSE d \in Deliveries : TRUE]
    /\ answer = [r \in Request |-> NoAnswer]
    /\ emission = [r \in Request |-> "none"]
    /\ sweep = [r \in Request |-> NoSweep]
    /\ counters = [c \in Counter |-> 0]
    /\ bornIn = [r \in Request |-> 0]
    /\ claimed = {}
    /\ claimedAt = [r \in Request |-> 0]
    /\ published = {}
    /\ raced = {}

-----------------------------------------------------------------------------
(* handleStripeWebhook *)

(* The server reads a request while it accepts connections. *)
Receive(r, d) ==
    /\ status = "up"
    /\ stage[r] = "unsent"
    /\ stage' = [stage EXCEPT ![r] = "open"]
    /\ msg' = [msg EXCEPT ![r] = d]
    /\ bornIn' = [bornIn EXCEPT ![r] = run]
    /\ UNCHANGED <<process, dedup, answer, emission, sweep, counters,
                   claimed, claimedAt, published, raced>>

(* One of the checks that precede the dedup map fails. *)
Reject(r) ==
    /\ stage[r] = "open"
    /\ Verdict(msg[r]) # 200
    /\ stage' = [stage EXCEPT ![r] = "closed"]
    /\ answer' = [answer EXCEPT ![r] = Verdict(msg[r])]
    /\ counters' = IF BadSignature(msg[r]) THEN Bump("sigFailures")
                                           ELSE counters
    /\ UNCHANGED <<process, dedup, msg, emission, sweep, history>>

MutSuppressFresh(r) ==
    /\ stage[r] = "open"
    /\ Verdict(msg[r]) = 200
    /\ dedup[KeyOf(msg[r])] # Absent
    /\ clock - dedup[KeyOf(msg[r])] <= TTL
    /\ stage' = [stage EXCEPT ![r] = "closed"]
    /\ answer' = [answer EXCEPT ![r] = 200]
    /\ counters' = Bump("dedup")
    /\ UNCHANGED <<process, dedup, msg, emission, sweep, history>>

(* LoadOrStore finds an entry, of whatever age, and the handler answers.   *)
Suppress(r) ==
    /\ stage[r] = "open"
    /\ Verdict(msg[r]) = 200
    /\ dedup[KeyOf(msg[r])] # Absent
    /\ stage' = [stage EXCEPT ![r] = "closed"]
    /\ answer' = [answer EXCEPT ![r] = 200]
    /\ counters' = Bump("dedup")
    /\ UNCHANGED <<process, dedup, msg, emission, sweep, history>>

MutClaimStores(r) ==
    /\ stage[r] = "open"
    /\ Verdict(msg[r]) = 200
    /\ dedup' = [dedup EXCEPT ![KeyOf(msg[r])] = clock]
    /\ stage' = [stage EXCEPT ![r] = "claimed"]
    /\ claimed' = claimed \union {r}
    /\ claimedAt' = [claimedAt EXCEPT ![r] = clock]
    /\ UNCHANGED <<process, msg, answer, emission, sweep, counters, bornIn,
                   published, raced>>

(* LoadOrStore finds none and stores the current time. *)
Claim(r) ==
    LET k == KeyOf(msg[r]) IN
    /\ stage[r] = "open"
    /\ Verdict(msg[r]) = 200
    /\ dedup[k] = Absent
    /\ dedup' = [dedup EXCEPT ![k] = clock]
    /\ stage' = [stage EXCEPT ![r] = "claimed"]
    /\ claimed' = claimed \union {r}
    /\ claimedAt' = [claimedAt EXCEPT ![r] = clock]
    /\ UNCHANGED <<process, msg, answer, emission, sweep, counters, bornIn,
                   published, raced>>

(* The handler counts the delivery and starts the sweep of the map.        *)
Count(r) ==
    /\ stage[r] = "claimed"
    /\ stage' = [stage EXCEPT ![r] = "counted"]
    /\ counters' = Bump("received")
    /\ sweep' = [sweep EXCEPT ![r] = [NoSweep EXCEPT !.state = "armed"]]
    /\ UNCHANGED <<process, dedup, msg, answer, emission, history>>

MutAcknowledgeOnly(r) ==
    /\ stage[r] = "counted"
    /\ stage' = [stage EXCEPT ![r] = "answering"]
    /\ UNCHANGED <<process, dedup, msg, answer, emission, sweep, counters,
                   history>>

(* WriteHeader(200), which net/http buffers until the handler returns, and *)
(* the start of the emit goroutine when an emitter is wired.               *)
Acknowledge(r) ==
    /\ stage[r] = "counted"
    /\ stage' = [stage EXCEPT ![r] = "answering"]
    /\ emission' = IF EmitterWired THEN [emission EXCEPT ![r] = "running"]
                                   ELSE emission
    /\ UNCHANGED <<process, dedup, msg, answer, sweep, counters, history>>

(* The handler has returned: the server flushes the buffered 200. *)
Flush(r) ==
    /\ stage[r] = "answering"
    /\ stage' = [stage EXCEPT ![r] = "closed"]
    /\ answer' = [answer EXCEPT ![r] = 200]
    /\ UNCHANGED <<process, dedup, msg, emission, sweep, counters, history>>

-----------------------------------------------------------------------------
(* The emit goroutine *)

(* The envelope reaches the RTA, Emit has not returned yet. *)
Publish(r) ==
    /\ emission[r] = "running"
    /\ emission' = [emission EXCEPT ![r] = "accepted"]
    /\ published' = published \union {r}
    /\ UNCHANGED <<process, dedup, stage, msg, answer, sweep, counters,
                   bornIn, claimed, claimedAt, raced>>

MutEmitOkEarly(r) ==
    /\ emission[r] \in Emitting
    /\ emission' = [emission EXCEPT ![r] = "ok"]
    /\ counters' = Bump("emitOk")
    /\ UNCHANGED <<process, dedup, stage, msg, answer, sweep, history>>

(* Emit returns nil. *)
EmitOk(r) ==
    /\ emission[r] = "accepted"
    /\ emission' = [emission EXCEPT ![r] = "ok"]
    /\ counters' = Bump("emitOk")
    /\ UNCHANGED <<process, dedup, stage, msg, answer, sweep, history>>

(* Emit returns an error or its five seconds are over, before or after the *)
(* envelope got through.  Nothing is retried.                              *)
EmitFail(r) ==
    /\ emission[r] \in Emitting
    /\ emission' = [emission EXCEPT ![r] = "failed"]
    /\ counters' = Bump("emitErrors")
    /\ UNCHANGED <<process, dedup, stage, msg, answer, sweep, history>>

-----------------------------------------------------------------------------
(* evictExpired *)

MutExpiredAtBoundary(at, now) == now - at >= TTL
Expired(at, now) == now - at > TTL

(* The goroutine reads the time once and starts ranging over the map. *)
SweepStart(r) ==
    /\ sweep[r].state = "armed"
    /\ sweep' = [sweep EXCEPT ![r] = [state |-> "ranging", now |-> clock,
                                      todo |-> Key, doomed |-> {}]]
    /\ UNCHANGED <<process, dedup, stage, msg, answer, emission, counters,
                   history>>

(* The state of sweep s after its callback saw the entry at under key k. *)
MutVisitedStops(s, k, at) ==
    LET old == at # Absent /\ Expired(at, s.now) IN
    [state |-> s.state, now |-> s.now,
     todo |-> IF old THEN {} ELSE s.todo \ {k},
     doomed |-> IF old THEN {k} ELSE {}]

Visited(s, k, at) ==
    [state |-> s.state, now |-> s.now, todo |-> s.todo \ {k},
     doomed |-> IF at # Absent /\ Expired(at, s.now) THEN {k} ELSE {}]

(* The keys whose entry a sweep of another request is about to delete. *)
DoomedByOthers(r) == UNION {sweep[q].doomed : q \in Request \ {r}}

(* Range hands over the entry of one more key, read at this moment; the    *)
(* callback finds it expired or not.                                       *)
SweepVisit(r, k) ==
    /\ sweep[r].state = "ranging"
    /\ sweep[r].doomed = {}
    /\ k \in sweep[r].todo
    /\ sweep' = [sweep EXCEPT ![r] = Visited(sweep[r], k, dedup[k])]
    /\ raced' = raced \union
            {<<run, j>> : j \in Visited(sweep[r], k, dedup[k]).doomed
                                  \intersect DoomedByOthers(r)}
    /\ UNCHANGED <<process, dedup, stage, msg, answer, emission, counters,
                   bornIn, claimed, claimedAt, published>>

MutSweepDeleteAgain(r, k) ==
    /\ sweep[r].state = "ranging"
    /\ k \in sweep[r].doomed
    /\ dedup' = [dedup EXCEPT ![k] = Absent]
    /\ UNCHANGED <<process, stage, msg, answer, emission, sweep, counters,
                   history>>

(* The callback deletes the key it found expired, whatever the map holds   *)
(* for it by now.                                                          *)
SweepDelete(r, k) ==
    /\ sweep[r].state = "ranging"
    /\ k \in sweep[r].doomed
    /\ dedup' = [dedup EXCEPT ![k] = Absent]
    /\ sweep' = [sweep EXCEPT ![r].doomed = {}]
    /\ UNCHANGED <<process, stage, msg, answer, emission, counters, history>>

SweepOver(r) ==
    /\ sweep[r].state = "ranging"
    /\ sweep[r].todo = {}
    /\ sweep[r].doomed = {}

-----------------------------------------------------------------------------
(* The process and the clock *)

Tick ==
    /\ clock < MaxClock
    /\ clock' = clock + 1
    /\ UNCHANGED <<status, run, dedup, stage, msg, answer, emission, sweep,
                   counters, history>>

(* main returns from a.Run and calls Shutdown: no request is read anymore. *)
BeginShutdown ==
    /\ status = "up"
    /\ status' = "draining"
    /\ UNCHANGED <<clock, run, dedup, stage, msg, answer, emission, sweep,
                   counters, history>>

(* The end of the process ends every goroutine and empties the map. *)
Die ==
    /\ status' = "down"
    /\ dedup' = [k \in Key |-> Absent]
    /\ stage' = [r \in Request |->
            IF stage[r] \in InFlight THEN "aborted" ELSE stage[r]]
    /\ emission' = [r \in Request |->
            IF emission[r] \in Emitting THEN "lost" ELSE emission[r]]
    /\ sweep' = [r \in Request |-> NoSweep]
    /\ counters' = [c \in Counter |-> 0]
    /\ UNCHANGED <<clock, run, msg, answer, history>>

(* Shutdown returns once every handler has; main then returns.  Emit       *)
(* goroutines and sweeps are not waited for.                               *)
Exit ==
    /\ status = "draining"
    /\ \A r \in Request : stage[r] \notin InFlight
    /\ Die

(* A crash, a logger.Fatal or, while draining, the ten seconds of Shutdown. *)
Crash ==
    /\ status \in {"up", "draining"}
    /\ Die

Restart ==
    /\ status = "down"
    /\ run < MaxRun
    /\ status' = "up"
    /\ run' = run + 1
    /\ UNCHANGED <<clock, dedup, stage, msg, answer, emission, sweep,
                   counters, history>>

-----------------------------------------------------------------------------

Handle(r) ==
    \/ Reject(r)
    \/ Suppress(r)
    \/ Claim(r)
    \/ Count(r)
    \/ Acknowledge(r)
    \/ Flush(r)
Emit(r) == Publish(r) \/ EmitOk(r) \/ EmitFail(r)
SweepStep(r) ==
    \/ SweepStart(r)
    \/ \E k \in Key : SweepVisit(r, k) \/ SweepDelete(r, k)

Next ==
    \/ \E r \in Request :
        \/ \E d \in Deliveries : Receive(r, d)
        \/ Handle(r)
        \/ Emit(r)
        \/ SweepStep(r)
    \/ Tick
    \/ BeginShutdown
    \/ Exit
    \/ Crash
    \/ Restart

Spec == Init /\ [][Next]_vars

(* The Go scheduler runs every goroutine, an emission ends within its five *)
(* seconds, and nothing is assumed of Stripe, of the clock or of failures. *)
Fairness ==
    \A r \in Request :
        /\ WF_vars(Handle(r))
        /\ WF_vars(Emit(r))
        /\ WF_vars(SweepStep(r))

FairSpec == Spec /\ Fairness

-----------------------------------------------------------------------------
(* Safety *)

SameEvent(d, f) == d.path = f.path /\ d.event = f.event
BeyondWindow(t, u) == u > t + TTL

(* The requests of run n that claimed the event d carries. *)
ClaimsOf(d, n) == {r \in claimed : bornIn[r] = n /\ SameEvent(msg[r], d)}

(* Within one run of the process, the first claim of an event closes a     *)
(* whole window: every other delivery of that event that gets through the  *)
(* dedup map does so more than TTL after it, however many sweeps overlap.  *)
FirstWindowHonoured ==
    \A r \in claimed :
        \E first \in ClaimsOf(msg[r], bornIn[r]) :
            \A q \in ClaimsOf(msg[r], bornIn[r]) \ {first} :
                BeyondWindow(claimedAt[first], claimedAt[q])

(* What the documents say of the map: within one run, any two claims of an *)
(* event are more than TTL apart (docs/OPERATIONS.md:96, README.md:182).   *)
(* A sweep that deletes by key what it read earlier does not keep this.    *)
WindowHonoured ==
    \A q, r \in claimed :
        (/\ q # r
         /\ bornIn[q] = bornIn[r]
         /\ SameEvent(msg[q], msg[r])
         /\ claimedAt[q] <= claimedAt[r])
        => BeyondWindow(claimedAt[q], claimedAt[r])

(* Sweeps of one key that overlap are the only cause: any two claims of an *)
(* event in one run are more than TTL apart, unless two sweeps of that run *)
(* found its entry expired before one of them deleted it, with any         *)
(* deliveries, sweeps of other keys, shutdowns, crashes and restarts.      *)
WindowUnlessSweepsRace ==
    \A q, r \in claimed :
        (/\ q # r
         /\ bornIn[q] = bornIn[r]
         /\ SameEvent(msg[q], msg[r])
         /\ claimedAt[q] <= claimedAt[r]
         /\ <<bornIn[r], KeyOf(msg[r])>> \notin raced)
        => BeyondWindow(claimedAt[q], claimedAt[r])

(* No delivery is answered 200 unless one of the same instance and the     *)
(* same event was claimed in the same run: dedup never swallows an event   *)
(* of another tenant, nor one that only an earlier run had seen.           *)
AnsweredMeansClaimed ==
    \A r \in Request :
        answer[r] = 200 => ClaimsOf(msg[r], bornIn[r]) # {}

(* Every envelope relayed comes from a delivery signed with the secret of  *)
(* the very instance it is relayed for.                                    *)
OnlyAuthenticRelayed ==
    \A r \in published :
        msg[r].path \in Instance /\ msg[r].secret = SecretOf[msg[r].path]

(* When a sweep is over, no entry that was expired when it read the time   *)
(* is left in the map, so the map holds what the window needs and what the *)
(* deliveries since the last sweep stored.                                 *)
SweepLeavesNoExpired ==
    \A r \in Request, k \in Key :
        SweepOver(r) /\ dedup[k] # Absent => ~BeyondWindow(dedup[k], sweep[r].now)

(* The staging acceptance test, received = rta_emit (docs/OPERATIONS.md:    *)
(* 120), is sound: when the counters agree at any moment, every delivery   *)
(* of this run that is claimed and counted has reached the RTA.  A handler *)
(* that has claimed its event and not counted it yet (between              *)
(* webhook_server.go:131 and :136) is all the counters can miss.           *)
CountersTellRelayed ==
    (status # "down" /\ counters["received"] = counters["emitOk"]) =>
        \A r \in claimed :
            bornIn[r] = run => r \in published \/ stage[r] = "claimed"

-----------------------------------------------------------------------------
(* Liveness *)

(* A delivery that was read is answered, unless the process dies. *)
DeliverySettles ==
    \A r \in Request :
        (stage[r] \in InFlight) ~> (stage[r] \in {"closed", "aborted"})

(* The envelope of every claimed delivery is given to the emitter, and the *)
(* emission ends, unless the process dies.                                 *)
ClaimSettles ==
    \A r \in Request :
        (stage[r] = "claimed") ~>
            (emission[r] \in {"ok", "failed", "lost"} \/ status = "down")

(* Every sweep comes to its end, although the map changes under it. *)
SweepTerminates ==
    \A r \in Request :
        (sweep[r].state # "none") ~> (SweepOver(r) \/ sweep[r].state = "none")

-----------------------------------------------------------------------------
(* The reactor keeps the promise of EventRelay: the held keys are those of *)
(* the dedup map, a claimed delivery is owed until its emission ended.     *)

Owed == {r \in claimed :
            \/ stage[r] \in {"claimed", "counted"}
            \/ emission[r] \in Emitting}

Relay == INSTANCE EventRelay WITH
    Ticket  <- Request,
    held    <- {k \in Key : dedup[k] # Absent},
    owed    <- Owed,
    spent   <- claimed,
    relayed <- published

(* Every behaviour of the reactor is one of the relay. *)
RelayPromise == Relay!Spec

-----------------------------------------------------------------------------
(* The inductive invariant behind the theorems of WebhookReactorProofs. *)

(* How the parts of a request's state go together. *)
RequestOK(r) ==
    /\ stage[r] \in InFlight => bornIn[r] = run /\ status # "down"
    /\ stage[r] \in {"claimed", "counted", "answering"} => r \in claimed
    /\ stage[r] \in {"unsent", "open"} => r \notin claimed /\ answer[r] = NoAnswer
    /\ emission[r] # "none" =>
          r \in claimed /\ stage[r] \in {"answering", "closed", "aborted"}
    /\ emission[r] \in Emitting => status # "down"
    /\ r \in published => emission[r] \notin {"none", "running"}
    /\ r \in claimed => /\ Verdict(msg[r]) = 200
                        /\ bornIn[r] <= run
                        /\ claimedAt[r] <= clock

(* The claims of a key in this run. *)
ClaimsNow(k) == {r \in claimed : bornIn[r] = run /\ KeyOf(msg[r]) = k}

(* An entry was stored by a claim of this run. *)
EntryOK(k) ==
    dedup[k] # Absent =>
        /\ status # "down"
        /\ dedup[k] <= clock
        /\ \E r \in ClaimsNow(k) : claimedAt[r] = dedup[k]

(* A sweep never read a time to come; it has left no expired entry behind; *)
(* it deletes one key at a time, and one that was claimed in this run.     *)
SweepOK(s) ==
    /\ sweep[s].state # "none" => status # "down"
    /\ sweep[s].state # "ranging" => sweep[s].doomed = {}
    /\ sweep[s].now <= clock
    /\ \A j, k \in sweep[s].doomed : j = k
    /\ \A k \in Key :
          /\ k \in sweep[s].doomed => ClaimsNow(k) # {}
          /\ (/\ sweep[s].state = "ranging"
              /\ k \notin sweep[s].todo \union sweep[s].doomed
              /\ dedup[k] # Absent) => ~BeyondWindow(dedup[k], sweep[s].now)

(* Until the window of the first claim is over, its entry is in the map,   *)
(* no sweep is about to delete it, and no other claim happened.            *)
FirstOK(first, r) ==
    /\ \A q \in ClaimsOf(msg[r], bornIn[r]) \ {first} :
          BeyondWindow(claimedAt[first], claimedAt[q])
    /\ (bornIn[r] = run /\ status # "down") =>
          \/ BeyondWindow(claimedAt[first], clock)
          \/ /\ dedup[KeyOf(msg[r])] # Absent
             /\ \A s \in Request : KeyOf(msg[r]) \notin sweep[s].doomed

IInv ==
    /\ TypeOK
    /\ \A r \in Request : RequestOK(r)
    /\ \A k \in Key : EntryOK(k)
    /\ \A s \in Request : SweepOK(s)
    /\ \A r \in claimed :
          \E first \in ClaimsOf(msg[r], bornIn[r]) : FirstOK(first, r)
    /\ AnsweredMeansClaimed

(* While no two sweeps have raced for a key, its entry is the time of its  *)
(* last claim in this run, and without an entry every window is over.      *)
EntryIsLast(k) ==
    (status # "down" /\ <<run, k>> \notin raced) =>
        \A r \in ClaimsNow(k) :
            IF dedup[k] = Absent
            THEN BeyondWindow(claimedAt[r], clock)
            ELSE claimedAt[r] = dedup[k] \/ BeyondWindow(claimedAt[r], dedup[k])

(* And at most one sweep is about to delete it, the very entry it found    *)
(* expired.                                                                *)
DoomedIsExpired(s) ==
    \A k \in sweep[s].doomed :
        <<run, k>> \notin raced =>
            /\ dedup[k] # Absent /\ BeyondWindow(dedup[k], sweep[s].now)
            /\ k \notin DoomedByOthers(s)

(* A race is of a run that has begun. *)
RacesOfRuns == \A x \in raced : x[1] <= run

RaceFree ==
    /\ WindowUnlessSweepsRace
    /\ RacesOfRuns
    /\ \A k \in Key : EntryIsLast(k)
    /\ \A s \in Request : DoomedIsExpired(s)
=============================================================================
