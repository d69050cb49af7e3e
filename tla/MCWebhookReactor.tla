-------------------------- MODULE MCWebhookReactor --------------------------
(* Small instances of WebhookReactor.                                      *)
EXTENDS WebhookReactor, TLC

CONSTANTS a, b, e1, e2, e3, sA, sB, forged, empty, other

Paths == {a, b, empty, other}
SecretsOf == (a :> sA) @@ (b :> sB)
SecretOfA == a :> sA

Post(p, e, s) ==
    [path |-> p, event |-> e, secret |-> s, fits |-> TRUE, parses |-> TRUE]

(* The same event id delivered to two tenants and signed by either, and    *)
(* every other outcome of the checks.                                      *)
Outcomes == {Post(a, e1, sA), Post(b, e1, sB), Post(a, e1, sB),
             Post(empty, e1, sA), Post(other, e1, sA),
             [Post(a, e1, sA) EXCEPT !.fits = FALSE],
             [Post(b, e1, sB) EXCEPT !.parses = FALSE]}

OneEvent == {Post(a, e1, sA)}
ThreeEvents == {Post(a, e, sA) : e \in {e1, e2, e3}}
TwoEvents == {Post(a, e1, sA), Post(a, e2, sA)}

Symmetry == Permutations(Request)
RequestsAndEvents == Symmetry \union Permutations({e1, e2})

(* Behaviours without a shutdown: while draining, the reactor does nothing *)
(* it does not do while up.                                                *)
Running == status = "up"

(* A tick is hours: no handler sleeps over one.  Sweeps may. *)
HandlersArePrompt ==
    clock' # clock => \A r \in Request : stage[r] \notin InFlight

(* Either a tick or a restart: nothing the reactor does is excluded. *)
TickOrRestart == clock + run <= 2

(* Sweeps take milliseconds, a tick hours: no goroutine sleeps over a tick. *)
GoroutinesArePrompt ==
    clock' # clock =>
        \A r \in Request :
            /\ stage[r] \notin InFlight
            /\ emission[r] \notin Emitting
            /\ sweep[r].state = "none" \/ SweepOver(r)

(* Deliveries one after the other, while the process is up: the race of    *)
(* two sweeps needs no two handlers at once.                               *)
OneHandlerAtATime ==
    /\ status = "up"
    /\ Cardinality({r \in Request : stage[r] \in InFlight}) <= 1
=============================================================================
