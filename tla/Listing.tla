------------------------------ MODULE Listing ------------------------------
(***************************************************************************)
(* The reads that list: observe_payment_intents, observe_customers,        *)
(* observe_subscriptions, observe_charges and observe_webhook_endpoints of *)
(* adapter.go, and their kin for the console in surface_query.go.          *)
(*                                                                         *)
(* A read asks Stripe for pages, newest objects first, and takes objects   *)
(* until it has as many as its limit and sees a further one, or the last   *)
(* page is used up.  Meanwhile objects are created and deleted.  Only      *)
(* observe_charges takes a cursor (starting_after), so that its caller can *)
(* go on where the last read stopped.                                      *)
(*                                                                         *)
(* Stripe is external: an id is a number, and later objects have greater   *)
(* ones.  What a filter (a customer, an email) lets through is abstracted  *)
(* to the collection of an account.                                        *)
(***************************************************************************)
EXTENDS Integers, FiniteSets

CONSTANTS
    Reader,        \* identities of reads, and of the walks they are part of
    Scope,         \* the platform and the accounts, each with a collection
    DefaultLimit,  \* for a limit that is missing or not positive (10)
    MaxLimit,      \* the greatest limit (100)
    MaxId          \* bound: the objects ever created

ASSUME ListingAssumption ==
    /\ Scope # {}
    /\ DefaultLimit \in Nat \ {0}
    /\ MaxLimit \in Nat
    /\ MaxLimit >= DefaultLimit
    /\ MaxId \in Nat

Id == 1..MaxId
(* Greater than every id: the cursor of who reads from the newest on.      *)
Top == MaxId + 1

VARIABLES
    exists,      \* the objects of each account
    latest,      \* the last id given out
    read,        \* the state of each read
    got,         \* what the earlier reads of a walk returned
    throughout   \* history: what was there since the walk began

collection == <<exists, latest>>
listing == <<exists, latest, read, got, throughout>>

Resting == [state |-> "idle", scope |-> CHOOSE s \in Scope : TRUE, limit |-> 1,
            after |-> Top, items |-> {}, more |-> FALSE]

InitListing ==
    /\ exists = [s \in Scope |-> {}]
    /\ latest = 0
    /\ read = [r \in Reader |-> Resting]
    /\ got = [r \in Reader |-> {}]
    /\ throughout = [r \in Reader |-> {}]

-----------------------------------------------------------------------------
MutClamp(l) == IF l < 0 THEN DefaultLimit ELSE IF l > MaxLimit THEN MaxLimit
                                                               ELSE l
(* clampLimit, and the same lines of each observe_* handler. *)
Clamp(l) == IF l <= 0 THEN DefaultLimit ELSE IF l > MaxLimit THEN MaxLimit
                                                             ELSE l

(* The n greatest of a set. *)
Newest(S, n) == {x \in S : Cardinality({y \in S : y > x}) < n}

(* Each page begins behind the last object the read has seen.              *)
Behind(v, x) == x < v.after /\ \A y \in v.items : x < y

Start(r, s, l, after) ==
    /\ read[r].state = "idle"
    /\ read' = [read EXCEPT ![r] =
                   [state |-> "reading", scope |-> s, limit |-> Clamp(l),
                    after |-> after, items |-> {}, more |-> FALSE]]
    /\ throughout' = [throughout EXCEPT ![r] = {x \in exists[s] : x < after}]
    /\ UNCHANGED <<exists, latest, got>>

MutPage(r) ==
    LET v    == read[r]
        rest == {x \in exists[v.scope] : Behind(v, x)}
        page == Newest(rest, v.limit)
        room == v.limit - Cardinality(v.items)
        taken == Newest(page, room)
    IN
    /\ v.state = "reading"
    /\ read' = [read EXCEPT ![r].items = @ \union taken, ![r].more = FALSE,
                            ![r].state = IF Cardinality(taken) = room
                                         THEN "done" ELSE "reading"]
    /\ UNCHANGED <<collection, got, throughout>>

MutPageOfDefault(r) ==
    LET v    == read[r]
        rest == {x \in exists[v.scope] : Behind(v, x)}
        page == Newest(rest, DefaultLimit)
        room == v.limit - Cardinality(v.items)
        taken == Newest(page, room)
        over == taken # page
    IN
    /\ v.state = "reading"
    /\ read' = [read EXCEPT ![r].items = @ \union taken, ![r].more = over,
                            ![r].state = IF over \/ page = rest THEN "done"
                                                                ELSE "reading"]
    /\ UNCHANGED <<collection, got, throughout>>

(* One page and what the loop makes of it: it stops at the first object it *)
(* has no room for, or asks for another page if Stripe says there is one.  *)
Page(r) ==
    LET v    == read[r]
        rest == {x \in exists[v.scope] : Behind(v, x)}
        page == Newest(rest, v.limit)
        room == v.limit - Cardinality(v.items)
        taken == Newest(page, room)
        over == taken # page
    IN
    /\ v.state = "reading"
    /\ read' = [read EXCEPT ![r].items = @ \union taken, ![r].more = over,
                            ![r].state = IF over \/ page = rest THEN "done"
                                                                ELSE "reading"]
    /\ UNCHANGED <<collection, got, throughout>>

(* Any page may fail, as when the object the cursor names is gone, and     *)
(* with it the read: what the pages before held is not returned.           *)
PageFails(r) ==
    /\ read[r].state = "reading"
    /\ read' = [read EXCEPT ![r].items = {}, ![r].state = "failed"]
    /\ UNCHANGED <<collection, got, throughout>>

MutSkip(r, l) ==
    /\ read[r].state = "done"
    /\ read[r].more
    /\ \E last \in read[r].items :
          /\ \A y \in read[r].items : last <= y
          /\ read' = [read EXCEPT ![r] =
                         [@ EXCEPT !.state = "reading", !.limit = Clamp(l),
                                   !.after = last - 1, !.items = {},
                                   !.more = FALSE]]
    /\ got' = [got EXCEPT ![r] = @ \union read[r].items]
    /\ UNCHANGED <<collection, throughout>>

(* The caller goes on behind the last object it was given, if any.         *)
Continue(r, l) ==
    /\ read[r].state = "done"
    /\ read[r].more
    /\ \E last \in read[r].items :
          /\ \A y \in read[r].items : last <= y
          /\ read' = [read EXCEPT ![r] =
                         [@ EXCEPT !.state = "reading", !.limit = Clamp(l),
                                   !.after = last, !.items = {},
                                   !.more = FALSE]]
    /\ got' = [got EXCEPT ![r] = @ \union read[r].items]
    /\ UNCHANGED <<collection, throughout>>

(* Meanwhile, at Stripe. *)
Appear(s) ==
    /\ latest < MaxId
    /\ latest' = latest + 1
    /\ exists' = [exists EXCEPT ![s] = @ \union {latest + 1}]
    /\ UNCHANGED <<read, got, throughout>>

Vanish(s, x) ==
    /\ x \in exists[s]
    /\ exists' = [exists EXCEPT ![s] = @ \ {x}]
    /\ throughout' = [r \in Reader |-> throughout[r] \ {x}]
    /\ UNCHANGED <<latest, read, got>>

Change == \E s \in Scope : Appear(s) \/ \E x \in Id : Vanish(s, x)

ListingNext ==
    \/ Change
    \/ \E r \in Reader :
          \/ \E s \in Scope, l \in Int, after \in Id \union {Top} :
                Start(r, s, l, after)
          \/ Page(r)
          \/ PageFails(r)
          \/ \E l \in Int : Continue(r, l)

ListingSpec == InitListing /\ [][ListingNext]_listing

-----------------------------------------------------------------------------
ListingTypeOK ==
    /\ exists \in [Scope -> SUBSET Id]
    /\ latest \in 0..MaxId
    /\ read \in [Reader -> [state: {"idle", "reading", "done", "failed"},
                            scope: Scope, limit: 1..MaxLimit,
                            after: Id \union {Top}, items: SUBSET Id,
                            more: BOOLEAN]]
    /\ got \in [Reader -> SUBSET Id]
    /\ throughout \in [Reader -> SUBSET Id]

Returned(r) == got[r] \union read[r].items

(* Pages and reads that follow one another leave no gap: nothing that was  *)
(* there all the time lies before the point they have reached, unseen.     *)
NoGaps ==
    \A r \in Reader : \A x \in throughout[r] :
        x \in Returned(r) \/ read[r].state = "failed" \/ Behind(read[r], x)

(* An answer with has_more = false is complete: it, and what its caller    *)
(* was given before, holds everything that was there all the time.         *)
CompleteUnlessMore ==
    \A r \in Reader :
        (read[r].state = "done" /\ ~read[r].more)
            => throughout[r] \subseteq Returned(r)

(* has_more = true is said of a full answer only, whose caller can go on   *)
(* behind its last object; no answer is longer than was asked for.         *)
FullWhenMore ==
    \A r \in Reader :
        /\ Cardinality(read[r].items) <= read[r].limit
        /\ read[r].more => Cardinality(read[r].items) = read[r].limit

(* has_more tells the truth, both ways. *)
MoreIsTrue == CompleteUnlessMore /\ FullWhenMore

(* A walk gives no object twice. *)
NoneTwice == \A r \in Reader : got[r] \intersect read[r].items = {}

(* So a walk gives what was there all the time once each. *)
OnceEach == NoGaps /\ NoneTwice

(* A read goes on after its first page only, and then with something in    *)
(* hand: it is over with the second request at the latest, however many    *)
(* objects there are and whatever appears meanwhile.                       *)
TwoPagesAtMost ==
    [][\A r \in Reader :
          (/\ read[r].state = "reading"
           /\ read'[r].state = "reading"
           /\ read'[r] # read[r])
          => read[r].items = {} /\ read'[r].items # {}]_listing

-----------------------------------------------------------------------------
(* The inductive invariant behind the theorems of ListingProofs.           *)

(* What was there all the time still is; a read, and the walk before it,   *)
(* lie on their sides of its cursor.                                       *)
ReadOK(r) ==
    /\ read[r].state = "idle" => got[r] = {} /\ throughout[r] = {}
    /\ throughout[r] \subseteq exists[read[r].scope]
    /\ \A y \in read[r].items : y < read[r].after
    /\ \A y \in got[r] : y >= read[r].after

ListingInv ==
    /\ ListingTypeOK
    /\ \A r \in Reader : ReadOK(r)
    /\ NoGaps
    /\ CompleteUnlessMore
=============================================================================
