-------------------------- MODULE EndpointRegistry --------------------------
(***************************************************************************)
(* What the webhook_endpoint operations promise to the instances that use  *)
(* them, with no lists, no keys, no lost responses and no retries.         *)
(*                                                                         *)
(* A call has a wish: an attempt, an owner and more.  While the endpoint   *)
(* made for an attempt stands where it was made, no second one is made for *)
(* that attempt.  The secret of an endpoint is given to calls of that very *)
(* wish, once to each.  An endpoint takes changes from the calls of its    *)
(* owner alone, and once gone it never comes back.  Whoever works at the   *)
(* dashboard may make, tag, move and remove any.  One that is handed over  *)
(* while a change is on its way is contested: there the change may arrive  *)
(* late, and with it the former owner return.                              *)
(***************************************************************************)
CONSTANTS Call, Endpoint, NoEndpoint, Wish, NoWish, Owner, Nobody

VARIABLES
    wish,     \* the wish of each call, or none yet
    place,    \* of each endpoint: "unborn", "standing", "moved", "gone"
    purpose,  \* the wish each endpoint was made for, if by a call
    owner,    \* the owner of each endpoint
    secret,   \* the endpoint whose secret each call was given
    changed,  \* <<c, e>>: call c changed endpoint e
    contested \* the endpoints handed over while a change was on its way

vars == <<wish, place, purpose, owner, secret, changed, contested>>

AttemptOf(i) == i[1]
OwnerOf(i) == i[2]
Standing == {e \in Endpoint : place[e] = "standing"}
There == {e \in Endpoint : place[e] \in {"standing", "moved"}}

TypeOK ==
    /\ wish \in [Call -> Wish \union {NoWish}]
    /\ place \in [Endpoint -> {"unborn", "standing", "moved", "gone"}]
    /\ purpose \in [Endpoint -> Wish \union {NoWish}]
    /\ owner \in [Endpoint -> Owner \union {Nobody}]
    /\ secret \in [Call -> Endpoint \union {NoEndpoint}]
    /\ changed \subseteq Call \X Endpoint
    /\ contested \subseteq Endpoint

Init ==
    /\ wish = [c \in Call |-> NoWish]
    /\ place = [e \in Endpoint |-> "unborn"]
    /\ purpose = [e \in Endpoint |-> NoWish]
    /\ owner = [e \in Endpoint |-> Nobody]
    /\ secret = [c \in Call |-> NoEndpoint]
    /\ changed = {}
    /\ contested = {}

Ask(c, i) ==
    /\ wish[c] = NoWish
    /\ wish' = [wish EXCEPT ![c] = i]
    /\ UNCHANGED <<place, purpose, owner, secret, changed, contested>>

(* The secret goes with the endpoint that was made, or gets lost. *)
Make(c, e) ==
    /\ wish[c] # NoWish
    /\ secret[c] = NoEndpoint
    /\ place[e] = "unborn"
    /\ \A d \in Standing :
          purpose[d] # NoWish => AttemptOf(purpose[d]) # AttemptOf(wish[c])
    /\ place' = [place EXCEPT ![e] = "standing"]
    /\ purpose' = [purpose EXCEPT ![e] = wish[c]]
    /\ owner' = [owner EXCEPT ![e] = OwnerOf(wish[c])]
    /\ secret' \in {secret, [secret EXCEPT ![c] = e]}
    /\ UNCHANGED <<wish, changed, contested>>

Give(c, e) ==
    /\ wish[c] # NoWish
    /\ secret[c] = NoEndpoint
    /\ purpose[e] = wish[c]
    /\ secret' = [secret EXCEPT ![c] = e]
    /\ UNCHANGED <<wish, place, purpose, owner, changed, contested>>

Change(c, e) ==
    /\ wish[c] # NoWish
    /\ e \in There
    /\ owner[e] = OwnerOf(wish[c]) \/ e \in contested
    /\ place' \in {place, [place EXCEPT ![e] = "moved"]}
    /\ owner' \in {owner, [owner EXCEPT ![e] = OwnerOf(wish[c])]}
    /\ changed' = changed \union {<<c, e>>}
    /\ UNCHANGED <<wish, purpose, secret, contested>>

Remove(e) ==
    /\ e \in There
    /\ place' = [place EXCEPT ![e] = "gone"]
    /\ UNCHANGED <<wish, purpose, owner, secret, changed, contested>>

(* Endpoints that no call made, until they are tagged, are nobody's.       *)
MakeByHand(e) ==
    /\ place[e] = "unborn"
    /\ place' = [place EXCEPT ![e] = "standing"]
    /\ UNCHANGED <<wish, purpose, owner, secret, changed, contested>>

Tag(e, o) ==
    /\ e \in There
    /\ owner' = [owner EXCEPT ![e] = o]
    /\ contested' \in {contested, contested \union {e}}
    /\ UNCHANGED <<wish, place, purpose, secret, changed>>

Move(e) ==
    /\ e \in There
    /\ place' = [place EXCEPT ![e] = "moved"]
    /\ UNCHANGED <<wish, purpose, owner, secret, changed, contested>>

Next ==
    \/ \E c \in Call :
          \/ \E i \in Wish : Ask(c, i)
          \/ \E e \in Endpoint : Make(c, e) \/ Give(c, e) \/ Change(c, e)
    \/ \E e \in Endpoint :
          \/ Remove(e)
          \/ MakeByHand(e)
          \/ Move(e)
          \/ \E o \in Owner \union {Nobody} : Tag(e, o)

Spec == Init /\ [][Next]_vars

-----------------------------------------------------------------------------
(* What follows for whoever relies on the registry, as long as the         *)
(* absence of a wish is no wish, and nobody is no owner.                   *)
Proper ==
    /\ NoWish \notin Wish
    /\ Nobody \notin Owner
    /\ NoEndpoint \notin Endpoint
    /\ \A i \in Wish : OwnerOf(i) \in Owner

(* At most one endpoint that was made for an attempt stands. *)
OnePerAttempt ==
    \A d, e \in Standing :
        (/\ purpose[d] # NoWish /\ purpose[e] # NoWish
         /\ AttemptOf(purpose[d]) = AttemptOf(purpose[e])) => d = e

(* A secret is with those only who wished for what its endpoint was made   *)
(* for.                                                                    *)
SecretsAtHome ==
    \A c \in Call :
        secret[c] # NoEndpoint =>
            purpose[secret[c]] = wish[c] /\ wish[c] # NoWish

(* Who changes an endpoint is its owner, unless it is contested.           *)
ChangedByOwner ==
    [][\A c \in Call, e \in Endpoint :
         <<c, e>> \in changed' \ changed =>
            owner[e] = OwnerOf(wish[c]) \/ e \in contested]_vars

(* What an endpoint was made for stays, it never comes back, and a call    *)
(* never changes its wish or the secret it was given.                      *)
ForGood ==
    [][/\ \A e \in Endpoint :
             /\ place[e] # "unborn" => purpose'[e] = purpose[e]
             /\ place[e] = "gone" => place'[e] = "gone"
       /\ \A c \in Call :
             /\ wish[c] # NoWish => wish'[c] = wish[c]
             /\ secret[c] # NoEndpoint => secret'[c] = secret[c]]_vars
=============================================================================
