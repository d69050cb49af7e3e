-------------------------- MODULE MCExecuteBridge --------------------------
(* Small instances of ExecuteBridge, and with it of Listing, Signature and *)
(* Configuration.                                                          *)
EXTENDS ExecuteBridge, TLC

CONSTANTS acct, other, platform, creds, nocreds, absent, secret, payload,
          garbage

(* Two entries of one id, and one without. *)
File == <<2, 0, 1, 2>>

Blanks == (" " :> "") @@ (" provision_webhook_endpoint " :>
                              "provision_webhook_endpoint")

Message(op, cap) ==
    [decodes |-> TRUE, op |-> op, cap |-> cap, inst |-> 2, ref |-> 0,
     named |-> absent, creds |-> creds, bound |-> platform,
     account |-> platform, elsewhere |-> platform, query |-> "", byId |-> TRUE,
     limit |-> 1, after |-> Top, header |-> <<>>, payload |-> payload,
     secret |-> secret, tol |-> 1, echoes |-> FALSE]
Both(op) == Message(op, op)
List(op, l) == [Both(op) EXCEPT !.byId = FALSE, !.limit = l]
Query(name) == [Both("on_surface_query") EXCEPT !.query = name]

(* Every name, in both fields or in one. *)
Named == {Both(op) : op \in SupportedExecuteOperations}
         \union {Both("list_charges"), Message("", "create_payout"),
                 Message("", "destroy_customer"), Message("create_refund", ""),
                 Message("update_customer", " "),
                 Message("retrieve_balance", " "),
                 Message("unheard_of", " "), Message(" ", " ")}

Provisions ==
    {Message(" provision_webhook_endpoint ", "provision_webhook_endpoint"),
     Message("", "provision_webhook_endpoint"),
     Message("provision_webhook_endpoint", "observe_balance")}

(* Where the instance is named, and what may be missing or in conflict.    *)
Instances ==
    LET q == Both("destroy_customer")
        p == Both("create_payout")
    IN {[q EXCEPT !.inst = 0, !.ref = 2], [q EXCEPT !.inst = 0],
        [q EXCEPT !.named = 0], [q EXCEPT !.named = 1], [q EXCEPT !.ref = 1],
        [p EXCEPT !.inst = 0, !.ref = 2], [p EXCEPT !.creds = nocreds],
        [q EXCEPT !.bound = acct], [q EXCEPT !.account = acct],
        [q EXCEPT !.creds = nocreds], [q EXCEPT !.decodes = FALSE],
        [q EXCEPT !.echoes = TRUE, !.bound = acct],
        [p EXCEPT !.bound = acct, !.account = acct]}

Observations ==
    {List("observe_customers", 0), List("observe_customers", 9),
     List("observe_charges", 1), List("observe_charges", 2),
     [List("observe_charges", 1) EXCEPT !.after = 2],
     [List("observe_charges", 1) EXCEPT !.bound = acct],
     [List("observe_subscriptions", 1) EXCEPT !.bound = acct],
     [List("observe_charges", 1) EXCEPT !.account = acct]}

Surface ==
    {Query(name) : name \in Queries \union {"", "list-refunds"}}
    \union {[Query("list-subscriptions") EXCEPT
                !.elsewhere = acct, !.limit = 0],
            [Query("charge-detail") EXCEPT !.bound = acct],
            [Query("get-balance") EXCEPT !.bound = acct],
            [Query("list-webhook-endpoints") EXCEPT !.bound = acct]}

(* Headers of up to three parts. *)
Parts ==
    {[key |-> "t", value |-> 1], [key |-> "t", value |-> -8],
     [key |-> "t", value |-> garbage],
     [key |-> "v1", value |-> Mac(secret, 1, payload)],
     [key |-> "v1", value |-> garbage], [key |-> "other", value |-> garbage]}
Headers == UNION {[1..n -> Parts] : n \in 0..3}
Verifications ==
    {[Both("verify_webhook_signature") EXCEPT !.header = h] : h \in Headers}
    \union
    {[Both("verify_webhook_signature") EXCEPT !.tol = tol, !.header =
         <<[key |-> "t", value |-> ts],
           [key |-> "v1", value |-> Mac(secret, ts, payload)]>>] :
        tol \in {-1, 0, 1, 2, Half - 1}, ts \in Word}

All == Named \union Provisions \union Instances \union Observations
       \union Surface \union Verifications

(* Two queries of an instance bound to one account, with another account   *)
(* among the params.                                                       *)
Elsewhere ==
    {[Query(name) EXCEPT !.bound = acct, !.elsewhere = other] :
        name \in {"get-balance", "charge-detail"}}

(* A list through a reconciler. *)
Truncated == {List("observe_customers", 1)}
=============================================================================
