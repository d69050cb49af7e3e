-------------------------- MODULE MCManagedObjects --------------------------
(* Small instances of ManagedObjects. *)
EXTENDS ManagedObjects, TLC

CONSTANTS i, j, acct, platform, o1, o2, customer, intent, subscription,
          noobject, k1, nokey

BoundToAcct == (i :> acct) @@ (j :> platform)

(* Objects that stand before the calls begin. *)
Older == (customer :> [kind |-> "customer", account |-> platform])
         @@ (intent :> [kind |-> "payment_intent", account |-> acct])
         @@ (subscription :> [kind |-> "subscription", account |-> platform])

Ask(op, n, in) ==
    [op |-> op, inst |-> n, account |-> platform, id |-> noobject, in |-> in,
     key |-> nokey]
About(o, q) == [q EXCEPT !.id = o]
In(a, q) == [q EXCEPT !.account = a]
Keyed(q) == [q EXCEPT !.key = k1]
Nothing == [f \in {} |-> "nothing"]

NewCustomer(n, name) ==
    Ask("ensure_customer", n, [email |-> "mail", name |-> name])
NewIntent(n) ==
    Ask("ensure_payment_intent", n,
        [amount |-> 5, currency |-> "brl", payment_method |-> "card"])
With(q, more) == [q EXCEPT !.in = @ @@ more]
Refund(what) == Ask("create_refund", j, what)

(* Creations that meet in a key, with the same and with other fields, in   *)
(* one account and in two, under keys of the caller's own and without,     *)
(* and some with inputs that their handlers drop.                          *)
Creations ==
    {NewCustomer(j, "ana"), NewCustomer(j, "bia"), Keyed(NewCustomer(j, "ana")),
     NewCustomer(i, "ana"), In(acct, NewCustomer(j, "ana")), NewIntent(i),
     With(NewIntent(i), [capture_method |-> "manual", metadata |-> "m"]),
     In(platform, NewIntent(j)),
     Refund([charge |-> "ch", amount |-> 5]),
     Keyed(Refund([charge |-> "ch", amount |-> 5])),
     Refund([payment_intent |-> "pi", amount |-> 5]),
     Refund([payment_intent |-> "pi2", amount |-> 5]),
     Ask("create_payout", i, [amount |-> 5, currency |-> "brl"]),
     With(Ask("create_setup_intent", i, [customer |-> "cus"]),
          [payment_method_types |-> "boleto"]),
     Ask("ensure_subscription", j, [customer |-> "cus", items |-> "prices"]),
     With(Ask("manage_connect_account/create", i, [email |-> "mail"]),
          [capabilities |-> "transfers"])}

(* Requests about objects that stand. *)
Uses ==
    {About(customer, Ask("ensure_customer", j, [name |-> "bia"])),
     About(customer, Ask("ensure_customer", j, [name |-> "bia", metadata |-> "m"])),
     About(customer, Ask("destroy_customer", j, Nothing)),
     About(customer, Ask("destroy_customer", i, Nothing)),
     About(customer, Ask("observe_customers", j, Nothing)),
     About(intent, Ask("ensure_payment_intent", i, Nothing)),
     About(intent, Keyed(Ask("ensure_payment_intent", i, Nothing))),
     About(intent, Ask("destroy_payment_intent", i, Nothing)),
     About(intent, In(acct, Ask("destroy_payment_intent", j, Nothing))),
     About(subscription, Ask("ensure_subscription", j, Nothing)),
     About(subscription, Ask("destroy_subscription", j,
                             [cancel_at_period_end |-> TRUE])),
     About(subscription, Ask("destroy_subscription", j, Nothing)),
     About(o1, Ask("manage_connect_account/update", i, [email |-> "new"])),
     About(o1, Ask("manage_connect_account/get", i, Nothing)),
     Ask("manage_connect_account/other", i, Nothing),
     In(platform, Ask("create_refund", i, [amount |-> 5]))}

All == Creations \union Uses

(* The deletion of a customer, and nobody else who would delete it. *)
OneDelete == {About(customer, Ask("destroy_customer", j, Nothing))}

(* Orders of payment intents, with metadata and without. *)
Orders ==
    {NewIntent(i), With(NewIntent(i), [metadata |-> "m"]),
     With(Keyed(NewIntent(i)), [metadata |-> "m"])}

Symmetry == Permutations(Call)
=============================================================================
