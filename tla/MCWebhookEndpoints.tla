------------------------- MODULE MCWebhookEndpoints -------------------------
(* Small instances of WebhookEndpoints. *)
EXTENDS WebhookEndpoints, TLC

CONSTANTS i, j, acct, platform, u1, u2, nourl, w1, w2, w3, noendpoint, v1, v2,
          unset, k1, k2, nokey, nobody, c1, c2

(* Nothing is wished but the value v of the metadata, the only field here. *)
Want(v) == [f \in {"metadata"} |-> v]

Ask(op, n) ==
    [op |-> op, inst |-> n, account |-> platform, id |-> noendpoint,
     url |-> nourl, connect |-> FALSE, want |-> Want(unset),
     override |-> nobody, key |-> nokey, lacks |-> {}]

Provision(n, u, v) == [Ask("provision", n) EXCEPT !.url = u, !.want = Want(v)]
Ensure(n, e, v) == [Ask("ensure", n) EXCEPT !.id = e, !.want = Want(v)]
Move(n, e, u) == [Ask("ensure", n) EXCEPT !.id = e, !.url = u]
Adopt(n, u, v) == [Ask("ensure", n) EXCEPT !.url = u, !.want = Want(v)]
Destroy(n, e) == [Ask("destroy", n) EXCEPT !.id = e]
In(a, q) == [q EXCEPT !.account = a]
With(k, q) == [q EXCEPT !.key = k]
Claiming(n, q) == [q EXCEPT !.override = n]

Unbound == [n \in Instance |-> platform]
BoundToAcct == [n \in Instance |-> IF n = i THEN acct ELSE platform]

(* Copies of one workflow, the same of another instance, and the           *)
(* destruction of what they made, to recover its secret; the dashboard     *)
(* deletes endpoints in between.                                           *)
Copies == {Provision(i, u1, v1), Provision(j, u1, v1), Destroy(i, w1)}

(* Two instances that own and wish for what the other owns, in one         *)
(* account, with keys of their own and with the derived one.               *)
Rivals == {Ensure(i, w3, v2), In(acct, Ensure(j, w3, v1)), Adopt(i, u1, v2),
           Claiming(j, Ensure(i, w3, v2)), In(acct, Move(j, w3, u2)),
           With(k1, Ensure(i, w3, v1)), With(k2, In(acct, Ensure(j, w3, v2)))}

(* Every operation, of an instance bound to an account and of one that is  *)
(* not; w1 is what a provision makes.                                      *)
Mixed == {Provision(i, u1, v1), In(acct, Provision(j, u1, v1)),
          [In(acct, Provision(j, u1, v1)) EXCEPT !.connect = TRUE],
          [Provision(i, u1, v1) EXCEPT !.lacks = {"sink"}],
          Ensure(i, w1, v2), Adopt(i, u1, v2), Destroy(i, w1), Destroy(j, w1),
          Ask("observe", i)}

Everything == Rivals \union Mixed

(* The calls that meet are rivals over w3, or any others over w1 and w2;   *)
(* c1 and w1 are the names of the first.                                   *)
Related ==
    /\ pc[c1] = "idle" => pc[c2] = "idle"
    /\ w2 \in born => w1 \in born
    /\ \/ \A c \in Call : pc[c] = "idle" \/ req[c] \in Rivals
       \/ w3 \notin born /\ \A c \in Call : pc[c] = "idle" \/ req[c] \in Mixed

(* Others act between what a call read and what it writes: they delete,    *)
(* move, edit and hand over, but never back and forth.  Before that they   *)
(* make and tag an endpoint for the calls to find.                         *)
OthersMeetCalls ==
    (pc' = pc /\ saved' = saved /\ acted' = acted /\ result' = result) =>
        \/ /\ \E c \in Call : pc[c] \in {"create", "update", "delete"}
           /\ \A e \in Endpoint :
                 /\ rec'[e].url # rec[e].url => rec'[e].url = u2
                 /\ rec'[e].set # rec[e].set => rec'[e].set = Want(v2)
                 /\ rec'[e].tag # rec[e].tag => rec'[e].tag.owner \in {nobody, j}
                                              /\ ~rec'[e].tag.connect
        \/ /\ \A c \in Call : pc[c] = "idle"
           /\ \/ DashboardCreate(w3, u1, acct)
              \/ rec[w3].tag = NoTag /\ \E n \in Instance : Retag(w3, n, FALSE)

(* What is provisioned is not handed over. *)
NoHandover == \A e \in born : rec'[e].tag = rec[e].tag

Symmetry == Permutations(Call)
=============================================================================
