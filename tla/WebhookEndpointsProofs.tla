----------------------- MODULE WebhookEndpointsProofs -----------------------
(***************************************************************************)
(* Proofs about WebhookEndpoints: its inductive invariant and, from it,    *)
(* every safety property the runs check.                                   *)
(***************************************************************************)
EXTENDS WebhookEndpoints, TLAPS

-----------------------------------------------------------------------------
(* What requests and endpoints are made of *)

(* A request and the account it works in are of their types. *)
LEMMA RequestTyped ==
    ASSUME NEW q \in Requests
    PROVE  /\ q \in Request
           /\ Scope(q) \in Scopes
  BY EndpointsAssumption DEF Scope, Request, Scopes

(* An endpoint that was never made has content of the type. *)
LEMMA BlankTyped == Blank \in Content
  BY EndpointsAssumption DEF Blank, Content, NoTag, Tag, Scopes

(* What a provision sends, and the key it sends it under. *)
LEMMA CreateParamsTyped ==
    ASSUME TypeOK, NEW c \in Call, req[c].op = "provision"
    PROVE  /\ CreateParams(c) \in Params
           /\ CreateKey(c) \in Key
           /\ CreateParams(c).op = "create"
           /\ CreateParams(c).account = Scope(req[c])
           /\ [account |-> CreateParams(c).account, url |-> CreateParams(c).url,
               set |-> CreateParams(c).set, tag |-> CreateParams(c).tag] \in Content
  <1>1. req[c] \in Requests /\ req[c] \in Request /\ Scope(req[c]) \in Scopes
    BY RequestTyped DEF TypeOK
  <1>2. req[c].url \in Url /\ req[c].connect \in BOOLEAN /\ req[c].inst \in Instance
    BY <1>1, EndpointsAssumption DEF Request
  <1>3. gen[c] \in Nat
    BY DEF TypeOK
  <1>4. Filled(req[c].want) \in [Field -> Value]
    BY <1>1, EndpointsAssumption DEF Filled, Request, Wanted
  <1>5. [owner |-> OwnerOf(req[c]), connect |-> req[c].connect,
         account |-> Scope(req[c]), generation |-> gen[c]] \in Tag
    BY <1>1, <1>2, <1>3 DEF OwnerOf, Tag
  <1>6. CreateKey(c) \in Key
    BY <1>1, <1>2, <1>3 DEF CreateKey, Key
  <1>. QED
    BY <1>1, <1>2, <1>4, <1>5, <1>6 DEF CreateParams, Params, Content

(* What an ensure sends, to which endpoint and under which key. *)
LEMMA UpdateParamsTyped ==
    ASSUME TypeOK, NEW c \in Call
    PROVE  /\ UpdateParams(c) \in Params
           /\ UpdateParams(c).account = Scope(req[c])
           /\ UpdateParams(c).id = target[c]
           /\ UpdateParams(c).url \in Url \union {NoUrl}
           /\ UpdateParams(c).set \in Wanted
           /\ UpdateParams(c).tag \in Tag
           /\ target[c] \in Endpoint => UpdateKey(c) \in Key
  <1>1. req[c] \in Requests /\ req[c] \in Request /\ Scope(req[c]) \in Scopes
    BY RequestTyped DEF TypeOK
  <1>2. target[c] \in Endpoint \union {NoEndpoint} /\ snap[c] \in Content
    BY DEF TypeOK
  <1>. DEFINE d == Diff(req[c], snap[c])
  <1>3. d.url \in Url \union {NoUrl} /\ d.set \in Wanted
    BY <1>1 DEF Diff, Request, Wanted
  <1>4. SentTag(snap[c]) \in Tag /\ NoTag \in Tag
    BY <1>2 DEF SentTag, Content, NoTag, Tag, Scopes
  <1>5. UpdateParams(c) =
          [op |-> "update", account |-> Scope(req[c]), id |-> target[c],
           url |-> d.url, set |-> d.set,
           tag |-> IF d.set["metadata"] # Unset THEN SentTag(snap[c]) ELSE NoTag]
    BY DEF UpdateParams
  <1>6. target[c] \in Endpoint => UpdateKey(c) \in Key
    BY <1>1, EndpointsAssumption DEF UpdateKey, Key, Request
  <1>. HIDE DEF d
  <1>. QED
    BY <1>1, <1>2, <1>3, <1>4, <1>5, <1>6 DEF Params

(* An update leaves an endpoint of its type in its account. *)
LEMMA UpdatedTyped ==
    ASSUME NEW s \in Content, NEW p, p.url \in Url \union {NoUrl},
           p.set \in Wanted, p.tag \in Tag
    PROVE  /\ Updated(s, p) \in Content
           /\ Updated(s, p).account = s.account
           /\ p.url = NoUrl => Updated(s, p).url = s.url
  BY EndpointsAssumption DEF Updated, Content, Wanted

(* An outcome keeps the types of the calls. *)
LEMMA FinishTyped ==
    ASSUME TypeOK, NEW c \in Call, NEW kind \in Kind,
           NEW e \in Endpoint \union {NoEndpoint}, Finish(c, kind, e)
    PROVE  /\ pc' \in [Call -> Waiting \union {"idle", "done"}]
           /\ result' \in [Call -> [kind: Kind, id: Endpoint \union {NoEndpoint}]]
  BY DEF TypeOK, Finish

(* What Stripe saves for a key is a response. *)
LEMMA SaveTyped ==
    ASSUME TypeOK, NEW k \in Key, NEW p \in Params, NEW e \in Endpoint,
           Save(k, p, e)
    PROVE  saved' \subseteq Response
  BY DEF TypeOK, Save, Response

-----------------------------------------------------------------------------
(* Type correctness *)

(* The initial state is of its types. *)
LEMMA TypeInit == Init => TypeOK
  <1>. SUFFICES ASSUME Init PROVE TypeOK
    OBVIOUS
  <1>1. Blank \in Content
    BY BlankTyped
  <1>2. (CHOOSE q \in Requests : TRUE) \in Requests
    BY EndpointsAssumption
  <1>. QED  BY <1>1, <1>2 DEF Init, TypeOK, Kind

(* Judging an endpoint keeps the types of the calls. *)
LEMMA JudgeTyped ==
    ASSUME TypeOK, NEW c \in Call, NEW e \in Endpoint, Judge(c, e)
    PROVE  /\ pc' \in [Call -> Waiting \union {"idle", "done"}]
           /\ result' \in [Call -> [kind: Kind, id: Endpoint \union {NoEndpoint}]]
           /\ target' \in [Call -> Endpoint \union {NoEndpoint}]
           /\ snap' \in [Call -> Content]
  <1>1. CASE /\ UNCHANGED judged
             /\ \/ Finish(c, "foreign", NoEndpoint)
                \/ Finish(c, "reserved", NoEndpoint)
                \/ Finish(c, "unchanged", e)
    <2>1. target' = target /\ snap' = snap
      BY <1>1 DEF judged
    <2>2. /\ pc' \in [Call -> Waiting \union {"idle", "done"}]
          /\ result' \in [Call -> [kind: Kind, id: Endpoint \union {NoEndpoint}]]
      BY <1>1, FinishTyped DEF Kind
    <2>. QED  BY <2>1, <2>2 DEF TypeOK
  <1>2. CASE /\ pc' = [pc EXCEPT ![c] = "update"]
             /\ target' = [target EXCEPT ![c] = e]
             /\ snap' = [snap EXCEPT ![c] = rec[e]]
             /\ UNCHANGED result
    BY <1>2 DEF TypeOK, Waiting
  <1>. QED  BY <1>1, <1>2 DEF Judge

(* An answer from a saved response keeps every type. *)
LEMMA ReplayTyped ==
    ASSUME TypeOK, NEW c \in Call, NEW k, NEW p, NEW kind \in Kind,
           Replay(c, k, p, kind)
    PROVE  TypeOK'
  <1>. PICK s \in SavedFor(k, p) :
             \/ s.params = p /\ Finish(c, kind, s.id)
             \/ s.params # p /\ Finish(c, "conflict", NoEndpoint)
    BY DEF Replay
  <1>1. s.id \in Endpoint
    BY DEF SavedFor, TypeOK, Response
  <1>2. /\ pc' \in [Call -> Waiting \union {"idle", "done"}]
        /\ result' \in [Call -> [kind: Kind, id: Endpoint \union {NoEndpoint}]]
    BY <1>1, FinishTyped DEF Kind
  <1>. QED  BY <1>2 DEF Replay, TypeOK, stripe, config, given, judged

(* Every step keeps every type. *)
LEMMA TypeStep == IInv /\ [Next]_vars => TypeOK'
  <1>. SUFFICES ASSUME IInv, [Next]_vars
                PROVE  TypeOK'
    OBVIOUS
  <1>0. TypeOK
    BY DEF IInv
  <1>. USE <1>0
  <1>1. ASSUME NEW c \in Call, NEW q \in Requests, Begin(c, q)
        PROVE  TypeOK'
    <2>1. q.inst \in Instance /\ GenerationOf(q.inst) \in Nat
      BY RequestTyped DEF Request, GenerationOf, TypeOK
    <2>2. First(q) \in Waiting
      BY RequestTyped DEF First, Waiting, Request
    <2>3. /\ pc' \in [Call -> Waiting \union {"idle", "done"}]
          /\ result' \in [Call -> [kind: Kind, id: Endpoint \union {NoEndpoint}]]
      BY <1>1, <2>2, FinishTyped DEF Begin, Kind, TypeOK
    <2>. QED  BY <1>1, <2>1, <2>3 DEF Begin, TypeOK, stripe, config, judged
  <1>2. ASSUME NEW c \in Call, Preflight(c)
        PROVE  TypeOK'
    <2>1. /\ pc' \in [Call -> Waiting \union {"idle", "done"}]
          /\ result' \in [Call -> [kind: Kind, id: Endpoint \union {NoEndpoint}]]
      BY <1>2, FinishTyped DEF Preflight, Kind, Waiting, TypeOK
    <2>. QED  BY <1>2, <2>1 DEF Preflight, TypeOK, stripe, config, given, judged
  <1>3. ASSUME NEW c \in Call, Fetch(c)
        PROVE  TypeOK'
    <2>1. /\ pc' \in [Call -> Waiting \union {"idle", "done"}]
          /\ result' \in [Call -> [kind: Kind, id: Endpoint \union {NoEndpoint}]]
          /\ target' \in [Call -> Endpoint \union {NoEndpoint}]
          /\ snap' \in [Call -> Content]
      BY <1>3, FinishTyped, JudgeTyped
         DEF Fetch, Matching, Visible, Kind, judged, TypeOK
    <2>. QED  BY <1>3, <2>1 DEF Fetch, TypeOK, stripe, config, given
  <1>4. ASSUME NEW c \in Call, Lookup(c)
        PROVE  TypeOK'
    <2>1. /\ pc' \in [Call -> Waiting \union {"idle", "done"}]
          /\ result' \in [Call -> [kind: Kind, id: Endpoint \union {NoEndpoint}]]
          /\ target' \in [Call -> Endpoint \union {NoEndpoint}]
          /\ snap' \in [Call -> Content]
      BY <1>4, FinishTyped, JudgeTyped
         DEF Lookup, Matching, Visible, Kind, judged, TypeOK
    <2>. QED  BY <1>4, <2>1 DEF Lookup, TypeOK, stripe, config, given
  <1>5. ASSUME NEW c \in Call, Observe(c)
        PROVE  TypeOK'
    <2>1. /\ pc' \in [Call -> Waiting \union {"idle", "done"}]
          /\ result' \in [Call -> [kind: Kind, id: Endpoint \union {NoEndpoint}]]
      BY <1>5, FinishTyped DEF Observe, Kind, Waiting, TypeOK, Visible
    <2>. QED  BY <1>5, <2>1 DEF Observe, TypeOK, stripe, config, given, judged
  <1>6. ASSUME NEW c \in Call, NEW e \in Endpoint, Create(c, e)
        PROVE  TypeOK'
    <2>. DEFINE k == CreateKey(c)
                p == CreateParams(c)
    <2>1. req[c].op = "provision"
      BY <1>6 DEF Create, IInv, CallOK
    <2>2. /\ p \in Params /\ k \in Key
          /\ [account |-> p.account, url |-> p.url, set |-> p.set,
              tag |-> p.tag] \in Content
      BY <2>1, CreateParamsTyped
    <2>3. /\ e \notin born
          /\ born' = born \union {e}
          /\ live' = live \union {e}
          /\ rec' = [rec EXCEPT ![e] = [account |-> p.account, url |-> p.url,
                                        set |-> p.set, tag |-> p.tag]]
          /\ maker' = [maker EXCEPT ![e] = c]
          /\ Save(k, p, e)
          /\ Answer(c, "provisioned", e)
          /\ UNCHANGED <<moved, acted, raced, config, given, judged>>
      BY <1>6 DEF Create
    <2>. HIDE DEF k, p
    <2>4. saved' \subseteq Response
      BY <2>2, <2>3, SaveTyped
    <2>5. /\ pc' \in [Call -> Waiting \union {"idle", "done"}]
          /\ result' \in [Call -> [kind: Kind, id: Endpoint \union {NoEndpoint}]]
      BY <2>3, FinishTyped DEF Answer, Kind, TypeOK
    <2>. QED  BY <2>2, <2>3, <2>4, <2>5 DEF TypeOK, config, given, judged
  <1>7. ASSUME NEW c \in Call, CreateReplayed(c)
        PROVE  TypeOK'
    BY <1>7, ReplayTyped DEF CreateReplayed, Kind
  <1>8. ASSUME NEW c \in Call, Update(c)
        PROVE  TypeOK'
    <2>. DEFINE k == UpdateKey(c)
                p == UpdateParams(c)
                e == target[c]
    <2>1. e \in Endpoint
      BY <1>8 DEF Update, IInv, CallOK, TypeOK
    <2>2. p \in Params /\ k \in Key
      BY <2>1, UpdateParamsTyped
    <2>3. Updated(rec[e], p) \in Content
      BY <2>1, UpdateParamsTyped, UpdatedTyped DEF TypeOK
    <2>4. /\ \/ /\ e \in live
                /\ rec' = [rec EXCEPT ![e] = Updated(rec[e], p)]
                /\ moved' = IF p.url # NoUrl THEN moved \union {e} ELSE moved
                /\ acted' = acted \union {<<c, e>>}
                /\ Save(k, p, e)
                /\ Answer(c, "updated", e)
             \/ /\ e \notin live
                /\ Finish(c, "absent", NoEndpoint)
                /\ UNCHANGED <<rec, moved, acted, saved>>
          /\ UNCHANGED <<born, live, maker, raced, config, given, judged>>
      BY <1>8 DEF Update
    <2>. HIDE DEF k, p, e
    <2>5. saved' \subseteq Response
      BY <2>1, <2>2, <2>4, SaveTyped DEF TypeOK
    <2>6. /\ pc' \in [Call -> Waiting \union {"idle", "done"}]
          /\ result' \in [Call -> [kind: Kind, id: Endpoint \union {NoEndpoint}]]
      BY <2>1, <2>4, FinishTyped DEF Answer, Kind, TypeOK
    <2>. QED  BY <2>1, <2>3, <2>4, <2>5, <2>6 DEF TypeOK, config, given, judged
  <1>9. ASSUME NEW c \in Call, UpdateReplayed(c)
        PROVE  TypeOK'
    BY <1>9, ReplayTyped DEF UpdateReplayed, Kind
  <1>10. ASSUME NEW c \in Call, Delete(c)
         PROVE  TypeOK'
    <2>1. req[c].id \in Endpoint \union {NoEndpoint}
      BY RequestTyped DEF TypeOK, Request
    <2>2. /\ pc' \in [Call -> Waiting \union {"idle", "done"}]
          /\ result' \in [Call -> [kind: Kind, id: Endpoint \union {NoEndpoint}]]
      BY <1>10, <2>1, FinishTyped DEF Delete, Answer, Kind, TypeOK
    <2>3. req[c].id \in Visible(req[c]) => req[c].id \in Endpoint
      BY DEF Visible, TypeOK
    <2>4. acted' \subseteq Call \X Endpoint
      BY <1>10, <2>3 DEF Delete, TypeOK
    <2>5. stale' \subseteq Instance
      BY <1>10, <2>3, RequestTyped DEF Delete, Mourn, TypeOK, Request
    <2>. QED  BY <1>10, <2>2, <2>4, <2>5 DEF Delete, TypeOK, given, judged
  <1>11. ASSUME NEW c \in Call, Fail(c)
         PROVE  TypeOK'
    <2>1. /\ pc' \in [Call -> Waiting \union {"idle", "done"}]
          /\ result' \in [Call -> [kind: Kind, id: Endpoint \union {NoEndpoint}]]
      BY <1>11, FinishTyped DEF Fail, Kind, Waiting, TypeOK
    <2>. QED  BY <1>11, <2>1 DEF Fail, TypeOK, stripe, config, given, judged
  <1>12. ASSUME NEW e \in Endpoint, NEW u \in Url, DashboardMove(e, u)
         PROVE  TypeOK'
    BY <1>12 DEF DashboardMove, TypeOK, Content, config, given, judged
  <1>13. ASSUME NEW e \in Endpoint, NEW u \in Url, NEW a \in Scopes, DashboardCreate(e, u, a)
         PROVE  TypeOK'
    <2>1. [Blank EXCEPT !.account = a, !.url = u] \in Content
      BY BlankTyped DEF Content
    <2>. QED  BY <1>13, <2>1 DEF DashboardCreate, TypeOK, config, given, judged
  <1>14. ASSUME NEW e \in Endpoint, NEW i \in Instance \union {Nobody},
                 NEW k \in BOOLEAN, Retag(e, i, k)
         PROVE  TypeOK'
    <2>1. [owner |-> i, connect |-> k, account |-> rec[e].account,
           generation |-> 0] \in Tag
      BY DEF TypeOK, Content, Tag
    <2>2. Handover(e, i, k) \in Tag
      BY <2>1, BlankTyped DEF Handover, Tag, NoTag, Scopes
    <2>3. rec' \in [Endpoint -> Content] /\ raced' \subseteq Endpoint
      BY <1>14, <2>2 DEF Retag, TypeOK, Content
    <2>. QED  BY <1>14, <2>3 DEF Retag, TypeOK, config, given, judged
  <1>15. ASSUME NEW e \in Endpoint, NEW f \in Field, NEW v \in Value, DashboardEdit(e, f, v)
         PROVE  TypeOK'
    BY <1>15 DEF DashboardEdit, TypeOK, Content, config, given, judged
  <1>16. ASSUME NEW e \in Endpoint, DashboardDelete(e)
         PROVE  TypeOK'
    <2>1. stale' \subseteq Instance
      BY <1>16, RequestTyped DEF DashboardDelete, Mourn, TypeOK, Request
    <2>. QED  BY <1>16, <2>1 DEF DashboardDelete, TypeOK, given, judged
  <1>17. ASSUME NEW i \in Instance, Rotate(i)
         PROVE  TypeOK'
    BY <1>17 DEF Rotate, TypeOK, stripe, given, judged
  <1>18. ASSUME NEW s \in saved, Forget(s)
         PROVE  TypeOK'
    BY <1>18 DEF Forget, TypeOK, config, given, judged
  <1>19. CASE UNCHANGED vars
    BY <1>19 DEF vars, TypeOK
  <1>. QED
    BY <1>1, <1>2, <1>3, <1>4, <1>5, <1>6, <1>7, <1>8, <1>9, <1>10,
       <1>11, <1>12, <1>13, <1>14, <1>15, <1>16, <1>17, <1>18, <1>19
       DEF Next, Step, Others

-----------------------------------------------------------------------------
(* What every step keeps *)

EndpointKept(d) ==
    d \in born =>
        /\ d \in born'
        /\ maker'[d] = maker[d]
        /\ rec'[d].account = rec[d].account
        /\ d \in raced => d \in raced'
        /\ \/ rec'[d].tag = rec[d].tag
           \/ d \in raced
           \/ \E i \in Instance \union {Nobody}, k \in BOOLEAN : Retag(d, i, k)
        /\ d \in moved => d \in moved'
        /\ d \notin moved' => rec'[d].url = rec[d].url
        /\ d \notin live => d \notin live'
        /\ (d \in live /\ d \notin live' /\ Made(d))
              => req[maker[d]].inst \in stale'

(* How an endpoint may come to exist. *)
Birth(d) ==
    d \notin born =>
        \/ d \notin born' /\ rec'[d] = rec[d] /\ maker'[d] = maker[d]
        \/ d \in born' /\ maker'[d] = maker[d]
        \/ \E c \in Call : Create(c, d)

CallKept(b) ==
    /\ pc[b] # "idle" => /\ pc'[b] # "idle"
                         /\ req'[b] = req[b]
                         /\ gen'[b] = gen[b]
                         /\ gone'[b] = gone[b]
    /\ pc[b] = "done" => pc'[b] = "done" /\ result'[b] = result[b]
    /\ pc[b] \in {"update", "done"} => /\ pc'[b] \in {"update", "done"}
                                       /\ target'[b] = target[b]
                                       /\ snap'[b] = snap[b]
    /\ pc[b] = "idle" => \/ pc'[b] = "idle" /\ gone'[b] = gone[b]
                         \/ \E q \in Requests : Begin(b, q)
    /\ result'[b] # result[b] => pc'[b] = "done"

(* How a call comes to where it writes. *)
Entry(b) ==
    /\ pc'[b] \in {"preflight", "create"} => req'[b].op = "provision"
    /\ pc'[b] = "delete" => req'[b].op = "destroy"
    /\ pc'[b] \in {"fetch", "lookup", "update"} => req'[b].op = "ensure"
    /\ pc'[b] = "create" => pc[b] = "create" \/ Preflight(b)
    /\ pc'[b] = "update" =>
          \/ pc[b] = "update"
          \/ /\ target'[b] \in Visible(req[b])
             /\ snap'[b] = rec[target'[b]]
             /\ Proven(req[b], snap'[b])
             /\ req' = req /\ rec' = rec /\ born' = born

(* How a call may get the results the properties speak of. *)
Outcome(b) ==
    \/ result'[b] = result[b]
    \/ result'[b].kind \notin {"none", "provisioned", "updated", "conflict"}
    \/ \E e \in Endpoint : Create(b, e) /\ result'[b].id = e
                                        /\ result'[b].kind = "provisioned"
    \/ Update(b) /\ <<b, target[b]>> \in acted'
                 /\ result'[b] = [kind |-> "updated", id |-> target[b]]
    \/ CreateReplayed(b)
    \/ UpdateReplayed(b)

(* How a call comes to act on an endpoint. *)
Act(b, d) ==
    <<b, d>> \in acted' =>
        \/ <<b, d>> \in acted
        \/ Update(b) /\ d = target[b]
        \/ Delete(b) /\ d \in Visible(req[b])

HistoryKept ==
    /\ acted \subseteq acted'
    /\ \A i \in stale : i \in stale' \/ generation'[i] # generation[i]
    /\ \A i \in Instance : generation[i] <= generation'[i]
    /\ \A s \in saved : s \in saved' \/ \A b \in s.during : pc[b] = "done"

(* What a step may change of an endpoint, and that only an update or the dashboard may. *)
LEMMA EndpointsKept ==
    ASSUME IInv, [Next]_vars, NEW d \in Endpoint
    PROVE  EndpointKept(d)
  <1>0. TypeOK
    BY DEF IInv
  <1>. USE <1>0
  <1>1. ASSUME NEW c \in Call, NEW q \in Requests, Begin(c, q)
        PROVE  EndpointKept(d)
    BY <1>1 DEF Begin, EndpointKept, stripe, config, Replay
  <1>2. ASSUME NEW c \in Call, Preflight(c)
        PROVE  EndpointKept(d)
    BY <1>2 DEF Preflight, EndpointKept, stripe, config, Replay
  <1>3. ASSUME NEW c \in Call, Fetch(c)
        PROVE  EndpointKept(d)
    BY <1>3 DEF Fetch, EndpointKept, stripe, config, Replay
  <1>4. ASSUME NEW c \in Call, Lookup(c)
        PROVE  EndpointKept(d)
    BY <1>4 DEF Lookup, EndpointKept, stripe, config, Replay
  <1>5. ASSUME NEW c \in Call, Observe(c)
        PROVE  EndpointKept(d)
    BY <1>5 DEF Observe, EndpointKept, stripe, config, Replay
  <1>6. ASSUME NEW c \in Call, NEW e \in Endpoint, Create(c, e)
        PROVE  EndpointKept(d)
    <2>1. /\ e \notin born
          /\ born' = born \union {e} /\ live' = live \union {e}
          /\ \A x \in Endpoint : x # e => rec'[x] = rec[x] /\ maker'[x] = maker[x]
          /\ moved' = moved /\ raced' = raced
      BY <1>6 DEF Create, TypeOK
    <2>. QED  BY <2>1 DEF EndpointKept
  <1>7. ASSUME NEW c \in Call, CreateReplayed(c)
        PROVE  EndpointKept(d)
    BY <1>7 DEF CreateReplayed, EndpointKept, stripe, config, Replay
  <1>8. ASSUME NEW c \in Call, Update(c)
        PROVE  EndpointKept(d)
    <2>1. pc[c] = "update" =>
             /\ target[c] \in Endpoint
             /\ target[c] \notin raced => snap[c].tag = rec[target[c]].tag
      BY DEF IInv, CallOK, TypeOK
    <2>2. /\ born' = born /\ live' = live /\ maker' = maker /\ pc[c] = "update"
          /\ raced' = raced
          /\ \/ rec' = rec /\ moved' = moved
             \/ /\ rec' = [rec EXCEPT ![target[c]] =
                              Updated(rec[target[c]], UpdateParams(c))]
                /\ moved' = IF UpdateParams(c).url # NoUrl
                            THEN moved \union {target[c]} ELSE moved
      BY <1>8 DEF Update
    <2>3. ASSUME NEW s \in Content, s.tag = snap[c].tag
          PROVE  Updated(s, UpdateParams(c)).tag = s.tag
      BY <2>3 DEF Updated, UpdateParams, SentTag
    <2>4. ASSUME NEW s \in Content
          PROVE  /\ Updated(s, UpdateParams(c)).account = s.account
                 /\ UpdateParams(c).url = NoUrl
                       => Updated(s, UpdateParams(c)).url = s.url
      BY DEF Updated
    <2>5. rec[target[c]] \in Content /\ rec \in [Endpoint -> Content]
      BY <2>1, <2>2 DEF TypeOK
    <2>. QED  BY <2>1, <2>2, <2>3, <2>4, <2>5 DEF EndpointKept
  <1>9. ASSUME NEW c \in Call, UpdateReplayed(c)
        PROVE  EndpointKept(d)
    BY <1>9 DEF UpdateReplayed, EndpointKept, stripe, config, Replay
  <1>10. ASSUME NEW c \in Call, Delete(c)
         PROVE  EndpointKept(d)
    BY <1>10 DEF Delete, Mourn, Made, EndpointKept
  <1>11. ASSUME NEW c \in Call, Fail(c)
         PROVE  EndpointKept(d)
    BY <1>11 DEF Fail, EndpointKept, stripe, config, Replay
  <1>12. ASSUME NEW e \in Endpoint, NEW u \in Url, DashboardMove(e, u)
         PROVE  EndpointKept(d)
    BY <1>12 DEF DashboardMove, EndpointKept, TypeOK, Content
  <1>13. ASSUME NEW e \in Endpoint, NEW u \in Url, NEW a \in Scopes, DashboardCreate(e, u, a)
         PROVE  EndpointKept(d)
    BY <1>13 DEF DashboardCreate, EndpointKept, TypeOK
  <1>14. ASSUME NEW e \in Endpoint, NEW i \in Instance \union {Nobody},
                 NEW k \in BOOLEAN, Retag(e, i, k)
         PROVE  EndpointKept(d)
    <2>1. /\ d # e => rec'[d] = rec[d]
          /\ rec'[d].account = rec[d].account /\ rec'[d].url = rec[d].url
      BY <1>14 DEF Retag, TypeOK, Content
    <2>2. /\ born' = born /\ live' = live /\ maker' = maker /\ moved' = moved
          /\ raced \subseteq raced'
      BY <1>14 DEF Retag
    <2>. QED  BY <1>14, <2>1, <2>2 DEF EndpointKept
  <1>15. ASSUME NEW e \in Endpoint, NEW f \in Field, NEW v \in Value, DashboardEdit(e, f, v)
         PROVE  EndpointKept(d)
    BY <1>15 DEF DashboardEdit, EndpointKept, TypeOK, Content
  <1>16. ASSUME NEW e \in Endpoint, DashboardDelete(e)
         PROVE  EndpointKept(d)
    BY <1>16 DEF DashboardDelete, Mourn, Made, EndpointKept
  <1>17. ASSUME NEW i \in Instance, Rotate(i)
         PROVE  EndpointKept(d)
    BY <1>17 DEF Rotate, EndpointKept, stripe
  <1>18. ASSUME NEW s \in saved, Forget(s)
         PROVE  EndpointKept(d)
    BY <1>18 DEF Forget, EndpointKept, stripe
  <1>19. CASE UNCHANGED vars
    BY <1>19 DEF vars, EndpointKept, stripe
  <1>. QED
    BY <1>1, <1>2, <1>3, <1>4, <1>5, <1>6, <1>7, <1>8, <1>9, <1>10,
       <1>11, <1>12, <1>13, <1>14, <1>15, <1>16, <1>17, <1>18, <1>19
       DEF Next, Step, Others

(* Whatever is born in a step was created by a call or at the dashboard. *)
LEMMA Births ==
    ASSUME IInv, [Next]_vars, NEW d \in Endpoint
    PROVE  Birth(d)
  <1>0. TypeOK
    BY DEF IInv
  <1>. USE <1>0
  <1>1. ASSUME NEW c \in Call, NEW q \in Requests, Begin(c, q)
        PROVE  Birth(d)
    BY <1>1 DEF Begin, Birth, stripe
  <1>2. ASSUME NEW c \in Call, Preflight(c)
        PROVE  Birth(d)
    BY <1>2 DEF Preflight, Birth, stripe
  <1>3. ASSUME NEW c \in Call, Fetch(c)
        PROVE  Birth(d)
    BY <1>3 DEF Fetch, Birth, stripe
  <1>4. ASSUME NEW c \in Call, Lookup(c)
        PROVE  Birth(d)
    BY <1>4 DEF Lookup, Birth, stripe
  <1>5. ASSUME NEW c \in Call, Observe(c)
        PROVE  Birth(d)
    BY <1>5 DEF Observe, Birth, stripe
  <1>6. ASSUME NEW c \in Call, NEW e \in Endpoint, Create(c, e)
        PROVE  Birth(d)
    <2>1. CASE d = e
      BY <1>6, <2>1 DEF Birth
    <2>2. CASE d # e
      BY <1>6, <2>2 DEF Create, Birth, TypeOK
    <2>. QED  BY <2>1, <2>2
  <1>7. ASSUME NEW c \in Call, CreateReplayed(c)
        PROVE  Birth(d)
    BY <1>7 DEF CreateReplayed, Replay, Birth, stripe
  <1>8. ASSUME NEW c \in Call, Update(c)
        PROVE  Birth(d)
    <2>1. pc[c] = "update" => target[c] \in born
      BY DEF IInv, CallOK
    <2>. QED  BY <1>8, <2>1 DEF Update, Birth, TypeOK
  <1>9. ASSUME NEW c \in Call, UpdateReplayed(c)
        PROVE  Birth(d)
    BY <1>9 DEF UpdateReplayed, Replay, Birth, stripe
  <1>10. ASSUME NEW c \in Call, Delete(c)
         PROVE  Birth(d)
    BY <1>10 DEF Delete, Birth, stripe
  <1>11. ASSUME NEW c \in Call, Fail(c)
         PROVE  Birth(d)
    BY <1>11 DEF Fail, Birth, stripe
  <1>12. ASSUME NEW e \in Endpoint, NEW u \in Url, DashboardMove(e, u)
         PROVE  Birth(d)
    BY <1>12 DEF DashboardMove, Birth, TypeOK
  <1>13. ASSUME NEW e \in Endpoint, NEW u \in Url, NEW a \in Scopes, DashboardCreate(e, u, a)
         PROVE  Birth(d)
    BY <1>13 DEF DashboardCreate, Birth, TypeOK
  <1>14. ASSUME NEW e \in Endpoint, NEW i \in Instance \union {Nobody},
                 NEW k \in BOOLEAN, Retag(e, i, k)
         PROVE  Birth(d)
    BY <1>14 DEF Retag, Birth, TypeOK
  <1>15. ASSUME NEW e \in Endpoint, NEW f \in Field, NEW v \in Value, DashboardEdit(e, f, v)
         PROVE  Birth(d)
    BY <1>15 DEF DashboardEdit, Birth, TypeOK
  <1>16. ASSUME NEW e \in Endpoint, DashboardDelete(e)
         PROVE  Birth(d)
    BY <1>16 DEF DashboardDelete, Birth, stripe
  <1>17. ASSUME NEW i \in Instance, Rotate(i)
         PROVE  Birth(d)
    BY <1>17 DEF Rotate, Birth, stripe
  <1>18. ASSUME NEW s \in saved, Forget(s)
         PROVE  Birth(d)
    BY <1>18 DEF Forget, Birth, stripe
  <1>19. CASE UNCHANGED vars
    BY <1>19 DEF vars, Birth
  <1>. QED
    BY <1>1, <1>2, <1>3, <1>4, <1>5, <1>6, <1>7, <1>8, <1>9, <1>10,
       <1>11, <1>12, <1>13, <1>14, <1>15, <1>16, <1>17, <1>18, <1>19
       DEF Next, Step, Others

(* What a step may change of a call that is under way. *)
LEMMA CallsKept ==
    ASSUME IInv, [Next]_vars, NEW b \in Call
    PROVE  CallKept(b)
  <1>0. TypeOK
    BY DEF IInv
  <1>. USE <1>0
  <1>1. ASSUME NEW c \in Call, NEW q \in Requests, Begin(c, q)
        PROVE  CallKept(b)
    BY <1>1, RequestTyped DEF Begin, CallKept, Finish, TypeOK, judged, First, Request
  <1>2. ASSUME NEW c \in Call, Preflight(c)
        PROVE  CallKept(b)
    BY <1>2 DEF Preflight, CallKept, Finish, Waiting, TypeOK, given, judged
  <1>3. ASSUME NEW c \in Call, Fetch(c)
        PROVE  CallKept(b)
    BY <1>3 DEF Fetch, Judge, CallKept, Finish, TypeOK, given, judged
  <1>4. ASSUME NEW c \in Call, Lookup(c)
        PROVE  CallKept(b)
    BY <1>4 DEF Lookup, Judge, CallKept, Finish, TypeOK, given, judged
  <1>5. ASSUME NEW c \in Call, Observe(c)
        PROVE  CallKept(b)
    BY <1>5 DEF Observe, CallKept, Finish, Waiting, TypeOK, given, judged
  <1>6. ASSUME NEW c \in Call, NEW e \in Endpoint, Create(c, e)
        PROVE  CallKept(b)
    BY <1>6 DEF Create, CallKept, Finish, Answer, TypeOK, given, judged
  <1>7. ASSUME NEW c \in Call, CreateReplayed(c)
        PROVE  CallKept(b)
    BY <1>7 DEF CreateReplayed, CallKept, Finish, Replay, TypeOK, given, judged
  <1>8. ASSUME NEW c \in Call, Update(c)
        PROVE  CallKept(b)
    BY <1>8 DEF Update, CallKept, Finish, Answer, TypeOK, given, judged
  <1>9. ASSUME NEW c \in Call, UpdateReplayed(c)
        PROVE  CallKept(b)
    BY <1>9 DEF UpdateReplayed, CallKept, Finish, Replay, TypeOK, given, judged
  <1>10. ASSUME NEW c \in Call, Delete(c)
         PROVE  CallKept(b)
    BY <1>10 DEF Delete, CallKept, Finish, Answer, TypeOK, given, judged
  <1>11. ASSUME NEW c \in Call, Fail(c)
         PROVE  CallKept(b)
    BY <1>11 DEF Fail, CallKept, Finish, Waiting, TypeOK, given, judged
  <1>12. ASSUME NEW e \in Endpoint, NEW u \in Url, DashboardMove(e, u)
         PROVE  CallKept(b)
    BY <1>12 DEF DashboardMove, CallKept, given, judged
  <1>13. ASSUME NEW e \in Endpoint, NEW u \in Url, NEW a \in Scopes, DashboardCreate(e, u, a)
         PROVE  CallKept(b)
    BY <1>13 DEF DashboardCreate, CallKept, given, judged
  <1>14. ASSUME NEW e \in Endpoint, NEW i \in Instance \union {Nobody},
                 NEW k \in BOOLEAN, Retag(e, i, k)
         PROVE  CallKept(b)
    BY <1>14 DEF Retag, CallKept, given, judged
  <1>15. ASSUME NEW e \in Endpoint, NEW f \in Field, NEW v \in Value, DashboardEdit(e, f, v)
         PROVE  CallKept(b)
    BY <1>15 DEF DashboardEdit, CallKept, given, judged
  <1>16. ASSUME NEW e \in Endpoint, DashboardDelete(e)
         PROVE  CallKept(b)
    BY <1>16 DEF DashboardDelete, CallKept, given, judged
  <1>17. ASSUME NEW i \in Instance, Rotate(i)
         PROVE  CallKept(b)
    BY <1>17 DEF Rotate, CallKept, given, judged
  <1>18. ASSUME NEW s \in saved, Forget(s)
         PROVE  CallKept(b)
    BY <1>18 DEF Forget, CallKept, given, judged
  <1>19. CASE UNCHANGED vars
    BY <1>19 DEF vars, CallKept
  <1>. QED
    BY <1>1, <1>2, <1>3, <1>4, <1>5, <1>6, <1>7, <1>8, <1>9, <1>10,
       <1>11, <1>12, <1>13, <1>14, <1>15, <1>16, <1>17, <1>18, <1>19
       DEF Next, Step, Others

(* How a call comes to each place where it waits. *)
LEMMA Entries ==
    ASSUME IInv, [Next]_vars, NEW b \in Call
    PROVE  Entry(b)
  <1>0. TypeOK /\ CallOK(b)
    BY DEF IInv
  <1>. USE <1>0
  <1>1. ASSUME NEW c \in Call, NEW q \in Requests, Begin(c, q)
        PROVE  Entry(b)
    BY <1>1, RequestTyped DEF Begin, Entry, CallOK, Finish, TypeOK, judged, First, Request
  <1>2. ASSUME NEW c \in Call, Preflight(c)
        PROVE  Entry(b)
    BY <1>2 DEF Preflight, Entry, CallOK, Finish, TypeOK, given
  <1>3. ASSUME NEW c \in Call, Fetch(c)
        PROVE  Entry(b)
    BY <1>3 DEF Fetch, Judge, Entry, CallOK, Matching, Visible, Finish, TypeOK, stripe, given, judged
  <1>4. ASSUME NEW c \in Call, Lookup(c)
        PROVE  Entry(b)
    BY <1>4 DEF Lookup, Judge, Entry, CallOK, Matching, Visible, Finish, TypeOK, stripe, given, judged
  <1>5. ASSUME NEW c \in Call, Observe(c)
        PROVE  Entry(b)
    BY <1>5 DEF Observe, Entry, CallOK, Finish, TypeOK, given
  <1>6. ASSUME NEW c \in Call, NEW e \in Endpoint, Create(c, e)
        PROVE  Entry(b)
    BY <1>6 DEF Create, Entry, CallOK, Finish, Answer, TypeOK, given
  <1>7. ASSUME NEW c \in Call, CreateReplayed(c)
        PROVE  Entry(b)
    BY <1>7 DEF CreateReplayed, Entry, CallOK, Finish, Replay, TypeOK, given
  <1>8. ASSUME NEW c \in Call, Update(c)
        PROVE  Entry(b)
    BY <1>8 DEF Update, Entry, CallOK, Finish, Answer, TypeOK, given
  <1>9. ASSUME NEW c \in Call, UpdateReplayed(c)
        PROVE  Entry(b)
    BY <1>9 DEF UpdateReplayed, Entry, CallOK, Finish, Replay, TypeOK, given
  <1>10. ASSUME NEW c \in Call, Delete(c)
         PROVE  Entry(b)
    BY <1>10 DEF Delete, Entry, CallOK, Finish, Answer, TypeOK, given
  <1>11. ASSUME NEW c \in Call, Fail(c)
         PROVE  Entry(b)
    BY <1>11 DEF Fail, Entry, CallOK, Finish, TypeOK, given
  <1>12. ASSUME NEW e \in Endpoint, NEW u \in Url, DashboardMove(e, u)
         PROVE  Entry(b)
    BY <1>12 DEF DashboardMove, Entry, CallOK, given
  <1>13. ASSUME NEW e \in Endpoint, NEW u \in Url, NEW a \in Scopes, DashboardCreate(e, u, a)
         PROVE  Entry(b)
    BY <1>13 DEF DashboardCreate, Entry, CallOK, given
  <1>14. ASSUME NEW e \in Endpoint, NEW i \in Instance \union {Nobody},
                 NEW k \in BOOLEAN, Retag(e, i, k)
         PROVE  Entry(b)
    BY <1>14 DEF Retag, Entry, CallOK, given
  <1>15. ASSUME NEW e \in Endpoint, NEW f \in Field, NEW v \in Value, DashboardEdit(e, f, v)
         PROVE  Entry(b)
    BY <1>15 DEF DashboardEdit, Entry, CallOK, given
  <1>16. ASSUME NEW e \in Endpoint, DashboardDelete(e)
         PROVE  Entry(b)
    BY <1>16 DEF DashboardDelete, Entry, CallOK, given
  <1>17. ASSUME NEW i \in Instance, Rotate(i)
         PROVE  Entry(b)
    BY <1>17 DEF Rotate, Entry, CallOK, given
  <1>18. ASSUME NEW s \in saved, Forget(s)
         PROVE  Entry(b)
    BY <1>18 DEF Forget, Entry, CallOK, given
  <1>19. CASE UNCHANGED vars
    BY <1>19 DEF vars, Entry, CallOK, given
  <1>. QED
    BY <1>1, <1>2, <1>3, <1>4, <1>5, <1>6, <1>7, <1>8, <1>9, <1>10,
       <1>11, <1>12, <1>13, <1>14, <1>15, <1>16, <1>17, <1>18, <1>19
       DEF Next, Step, Others

(* How a call comes to have acted on an endpoint. *)
LEMMA Acts ==
    ASSUME IInv, [Next]_vars, NEW b \in Call, NEW d \in Endpoint
    PROVE  Act(b, d)
  <1>1. ASSUME NEW c \in Call, NEW q \in Requests, Begin(c, q)
        PROVE  Act(b, d)
    BY <1>1 DEF Begin, Act, stripe
  <1>2. ASSUME NEW c \in Call, Preflight(c)
        PROVE  Act(b, d)
    BY <1>2 DEF Preflight, Act, stripe
  <1>3. ASSUME NEW c \in Call, Fetch(c)
        PROVE  Act(b, d)
    BY <1>3 DEF Fetch, Act, stripe
  <1>4. ASSUME NEW c \in Call, Lookup(c)
        PROVE  Act(b, d)
    BY <1>4 DEF Lookup, Act, stripe
  <1>5. ASSUME NEW c \in Call, Observe(c)
        PROVE  Act(b, d)
    BY <1>5 DEF Observe, Act, stripe
  <1>6. ASSUME NEW c \in Call, NEW e \in Endpoint, Create(c, e)
        PROVE  Act(b, d)
    BY <1>6 DEF Create, Act, stripe
  <1>7. ASSUME NEW c \in Call, CreateReplayed(c)
        PROVE  Act(b, d)
    BY <1>7 DEF CreateReplayed, Replay, Act, stripe
  <1>8. ASSUME NEW c \in Call, Update(c)
        PROVE  Act(b, d)
    BY <1>8 DEF Update, Act
  <1>9. ASSUME NEW c \in Call, UpdateReplayed(c)
        PROVE  Act(b, d)
    BY <1>9 DEF UpdateReplayed, Replay, Act, stripe
  <1>10. ASSUME NEW c \in Call, Delete(c)
         PROVE  Act(b, d)
    BY <1>10 DEF Delete, Act
  <1>11. ASSUME NEW c \in Call, Fail(c)
         PROVE  Act(b, d)
    BY <1>11 DEF Fail, Act, stripe
  <1>12. ASSUME NEW e \in Endpoint, NEW u \in Url, DashboardMove(e, u)
         PROVE  Act(b, d)
    BY <1>12 DEF DashboardMove, Act, stripe
  <1>13. ASSUME NEW e \in Endpoint, NEW u \in Url, NEW a \in Scopes, DashboardCreate(e, u, a)
         PROVE  Act(b, d)
    BY <1>13 DEF DashboardCreate, Act, stripe
  <1>14. ASSUME NEW e \in Endpoint, NEW i \in Instance \union {Nobody},
                 NEW k \in BOOLEAN, Retag(e, i, k)
         PROVE  Act(b, d)
    BY <1>14 DEF Retag, Act, stripe
  <1>15. ASSUME NEW e \in Endpoint, NEW f \in Field, NEW v \in Value, DashboardEdit(e, f, v)
         PROVE  Act(b, d)
    BY <1>15 DEF DashboardEdit, Act, stripe
  <1>16. ASSUME NEW e \in Endpoint, DashboardDelete(e)
         PROVE  Act(b, d)
    BY <1>16 DEF DashboardDelete, Act, stripe
  <1>17. ASSUME NEW i \in Instance, Rotate(i)
         PROVE  Act(b, d)
    BY <1>17 DEF Rotate, Act, stripe
  <1>18. ASSUME NEW s \in saved, Forget(s)
         PROVE  Act(b, d)
    BY <1>18 DEF Forget, Act, stripe
  <1>19. CASE UNCHANGED vars
    BY <1>19 DEF vars, Act
  <1>. QED
    BY <1>1, <1>2, <1>3, <1>4, <1>5, <1>6, <1>7, <1>8, <1>9, <1>10,
       <1>11, <1>12, <1>13, <1>14, <1>15, <1>16, <1>17, <1>18, <1>19
       DEF Next, Step, Others

(* How a call comes to each outcome. *)
LEMMA Outcomes ==
    ASSUME IInv, [Next]_vars, NEW b \in Call
    PROVE  Outcome(b)
  <1>0. TypeOK
    BY DEF IInv
  <1>. USE <1>0
  <1>1. ASSUME NEW c \in Call, NEW q \in Requests, Begin(c, q)
        PROVE  Outcome(b)
    BY <1>1 DEF Begin, Outcome, Finish, TypeOK
  <1>2. ASSUME NEW c \in Call, Preflight(c)
        PROVE  Outcome(b)
    BY <1>2 DEF Preflight, Outcome, Finish, TypeOK
  <1>3. ASSUME NEW c \in Call, Fetch(c)
        PROVE  Outcome(b)
    BY <1>3 DEF Fetch, Judge, Outcome, Finish, TypeOK
  <1>4. ASSUME NEW c \in Call, Lookup(c)
        PROVE  Outcome(b)
    BY <1>4 DEF Lookup, Judge, Outcome, Finish, TypeOK
  <1>5. ASSUME NEW c \in Call, Observe(c)
        PROVE  Outcome(b)
    BY <1>5 DEF Observe, Outcome, Finish, TypeOK
  <1>6. ASSUME NEW c \in Call, NEW e \in Endpoint, Create(c, e)
        PROVE  Outcome(b)
    <2>1. CASE result' = result
      BY <2>1 DEF Outcome
    <2>2. CASE result' = [result EXCEPT ![c] = [kind |-> "provisioned", id |-> e]]
      <3>1. CASE b = c
        BY <1>6, <2>2, <3>1 DEF Outcome, TypeOK
      <3>2. CASE b # c
        BY <2>2, <3>2 DEF Outcome, TypeOK
      <3>. QED  BY <3>1, <3>2
    <2>. QED  BY <1>6, <2>1, <2>2 DEF Create, Answer, Finish
  <1>7. ASSUME NEW c \in Call, CreateReplayed(c)
        PROVE  Outcome(b)
    <2>1. CASE b = c
      BY <1>7, <2>1 DEF Outcome
    <2>2. CASE b # c
      BY <1>7, <2>2 DEF CreateReplayed, Replay, Outcome, Finish, TypeOK
    <2>. QED  BY <2>1, <2>2
  <1>8. ASSUME NEW c \in Call, Update(c)
        PROVE  Outcome(b)
    <2>1. CASE result' = result
      BY <2>1 DEF Outcome
    <2>2. CASE /\ result' = [result EXCEPT ![c] = [kind |-> "updated", id |-> target[c]]]
               /\ <<c, target[c]>> \in acted'
      <3>1. CASE b = c
        BY <1>8, <2>2, <3>1 DEF Outcome, TypeOK
      <3>2. CASE b # c
        BY <2>2, <3>2 DEF Outcome, TypeOK
      <3>. QED  BY <3>1, <3>2
    <2>3. CASE result' = [result EXCEPT ![c] = [kind |-> "absent", id |-> NoEndpoint]]
      BY <2>3 DEF Outcome, TypeOK
    <2>. QED  BY <1>8, <2>1, <2>2, <2>3 DEF Update, Answer, Finish
  <1>9. ASSUME NEW c \in Call, UpdateReplayed(c)
        PROVE  Outcome(b)
    <2>1. CASE b = c
      BY <1>9, <2>1 DEF Outcome
    <2>2. CASE b # c
      BY <1>9, <2>2 DEF UpdateReplayed, Replay, Outcome, Finish, TypeOK
    <2>. QED  BY <2>1, <2>2
  <1>10. ASSUME NEW c \in Call, Delete(c)
         PROVE  Outcome(b)
    BY <1>10 DEF Delete, Outcome, Finish, Answer, TypeOK
  <1>11. ASSUME NEW c \in Call, Fail(c)
         PROVE  Outcome(b)
    BY <1>11 DEF Fail, Outcome, Finish, TypeOK
  <1>12. ASSUME NEW e \in Endpoint, NEW u \in Url, DashboardMove(e, u)
         PROVE  Outcome(b)
    BY <1>12 DEF DashboardMove, Outcome
  <1>13. ASSUME NEW e \in Endpoint, NEW u \in Url, NEW a \in Scopes, DashboardCreate(e, u, a)
         PROVE  Outcome(b)
    BY <1>13 DEF DashboardCreate, Outcome
  <1>14. ASSUME NEW e \in Endpoint, NEW i \in Instance \union {Nobody},
                 NEW k \in BOOLEAN, Retag(e, i, k)
         PROVE  Outcome(b)
    BY <1>14 DEF Retag, Outcome
  <1>15. ASSUME NEW e \in Endpoint, NEW f \in Field, NEW v \in Value, DashboardEdit(e, f, v)
         PROVE  Outcome(b)
    BY <1>15 DEF DashboardEdit, Outcome
  <1>16. ASSUME NEW e \in Endpoint, DashboardDelete(e)
         PROVE  Outcome(b)
    BY <1>16 DEF DashboardDelete, Outcome
  <1>17. ASSUME NEW i \in Instance, Rotate(i)
         PROVE  Outcome(b)
    BY <1>17 DEF Rotate, Outcome
  <1>18. ASSUME NEW s \in saved, Forget(s)
         PROVE  Outcome(b)
    BY <1>18 DEF Forget, Outcome
  <1>19. CASE UNCHANGED vars
    BY <1>19 DEF vars, Outcome
  <1>. QED
    BY <1>1, <1>2, <1>3, <1>4, <1>5, <1>6, <1>7, <1>8, <1>9, <1>10,
       <1>11, <1>12, <1>13, <1>14, <1>15, <1>16, <1>17, <1>18, <1>19
       DEF Next, Step, Others

(* Histories only grow, and saved responses outlive the calls they are kept for. *)
LEMMA HistoriesKept ==
    ASSUME IInv, [Next]_vars
    PROVE  HistoryKept
  <1>0. TypeOK
    BY DEF IInv
  <1>. USE <1>0
  <1>1. ASSUME NEW c \in Call, NEW q \in Requests, Begin(c, q)
        PROVE  HistoryKept
    BY <1>1 DEF Begin, HistoryKept, TypeOK, stripe, config
  <1>2. ASSUME NEW c \in Call, Preflight(c)
        PROVE  HistoryKept
    BY <1>2 DEF Preflight, HistoryKept, TypeOK, stripe, config
  <1>3. ASSUME NEW c \in Call, Fetch(c)
        PROVE  HistoryKept
    BY <1>3 DEF Fetch, HistoryKept, TypeOK, stripe, config
  <1>4. ASSUME NEW c \in Call, Lookup(c)
        PROVE  HistoryKept
    BY <1>4 DEF Lookup, HistoryKept, TypeOK, stripe, config
  <1>5. ASSUME NEW c \in Call, Observe(c)
        PROVE  HistoryKept
    BY <1>5 DEF Observe, HistoryKept, TypeOK, stripe, config
  <1>6. ASSUME NEW c \in Call, NEW e \in Endpoint, Create(c, e)
        PROVE  HistoryKept
    BY <1>6 DEF Create, HistoryKept, Save, TypeOK, config
  <1>7. ASSUME NEW c \in Call, CreateReplayed(c)
        PROVE  HistoryKept
    BY <1>7 DEF CreateReplayed, HistoryKept, Replay, TypeOK, stripe, config
  <1>8. ASSUME NEW c \in Call, Update(c)
        PROVE  HistoryKept
    BY <1>8 DEF Update, HistoryKept, Save, TypeOK, config
  <1>9. ASSUME NEW c \in Call, UpdateReplayed(c)
        PROVE  HistoryKept
    BY <1>9 DEF UpdateReplayed, HistoryKept, Replay, TypeOK, stripe, config
  <1>10. ASSUME NEW c \in Call, Delete(c)
         PROVE  HistoryKept
    BY <1>10 DEF Delete, Mourn, HistoryKept, TypeOK
  <1>11. ASSUME NEW c \in Call, Fail(c)
         PROVE  HistoryKept
    BY <1>11 DEF Fail, HistoryKept, TypeOK, stripe, config
  <1>12. ASSUME NEW e \in Endpoint, NEW u \in Url, DashboardMove(e, u)
         PROVE  HistoryKept
    BY <1>12 DEF DashboardMove, HistoryKept, TypeOK, stripe, config
  <1>13. ASSUME NEW e \in Endpoint, NEW u \in Url, NEW a \in Scopes, DashboardCreate(e, u, a)
         PROVE  HistoryKept
    BY <1>13 DEF DashboardCreate, HistoryKept, TypeOK, stripe, config
  <1>14. ASSUME NEW e \in Endpoint, NEW i \in Instance \union {Nobody},
                 NEW k \in BOOLEAN, Retag(e, i, k)
         PROVE  HistoryKept
    BY <1>14 DEF Retag, HistoryKept, TypeOK, stripe, config
  <1>15. ASSUME NEW e \in Endpoint, NEW f \in Field, NEW v \in Value, DashboardEdit(e, f, v)
         PROVE  HistoryKept
    BY <1>15 DEF DashboardEdit, HistoryKept, TypeOK, stripe, config
  <1>16. ASSUME NEW e \in Endpoint, DashboardDelete(e)
         PROVE  HistoryKept
    BY <1>16 DEF DashboardDelete, Mourn, HistoryKept, TypeOK
  <1>17. ASSUME NEW i \in Instance, Rotate(i)
         PROVE  HistoryKept
    BY <1>17 DEF Rotate, HistoryKept, TypeOK, stripe
  <1>18. ASSUME NEW s \in saved, Forget(s)
         PROVE  HistoryKept
    BY <1>18 DEF Forget, HistoryKept, TypeOK, config
  <1>19. CASE UNCHANGED vars
    BY <1>19 DEF vars, HistoryKept, TypeOK
  <1>. QED
    BY <1>1, <1>2, <1>3, <1>4, <1>5, <1>6, <1>7, <1>8, <1>9, <1>10,
       <1>11, <1>12, <1>13, <1>14, <1>15, <1>16, <1>17, <1>18, <1>19
       DEF Next, Step, Others

(* Whatever is saved in a step was saved by an update or a creation. *)
LEMMA Savers ==
    ASSUME IInv, [Next]_vars, NEW s \in saved', s \notin saved
    PROVE  \E b \in Call : Update(b) \/ \E d \in Endpoint : Create(b, d)
  <1>1. ASSUME NEW c \in Call, NEW q \in Requests, Begin(c, q)
        PROVE  \E b \in Call : Update(b) \/ \E d \in Endpoint : Create(b, d)
    BY <1>1 DEF Begin, stripe
  <1>2. ASSUME NEW c \in Call, Preflight(c)
        PROVE  \E b \in Call : Update(b) \/ \E d \in Endpoint : Create(b, d)
    BY <1>2 DEF Preflight, stripe
  <1>3. ASSUME NEW c \in Call, Fetch(c)
        PROVE  \E b \in Call : Update(b) \/ \E d \in Endpoint : Create(b, d)
    BY <1>3 DEF Fetch, stripe
  <1>4. ASSUME NEW c \in Call, Lookup(c)
        PROVE  \E b \in Call : Update(b) \/ \E d \in Endpoint : Create(b, d)
    BY <1>4 DEF Lookup, stripe
  <1>5. ASSUME NEW c \in Call, Observe(c)
        PROVE  \E b \in Call : Update(b) \/ \E d \in Endpoint : Create(b, d)
    BY <1>5 DEF Observe, stripe
  <1>6. ASSUME NEW c \in Call, NEW e \in Endpoint, Create(c, e)
        PROVE  \E b \in Call : Update(b) \/ \E d \in Endpoint : Create(b, d)
    BY <1>6
  <1>7. ASSUME NEW c \in Call, CreateReplayed(c)
        PROVE  \E b \in Call : Update(b) \/ \E d \in Endpoint : Create(b, d)
    BY <1>7 DEF CreateReplayed, Replay, stripe
  <1>8. ASSUME NEW c \in Call, Update(c)
        PROVE  \E b \in Call : Update(b) \/ \E d \in Endpoint : Create(b, d)
    BY <1>8
  <1>9. ASSUME NEW c \in Call, UpdateReplayed(c)
        PROVE  \E b \in Call : Update(b) \/ \E d \in Endpoint : Create(b, d)
    BY <1>9 DEF UpdateReplayed, Replay, stripe
  <1>10. ASSUME NEW c \in Call, Delete(c)
         PROVE  \E b \in Call : Update(b) \/ \E d \in Endpoint : Create(b, d)
    BY <1>10 DEF Delete, stripe
  <1>11. ASSUME NEW c \in Call, Fail(c)
         PROVE  \E b \in Call : Update(b) \/ \E d \in Endpoint : Create(b, d)
    BY <1>11 DEF Fail, stripe
  <1>12. ASSUME NEW e \in Endpoint, NEW u \in Url, DashboardMove(e, u)
         PROVE  \E b \in Call : Update(b) \/ \E d \in Endpoint : Create(b, d)
    BY <1>12 DEF DashboardMove, stripe
  <1>13. ASSUME NEW e \in Endpoint, NEW u \in Url, NEW a \in Scopes, DashboardCreate(e, u, a)
         PROVE  \E b \in Call : Update(b) \/ \E d \in Endpoint : Create(b, d)
    BY <1>13 DEF DashboardCreate, stripe
  <1>14. ASSUME NEW e \in Endpoint, NEW i \in Instance \union {Nobody},
                 NEW k \in BOOLEAN, Retag(e, i, k)
         PROVE  \E b \in Call : Update(b) \/ \E d \in Endpoint : Create(b, d)
    BY <1>14 DEF Retag, stripe
  <1>15. ASSUME NEW e \in Endpoint, NEW f \in Field, NEW v \in Value, DashboardEdit(e, f, v)
         PROVE  \E b \in Call : Update(b) \/ \E d \in Endpoint : Create(b, d)
    BY <1>15 DEF DashboardEdit, stripe
  <1>16. ASSUME NEW e \in Endpoint, DashboardDelete(e)
         PROVE  \E b \in Call : Update(b) \/ \E d \in Endpoint : Create(b, d)
    BY <1>16 DEF DashboardDelete, stripe
  <1>17. ASSUME NEW i \in Instance, Rotate(i)
         PROVE  \E b \in Call : Update(b) \/ \E d \in Endpoint : Create(b, d)
    BY <1>17 DEF Rotate, stripe
  <1>18. ASSUME NEW r \in saved, Forget(r)
         PROVE  \E b \in Call : Update(b) \/ \E d \in Endpoint : Create(b, d)
    BY <1>18 DEF Forget
  <1>19. CASE UNCHANGED vars
    BY <1>19 DEF vars
  <1>. QED
    BY <1>1, <1>2, <1>3, <1>4, <1>5, <1>6, <1>7, <1>8, <1>9, <1>10,
       <1>11, <1>12, <1>13, <1>14, <1>15, <1>16, <1>17, <1>18, <1>19
       DEF Next, Step, Others

-----------------------------------------------------------------------------
(* The inductive invariant *)

(* The invariant holds at first. *)
LEMMA InvInit == Init => IInv
  <1>. SUFFICES ASSUME Init PROVE IInv
    OBVIOUS
  <1>1. TypeOK
    BY TypeInit
  <1>2. \A c \in Call : CallOK(c)
    BY DEF Init, CallOK
  <1>3. \A e \in Endpoint : MadeOK(e)
    BY DEF Init, MadeOK, Made, Blank
  <1>4. /\ \A c \in Call, e \in Endpoint :
              ActedOK(c, e) /\ CopyOK(c, e) /\ RotatedOK(c, e)
        /\ \A s \in saved : SavedOK(s)
    BY DEF Init, ActedOK, CopyOK, RotatedOK
  <1>5. /\ AttemptUnique
        /\ SecretStaysHome
        /\ ConflictMeansSameAttempt
        /\ ProvisionedIsNew
        /\ OwnKeySuffices
    BY DEF Init, AttemptUnique, SecretStaysHome, ConflictMeansSameAttempt,
           ProvisionedIsNew, OwnKeySuffices
  <1>. QED  BY <1>1, <1>2, <1>3, <1>4, <1>5 DEF IInv

(* What a call was asked, and what follows from it, never changes. *)
LEMMA IntentKept ==
    ASSUME IInv, [Next]_vars, NEW c \in Call, pc[c] # "idle"
    PROVE  /\ Attempt(c)' = Attempt(c)
           /\ Intent(c)' = Intent(c)
           /\ CreateKey(c)' = CreateKey(c)
           /\ CreateParams(c)' = CreateParams(c)
           /\ UpdateKey(c)' = UpdateKey(c) \/ pc[c] \notin {"update", "done"}
           /\ UpdateParams(c)' = UpdateParams(c) \/ pc[c] \notin {"update", "done"}
  <1>1. /\ req'[c] = req[c] /\ gen'[c] = gen[c]
        /\ pc[c] \in {"update", "done"} =>
              target'[c] = target[c] /\ snap'[c] = snap[c]
    BY CallsKept DEF CallKept
  <1>. QED  BY <1>1 DEF Attempt, Intent, CreateKey, CreateParams, UpdateKey,
                        UpdateParams

(* What a replayed creation answers. *)
LEMMA CreateReplayedOK ==
    ASSUME IInv, NEW c \in Call, CreateReplayed(c)
    PROVE  \E e \in born :
              /\ Made(e)
              /\ Attempt(maker[e]) = Attempt(c)
              /\ \/ /\ Intent(maker[e]) = Intent(c)
                    /\ result'[c].kind = "provisioned" /\ result'[c].id = e
                 \/ /\ Intent(maker[e]) # Intent(c)
                    /\ result'[c].kind = "conflict"
  <1>1. TypeOK
    BY DEF IInv
  <1>2. PICK s \in saved :
             /\ s.key = CreateKey(c)
             /\ \/ s.params = CreateParams(c) /\ Finish(c, "provisioned", s.id)
                \/ s.params # CreateParams(c) /\ Finish(c, "conflict", NoEndpoint)
    BY DEF CreateReplayed, Replay, SavedFor
  <1>3. ~ \E d \in Call : s.key = UpdateKey(d)
    <2>1. CreateKey(c)[1] = "provision_we"
      BY DEF CreateKey
    <2>2. ASSUME NEW d \in Call PROVE UpdateKey(d)[1] # "provision_we"
      BY DEF UpdateKey
    <2>. QED  BY <1>2, <2>1, <2>2
  <1>4. /\ s.id \in born
        /\ Made(s.id)
        /\ s.key = CreateKey(maker[s.id])
        /\ s.params = CreateParams(maker[s.id])
    BY <1>3 DEF IInv, SavedOK
  <1>. PICK m \in Call : m = maker[s.id]
    BY <1>1, <1>4 DEF Made, TypeOK
  <1>5. Attempt(m) = Attempt(c)
    BY <1>2, <1>4 DEF CreateKey, Attempt
  <1>6. CreateParams(m) = CreateParams(c) <=> Intent(m) = Intent(c)
    <2>1. /\ req[m].url = req[c].url /\ req[m].connect = req[c].connect
          /\ Scope(req[m]) = Scope(req[c]) /\ gen[m] = gen[c]
      BY <1>5 DEF Attempt
    <2>2. ASSUME CreateParams(m) = CreateParams(c) PROVE Intent(m) = Intent(c)
      <3>1. /\ CreateParams(m).set = CreateParams(c).set
            /\ CreateParams(m).tag.owner = CreateParams(c).tag.owner
        BY <2>2
      <3>2. /\ Filled(req[m].want) = Filled(req[c].want)
            /\ req[m].inst = req[c].inst
        BY <3>1 DEF CreateParams, OwnerOf
      <3>. QED  BY <1>5, <3>2 DEF Intent
    <2>3. ASSUME Intent(m) = Intent(c) PROVE CreateParams(m) = CreateParams(c)
      <3>1. /\ Filled(req[m].want) = Filled(req[c].want)
            /\ req[m].inst = req[c].inst
        BY <2>3 DEF Intent
      <3>. QED  BY <2>1, <3>1 DEF CreateParams, OwnerOf
    <2>. QED  BY <2>2, <2>3
  <1>7. \/ /\ s.params = CreateParams(c)
           /\ result'[c].kind = "provisioned" /\ result'[c].id = s.id
        \/ /\ s.params # CreateParams(c)
           /\ result'[c].kind = "conflict"
    BY <1>1, <1>2 DEF Finish, TypeOK
  <1>. QED  BY <1>4, <1>5, <1>6, <1>7

(* What each call knows stays true. *)
LEMMA CallStep ==
    ASSUME IInv, [Next]_vars, NEW c \in Call
    PROVE  CallOK(c)'
  <1>1. TypeOK /\ TypeOK' /\ CallOK(c)
    BY TypeStep DEF IInv
  <1>2. CallKept(c) /\ Entry(c) /\ HistoryKept
    BY CallsKept, Entries, HistoriesKept
  <1>3. pc'[c] # "done" => result'[c].kind = "none"
    BY <1>1, <1>2 DEF CallKept, CallOK
  <1>4. ASSUME pc'[c] = "update"
        PROVE  /\ target'[c] \in born'
               /\ Proven(req'[c], snap'[c])
               /\ target'[c] \notin raced' =>
                     snap'[c].tag = rec'[target'[c]].tag
               /\ rec'[target'[c]].account = Scope(req'[c])
    <2>1. CASE pc[c] = "update"
      <3>1. /\ target'[c] = target[c] /\ snap'[c] = snap[c] /\ req'[c] = req[c]
            /\ target[c] \in born /\ target[c] \in Endpoint
            /\ Proven(req[c], snap[c])
            /\ target[c] \notin raced => snap[c].tag = rec[target[c]].tag
            /\ rec[target[c]].account = Scope(req[c])
        BY <1>1, <1>2, <2>1 DEF CallKept, CallOK, TypeOK
      <3>2. ASSUME NEW i \in Instance \union {Nobody}, NEW k \in BOOLEAN,
                   Retag(target[c], i, k)
            PROVE  target[c] \in raced'
        BY <2>1, <3>2 DEF Retag
      <3>3. EndpointKept(target[c])
        BY <3>1, EndpointsKept
      <3>4. target[c] \notin raced' => rec'[target[c]].tag = rec[target[c]].tag
        BY <3>1, <3>2, <3>3 DEF EndpointKept
      <3>. QED  BY <3>1, <3>3, <3>4 DEF EndpointKept
    <2>2. CASE pc[c] # "update"
      <3>1. /\ target'[c] \in Visible(req[c])
            /\ snap'[c] = rec[target'[c]]
            /\ Proven(req[c], snap'[c])
            /\ req' = req /\ rec' = rec /\ born' = born
        BY <1>2, <1>4, <2>2 DEF Entry
      <3>. QED  BY <1>1, <3>1 DEF Visible, TypeOK
    <2>. QED  BY <2>1, <2>2
  <1>5. pc'[c] # "idle" => gen'[c] <= generation'[req'[c].inst]
    <2>1. CASE pc[c] # "idle"
      <3>1. req[c].inst \in Instance
        BY <1>1, RequestTyped DEF TypeOK, Request
      <3>2. gen[c] <= generation[req[c].inst]
        BY <1>1, <2>1 DEF CallOK
      <3>3. generation[req[c].inst] <= generation'[req[c].inst]
        BY <1>2, <3>1 DEF HistoryKept
      <3>4. /\ gen[c] \in Nat /\ generation[req[c].inst] \in Nat
            /\ generation'[req[c].inst] \in Nat
        BY <1>1, <3>1 DEF TypeOK
      <3>. QED  BY <1>2, <2>1, <3>2, <3>3, <3>4 DEF CallKept
    <2>2. CASE pc[c] = "idle" /\ pc'[c] # "idle"
      <3>1. PICK q \in Requests : Begin(c, q)
        BY <1>2, <2>2 DEF CallKept
      <3>2. q.inst \in Instance
        BY RequestTyped DEF Request
      <3>. QED  BY <1>1, <3>1, <3>2 DEF Begin, GenerationOf, config, TypeOK
    <2>. QED  BY <2>1, <2>2
  <1>6. gone'[c] \subseteq born' \ live'
    <2>1. gone[c] \subseteq born \ live /\ live' \subseteq born'
      BY <1>1 DEF CallOK, TypeOK
    <2>2. \A d \in born \ live : d \in born' \ live'
      BY <1>1, EndpointsKept DEF EndpointKept, TypeOK
    <2>3. CASE gone'[c] = gone[c]
      BY <2>1, <2>2, <2>3
    <2>4. CASE gone'[c] # gone[c]
      <3>1. PICK q \in Requests : Begin(c, q)
        BY <1>2, <2>4 DEF CallKept
      <3>2. gone'[c] = born \ live
        BY <1>1, <3>1 DEF Begin, TypeOK
      <3>. QED  BY <2>2, <3>2
    <2>. QED  BY <2>3, <2>4
  <1>7. result'[c].kind = "provisioned" => result'[c].id \in born'
    <2>1. Outcome(c)
      BY Outcomes
    <2>2. \A d \in born : d \in born'
      BY <1>1, EndpointsKept DEF EndpointKept, TypeOK
    <2>3. ASSUME NEW e \in Endpoint, Create(c, e)
          PROVE  e \in born'
      BY <2>3 DEF Create
    <2>4. UpdateReplayed(c) => result'[c].kind # "provisioned"
      BY <1>1 DEF UpdateReplayed, Replay, Finish, TypeOK
    <2>5. CreateReplayed(c) /\ result'[c].kind = "provisioned"
            => result'[c].id \in born
      BY CreateReplayedOK
    <2>. QED  BY <1>1, <2>1, <2>2, <2>3, <2>4, <2>5 DEF CallOK, Outcome
  <1>. QED  BY <1>2, <1>3, <1>4, <1>5, <1>6, <1>7 DEF CallOK, Entry

(* What an endpoint says of its maker stays true. *)
LEMMA MadeStep ==
    ASSUME IInv, [Next]_vars, NEW e \in Endpoint
    PROVE  MadeOK(e)'
  <1>1. TypeOK /\ TypeOK' /\ MadeOK(e)
    BY TypeStep DEF IInv
  <1>2. EndpointKept(e) /\ Birth(e) /\ HistoryKept
    BY EndpointsKept, Births, HistoriesKept
  <1>3. e \notin born' => rec'[e].tag = NoTag
    <2>1. ASSUME NEW c \in Call, Create(c, e) PROVE e \in born'
      BY <2>1 DEF Create
    <2>. QED  BY <1>1, <1>2, <2>1 DEF EndpointKept, Birth, MadeOK
  <1>4. ASSUME e \in born, Made(e)
        PROVE  MadeOK(e)'
    <2>. PICK m \in Call : m = maker[e]
      BY <1>1, <1>4 DEF TypeOK, Made
    <2>1. /\ maker'[e] = m /\ e \in born' /\ pc[m] # "idle"
          /\ pc'[m] # "idle" /\ req'[m] = req[m] /\ gen'[m] = gen[m]
      BY <1>1, <1>2, <1>4, CallsKept DEF MadeOK, EndpointKept, CallKept
    <2>2. /\ rec'[e].account = Scope(req[m])
          /\ e \notin moved' => rec'[e].url = req[m].url
      BY <1>1, <1>2, <1>4 DEF MadeOK, EndpointKept
    <2>3. ASSUME e \notin live', gen[m] = generation'[req[m].inst]
          PROVE  req[m].inst \in stale'
      <3>. PICK i \in Instance : i = req[m].inst
        BY <1>1, RequestTyped DEF TypeOK, Request
      <3>1. /\ generation[i] \in Nat /\ generation'[i] \in Nat /\ gen[m] \in Nat
        BY <1>1 DEF TypeOK
      <3>2. gen[m] <= generation[i]
        BY <2>1 DEF IInv, CallOK
      <3>3. generation[i] <= generation'[i]
        BY <1>2 DEF HistoryKept
      <3>4. generation'[i] = generation[i] /\ gen[m] = generation[i]
        BY <2>3, <3>1, <3>2, <3>3
      <3>5. CASE e \in live
        BY <1>2, <1>4, <2>3, <3>5 DEF EndpointKept
      <3>6. CASE e \notin live
        <4>1. i \in stale
          BY <1>1, <1>4, <3>4, <3>6 DEF MadeOK
        <4>. QED  BY <1>2, <3>4, <4>1 DEF HistoryKept
      <3>. QED  BY <3>5, <3>6
    <2>. QED  BY <2>1, <2>2, <2>3 DEF MadeOK, Made
  <1>5. ASSUME NEW c \in Call, Create(c, e)
        PROVE  MadeOK(e)'
    <2>1. /\ maker'[e] = c /\ e \in born' /\ e \in live' /\ pc[c] = "create"
          /\ rec'[e].account = Scope(req[c]) /\ rec'[e].url = req[c].url
      BY <1>1, <1>5 DEF Create, CreateParams, TypeOK
    <2>2. pc'[c] # "idle" /\ req'[c] = req[c]
      BY <2>1, CallsKept DEF CallKept
    <2>. QED  BY <2>1, <2>2 DEF MadeOK, Made
  <1>6. ASSUME ~Made(e), maker'[e] = maker[e]
        PROVE  MadeOK(e)'
    BY <1>3, <1>6 DEF MadeOK, Made
  <1>7. e \in born => maker'[e] = maker[e]
    BY <1>2 DEF EndpointKept
  <1>8. e \notin born => ~Made(e)
    BY <1>1 DEF MadeOK
  <1>. QED  BY <1>2, <1>4, <1>5, <1>6, <1>7, <1>8 DEF Birth

(* What was acted on is and stays of the account of who acted. *)
LEMMA ActedStep ==
    ASSUME IInv, [Next]_vars, NEW c \in Call, NEW e \in Endpoint
    PROVE  ActedOK(c, e)'
  <1>1. TypeOK /\ ActedOK(c, e) /\ CallOK(c)
    BY DEF IInv
  <1>2. EndpointKept(e) /\ CallKept(c) /\ Act(c, e)
    BY EndpointsKept, CallsKept, Acts
  <1>4. CASE <<c, e>> \in acted
    BY <1>1, <1>2, <1>4 DEF ActedOK, EndpointKept, CallKept
  <1>5. CASE Update(c) /\ e = target[c]
    <2>1. /\ pc[c] = "update" /\ e \in born
          /\ rec[e].account = Scope(req[c])
      BY <1>1, <1>5 DEF Update, CallOK
    <2>. QED  BY <1>2, <2>1 DEF ActedOK, EndpointKept, CallKept
  <1>6. CASE Delete(c) /\ e \in Visible(req[c])
    <2>1. /\ pc[c] = "delete" /\ req[c].op = "destroy" /\ e \in born
          /\ rec[e].account = Scope(req[c])
      BY <1>1, <1>6 DEF Delete, CallOK, Visible, TypeOK
    <2>. QED  BY <1>2, <2>1 DEF ActedOK, EndpointKept, CallKept
  <1>. QED  BY <1>2, <1>4, <1>5, <1>6 DEF Act, ActedOK

(* Under rotation a call never meets an attempt whose endpoint was gone. *)
LEMMA RotatedStep ==
    ASSUME IInv, [Next]_vars, NEW c \in Call, NEW e \in Endpoint
    PROVE  RotatedOK(c, e)'
  <1>. SUFFICES ASSUME Rotates, pc'[c] # "idle", req'[c].op = "provision",
                       e \in gone'[c], Made(e)',
                       req'[maker'[e]].inst = req'[c].inst
                PROVE  gen'[maker'[e]] # gen'[c]
    BY DEF RotatedOK
  <1>1. TypeOK /\ MadeOK(e) /\ CallOK(c) /\ RotatedOK(c, e)
    BY DEF IInv
  <1>2. CallKept(c) /\ EndpointKept(e)
    BY CallsKept, EndpointsKept
  <1>3. ASSUME e \in born
        PROVE  /\ maker'[e] = maker[e] /\ Made(e)
               /\ maker[e] \in Call /\ pc[maker[e]] # "idle"
               /\ req'[maker[e]] = req[maker[e]]
               /\ gen'[maker[e]] = gen[maker[e]]
    <2>1. maker'[e] = maker[e] /\ Made(e)
      BY <1>2, <1>3 DEF EndpointKept, Made
    <2>2. maker[e] \in Call /\ pc[maker[e]] # "idle"
      BY <1>1, <2>1 DEF MadeOK, Made, TypeOK
    <2>. QED  BY <2>1, <2>2, CallsKept DEF CallKept
  <1>4. CASE pc[c] # "idle"
    <2>1. /\ req'[c] = req[c] /\ gen'[c] = gen[c] /\ gone'[c] = gone[c]
          /\ e \in born
      BY <1>1, <1>2, <1>4 DEF CallKept, CallOK
    <2>. QED  BY <1>1, <1>3, <1>4, <2>1 DEF RotatedOK
  <1>5. CASE pc[c] = "idle"
    <2>1. PICK q \in Requests : Begin(c, q)
      BY <1>2, <1>5 DEF CallKept
    <2>2. /\ gone'[c] = born \ live /\ req'[c] = q
          /\ gen'[c] = generation[q.inst]
          /\ q.op = "provision" => q.inst \notin stale
      BY <1>1, <2>1 DEF Begin, GenerationOf, TypeOK
    <2>3. e \in born /\ e \notin live
      BY <2>2
    <2>. QED  BY <1>1, <1>3, <2>2, <2>3 DEF MadeOK
  <1>. QED  BY <1>4, <1>5

(* A saved response stands for what its key and parameters say. *)
LEMMA SavedStep ==
    ASSUME IInv, [Next]_vars
    PROVE  \A s \in saved' : SavedOK(s)'
  <1>1. TypeOK /\ TypeOK'
    BY TypeStep DEF IInv
  <1>2. ASSUME NEW s \in saved
        PROVE  SavedOK(s)'
    <2>1. SavedOK(s)
      BY DEF IInv
    <2>2. CASE /\ s.id \in born
               /\ Made(s.id)
               /\ s.key = CreateKey(maker[s.id])
               /\ s.params = CreateParams(maker[s.id])
      <3>. PICK m \in Call : m = maker[s.id]
        BY <1>1, <2>2 DEF Made, TypeOK
      <3>1. s.id \in Endpoint
        BY <1>1, <2>2 DEF TypeOK
      <3>2. maker'[s.id] = m /\ s.id \in born' /\ pc[m] # "idle"
        BY <2>2, <3>1, EndpointsKept DEF EndpointKept, IInv, MadeOK
      <3>3. CreateKey(m)' = CreateKey(m) /\ CreateParams(m)' = CreateParams(m)
        BY <3>2, IntentKept
      <3>4. s.key = CreateKey(m)' /\ s.params = CreateParams(m)'
        BY <2>2, <3>3
      <3>. QED  BY <2>2, <3>2, <3>4 DEF SavedOK, Made, CreateKey, CreateParams
    <2>3. ASSUME NEW c \in Call,
                 pc[c] \in {"update", "done"},
                 s.key = UpdateKey(c),
                 s.params = UpdateParams(c),
                 s.id = target[c],
                 <<c, s.id>> \in acted
          PROVE  SavedOK(s)'
      <3>1. /\ pc'[c] \in {"update", "done"} /\ target'[c] = target[c]
            /\ <<c, s.id>> \in acted'
        BY <2>3, CallsKept, HistoriesKept DEF CallKept, HistoryKept
      <3>2. UpdateKey(c)' = UpdateKey(c) /\ UpdateParams(c)' = UpdateParams(c)
        BY <2>3, IntentKept
      <3>. QED  BY <2>3, <3>1, <3>2 DEF SavedOK
    <2>. QED  BY <2>1, <2>2, <2>3 DEF SavedOK
  <1>3. ASSUME NEW c \in Call, NEW e \in Endpoint, Create(c, e),
               NEW s \in saved', s \notin saved
        PROVE  SavedOK(s)'
    <2>1. /\ pc[c] = "create" /\ e \in born'
          /\ s.key = CreateKey(c) /\ s.params = CreateParams(c) /\ s.id = e
          /\ maker'[e] = c
      BY <1>1, <1>3 DEF Create, Save, TypeOK
    <2>2. CreateKey(c)' = CreateKey(c) /\ CreateParams(c)' = CreateParams(c)
      BY <2>1, IntentKept
    <2>3. s.key = CreateKey(c)' /\ s.params = CreateParams(c)'
      BY <2>1, <2>2
    <2>. QED  BY <2>1, <2>3, EndpointsAssumption
              DEF SavedOK, Made, CreateKey, CreateParams
  <1>4. ASSUME NEW c \in Call, Update(c), NEW s \in saved', s \notin saved
        PROVE  SavedOK(s)'
    <2>1. /\ pc[c] = "update"
          /\ s.key = UpdateKey(c) /\ s.params = UpdateParams(c)
          /\ s.id = target[c] /\ <<c, s.id>> \in acted'
      BY <1>4 DEF Update, Save
    <2>2. pc'[c] \in {"update", "done"} /\ target'[c] = target[c]
      BY <2>1, CallsKept DEF CallKept
    <2>3. UpdateKey(c)' = UpdateKey(c) /\ UpdateParams(c)' = UpdateParams(c)
      BY <2>1, IntentKept
    <2>. QED  BY <2>1, <2>2, <2>3 DEF SavedOK
  <1>5. ASSUME NEW s \in saved', s \notin saved
        PROVE  \E c \in Call : Update(c) \/ \E e \in Endpoint : Create(c, e)
    BY <1>5, Savers
  <1>. QED  BY <1>2, <1>3, <1>4, <1>5

(* While an endpoint of an attempt lives, its copies find its response saved. *)
LEMMA CopyStep ==
    ASSUME IInv, [Next]_vars, NEW c \in Call, NEW e \in Endpoint
    PROVE  CopyOK(c, e)'
  <1>. SUFFICES ASSUME pc'[c] = "create", e \in live' \ moved', Made(e)',
                       Attempt(maker[e])' = Attempt(c)'
                PROVE  \E s \in saved' : /\ s.key = CreateKey(c)'
                                         /\ s.params.account = Scope(req'[c])
                                         /\ c \in s.during
    BY DEF CopyOK
  <1>1. TypeOK /\ TypeOK' /\ MadeOK(e) /\ CopyOK(c, e)
    BY TypeStep DEF IInv
  <1>2. CallKept(c) /\ Entry(c) /\ EndpointKept(e) /\ Birth(e) /\ HistoryKept
    BY CallsKept, Entries, EndpointsKept, Births, HistoriesKept
  <1>3. pc[c] \in {"create", "preflight"}
    BY <1>2 DEF Entry, Preflight
  <1>4. /\ Attempt(c)' = Attempt(c) /\ CreateKey(c)' = CreateKey(c)
        /\ req'[c] = req[c]
    BY <1>2, <1>3, IntentKept DEF CallKept
  <1>5. ASSUME NEW m \in Call, m = maker'[e]
        PROVE  Attempt(m)' = Attempt(c)'
    BY <1>5 DEF Attempt
  <1>6. CASE e \in born
    <2>1. maker'[e] = maker[e] /\ Made(e) /\ e \in live /\ e \notin moved
      BY <1>2, <1>6 DEF EndpointKept, Made
    <2>. PICK m \in Call : m = maker[e]
      BY <1>1, <2>1 DEF Made, TypeOK
    <2>2. pc[m] # "idle" /\ Attempt(m)' = Attempt(m)
      BY <1>1, <2>1, IntentKept DEF MadeOK
    <2>3. Attempt(m) = Attempt(c)
      BY <1>4, <1>5, <2>1, <2>2
    <2>4. CASE pc[c] = "create"
      <3>1. PICK s \in saved : /\ s.key = CreateKey(c)
                               /\ s.params.account = Scope(req[c])
                               /\ c \in s.during
        BY <1>1, <2>1, <2>3, <2>4 DEF CopyOK
      <3>2. s \in saved'
        BY <1>2, <2>4, <3>1 DEF HistoryKept
      <3>. QED  BY <1>4, <3>1, <3>2
    <2>5. CASE Preflight(c)
      <3>1. Matching(req[c]) = {}
        BY <1>1, <2>5 DEF Preflight, Finish, TypeOK
      <3>2. /\ rec[e].account = Scope(req[m]) /\ rec[e].url = req[m].url
        BY <1>1, <2>1 DEF MadeOK
      <3>3. Scope(req[m]) = Scope(req[c]) /\ req[m].url = req[c].url
        BY <2>3 DEF Attempt
      <3>. QED  BY <2>1, <3>1, <3>2, <3>3 DEF Matching, Visible
    <2>. QED  BY <1>2, <2>4, <2>5 DEF Entry
  <1>7. ASSUME NEW d \in Call, Create(d, e)
        PROVE  \E s \in saved' : /\ s.key = CreateKey(c)'
                                 /\ s.params.account = Scope(req'[c])
                                 /\ c \in s.during
    <2>1. /\ maker'[e] = d /\ pc[d] = "create"
          /\ Save(CreateKey(d), CreateParams(d), e) /\ pc'[d] # "idle"
          /\ rec' = [rec EXCEPT ![e] =
                       [account |-> CreateParams(d).account,
                        url |-> CreateParams(d).url,
                        set |-> CreateParams(d).set,
                        tag |-> CreateParams(d).tag]]
      BY <1>1, <1>7, CallsKept DEF Create, CallKept, TypeOK
    <2>2. CASE pc[c] = "create"
      <3>1. Attempt(d)' = Attempt(d)
        BY <2>1, IntentKept
      <3>2. Attempt(d) = Attempt(c)
        BY <1>4, <1>5, <2>1, <3>1
      <3>3. CreateKey(d) = CreateKey(c) /\ Scope(req[d]) = Scope(req[c])
        BY <3>2 DEF Attempt, CreateKey
      <3>4. c \in {b \in Call : pc[b] \in Waiting}
        BY <2>2 DEF Waiting
      <3>5. CreateParams(d).account = Scope(req[d])
        BY DEF CreateParams
      <3>. DEFINE s == [key |-> CreateKey(d), params |-> CreateParams(d), id |-> e,
                        during |-> {b \in Call : pc[b] \in Waiting}]
      <3>6. s \in saved'
        BY <2>1 DEF Save
      <3>. QED  BY <1>4, <3>3, <3>4, <3>5, <3>6
    <2>3. CASE pc[c] = "preflight"
      <3>1. c # d
        BY <2>1, <2>3
      <3>2. pc'[c] = pc[c]
        BY <1>1, <1>7, <3>1 DEF Create, Answer, Finish, TypeOK
      <3>. QED  BY <2>3, <3>2
    <2>. QED  BY <1>3, <2>2, <2>3
  <1>8. CASE e \notin born /\ maker'[e] = maker[e]
    BY <1>1, <1>8 DEF MadeOK, Made
  <1>. QED  BY <1>2, <1>6, <1>7, <1>8 DEF Birth

(* An endpoint that exists unmoved existed so, or has just been created. *)
LEMMA Origin ==
    ASSUME IInv, [Next]_vars, NEW e \in live' \ moved', Made(e)'
    PROVE  \E m \in Call :
              /\ m = maker'[e]
              /\ pc[m] # "idle"
              /\ \/ e \in live \ moved /\ Made(e) /\ maker[e] = m
                 \/ Create(m, e)
  <1>1. TypeOK /\ TypeOK' /\ e \in Endpoint
    BY TypeStep DEF IInv, TypeOK
  <1>2. EndpointKept(e) /\ Birth(e) /\ MadeOK(e)
    BY <1>1, EndpointsKept, Births DEF IInv
  <1>3. CASE e \in born
    <2>1. maker'[e] = maker[e] /\ Made(e) /\ e \in live \ moved
      BY <1>2, <1>3 DEF EndpointKept, Made
    <2>2. maker[e] \in Call /\ pc[maker[e]] # "idle"
      BY <1>1, <1>2, <2>1 DEF Made, MadeOK, TypeOK
    <2>. QED  BY <2>1, <2>2
  <1>4. ASSUME NEW c \in Call, Create(c, e)
        PROVE  c = maker'[e] /\ pc[c] # "idle"
    BY <1>1, <1>4 DEF Create, TypeOK
  <1>5. CASE e \notin born /\ maker'[e] = maker[e]
    BY <1>2, <1>5 DEF MadeOK, Made
  <1>. QED  BY <1>2, <1>3, <1>4, <1>5 DEF Birth

(* No call creates a copy of an endpoint of its own attempt. *)
LEMMA NoCopy ==
    ASSUME IInv, NEW d \in live \ moved, Made(d), NEW e \in Endpoint,
           NEW c \in Call, Create(c, e), Attempt(maker[d]) = Attempt(c)
    PROVE  FALSE
  <1>1. d \in Endpoint /\ CopyOK(c, d)
    BY DEF IInv, TypeOK
  <1>2. pc[c] = "create" /\ SavedFor(CreateKey(c), CreateParams(c)) = {}
    BY DEF Create
  <1>3. PICK s \in saved : /\ s.key = CreateKey(c)
                           /\ s.params.account = Scope(req[c])
    BY <1>1, <1>2 DEF CopyOK
  <1>4. CreateParams(c).account = Scope(req[c])
    BY DEF CreateParams
  <1>. QED  BY <1>2, <1>3, <1>4 DEF SavedFor

(* No step makes a second endpoint of one attempt. *)
LEMMA AttemptUniqueStep == IInv /\ [Next]_vars => AttemptUnique'
  <1>. SUFFICES ASSUME IInv, [Next]_vars,
                       NEW d \in live' \ moved', NEW e \in live' \ moved',
                       Made(d)', Made(e)',
                       Attempt(maker[d])' = Attempt(maker[e])'
                PROVE  d = e
    BY DEF AttemptUnique
  <1>0. d \in Endpoint /\ e \in Endpoint
    BY TypeStep DEF TypeOK
  <1>1. PICK m \in Call :
              /\ m = maker'[d]
              /\ pc[m] # "idle"
              /\ \/ d \in live \ moved /\ Made(d) /\ maker[d] = m
                 \/ Create(m, d)
    BY Origin
  <1>2. PICK n \in Call :
              /\ n = maker'[e]
              /\ pc[n] # "idle"
              /\ \/ e \in live \ moved /\ Made(e) /\ maker[e] = n
                 \/ Create(n, e)
    BY Origin
  <1>3. Attempt(m)' = Attempt(n)'
    BY <1>1, <1>2 DEF Attempt
  <1>4. Attempt(m) = Attempt(n)
    BY <1>1, <1>2, <1>3, IntentKept
  <1>5. CASE /\ d \in live \ moved /\ Made(d) /\ maker[d] = m
             /\ e \in live \ moved /\ Made(e) /\ maker[e] = n
    BY <1>4, <1>5 DEF IInv, AttemptUnique
  <1>6. CASE /\ d \in live \ moved /\ Made(d) /\ maker[d] = m
             /\ Create(n, e)
    BY <1>0, <1>4, <1>6, NoCopy
  <1>7. CASE /\ e \in live \ moved /\ Made(e) /\ maker[e] = n
             /\ Create(m, d)
    BY <1>0, <1>4, <1>7, NoCopy
  <1>8. CASE Create(m, d) /\ Create(n, e)
    BY <1>8 DEF Create
  <1>. QED  BY <1>1, <1>2, <1>5, <1>6, <1>7, <1>8

(* No step hands a secret to a call of another intent. *)
LEMMA SecretStep == IInv /\ [Next]_vars => SecretStaysHome'
  <1>. SUFFICES ASSUME IInv, [Next]_vars, NEW c \in Call,
                       result'[c].kind = "provisioned"
                PROVE  /\ Made(result[c].id)'
                       /\ Intent(maker[result[c].id])' = Intent(c)'
    BY DEF SecretStaysHome
  <1>1. TypeOK /\ CallOK(c) /\ Outcome(c)
    BY Outcomes DEF IInv
  <1>2. ASSUME NEW e \in born, Made(e), Intent(maker[e]) = Intent(c),
               result'[c].id = e, pc[c] # "idle"
        PROVE  /\ Made(result[c].id)'
               /\ Intent(maker[result[c].id])' = Intent(c)'
    <2>. PICK m \in Call : m = maker[e]
      BY <1>1, <1>2 DEF Made, TypeOK
    <2>1. maker'[e] = m /\ pc[m] # "idle"
      BY <1>1, <1>2, EndpointsKept DEF EndpointKept, IInv, MadeOK, TypeOK
    <2>2. Intent(m)' = Intent(c)'
      BY <1>2, <2>1, IntentKept
    <2>3. Intent(maker[result[c].id])' = Intent(m)'
      BY <1>2, <2>1 DEF Intent, Attempt
    <2>. QED  BY <1>2, <2>1, <2>2, <2>3, EndpointsAssumption DEF Made
  <1>3. CASE result'[c] = result[c]
    <2>1. pc[c] # "idle" /\ result[c].id \in born
      BY <1>1, <1>3 DEF CallOK
    <2>2. Made(result[c].id) /\ Intent(maker[result[c].id]) = Intent(c)
      BY <1>3 DEF IInv, SecretStaysHome
    <2>. QED  BY <1>2, <1>3, <2>1, <2>2
  <1>4. ASSUME NEW e \in Endpoint, Create(c, e), result'[c].id = e
        PROVE  /\ Made(result[c].id)'
               /\ Intent(maker[result[c].id])' = Intent(c)'
    <2>1. maker'[e] = c
      BY <1>1, <1>4 DEF Create, TypeOK
    <2>2. Intent(maker[result[c].id])' = Intent(c)'
      BY <1>4, <2>1 DEF Intent, Attempt
    <2>. QED  BY <1>4, <2>1, <2>2, EndpointsAssumption DEF Made
  <1>5. CASE CreateReplayed(c)
    <2>1. pc[c] # "idle"
      BY <1>5 DEF CreateReplayed
    <2>. QED  BY <1>2, <1>5, <2>1, CreateReplayedOK
  <1>6. ~UpdateReplayed(c)
    BY <1>1 DEF UpdateReplayed, Replay, Finish, TypeOK
  <1>. QED  BY <1>1, <1>3, <1>4, <1>5, <1>6 DEF Outcome

(* No provision is refused for a key that no equal attempt used. *)
LEMMA ConflictStep == IInv /\ [Next]_vars => ConflictMeansSameAttempt'
  <1>. SUFFICES ASSUME IInv, [Next]_vars, NEW c \in Call,
                       result'[c].kind = "conflict", req'[c].op = "provision"
                PROVE  \E e \in born' : /\ Made(e)'
                                        /\ Attempt(maker[e])' = Attempt(c)'
                                        /\ Intent(maker[e])' # Intent(c)'
    BY DEF ConflictMeansSameAttempt
  <1>1. TypeOK /\ CallOK(c) /\ Outcome(c) /\ CallKept(c)
    BY Outcomes, CallsKept DEF IInv
  <1>2. ASSUME NEW e \in born, Made(e), Attempt(maker[e]) = Attempt(c),
               Intent(maker[e]) # Intent(c), pc[c] # "idle"
        PROVE  \E d \in born' : /\ Made(d)'
                                /\ Attempt(maker[d])' = Attempt(c)'
                                /\ Intent(maker[d])' # Intent(c)'
    <2>. PICK m \in Call : m = maker[e]
      BY <1>1, <1>2 DEF Made, TypeOK
    <2>1. maker'[e] = m /\ pc[m] # "idle" /\ e \in born'
      BY <1>1, <1>2, EndpointsKept DEF EndpointKept, IInv, MadeOK, TypeOK
    <2>2. Attempt(m)' = Attempt(c)' /\ Intent(m)' # Intent(c)'
      BY <1>2, <2>1, IntentKept
    <2>3. /\ Intent(maker[e])' = Intent(m)'
          /\ Attempt(maker[e])' = Attempt(m)'
      BY <2>1 DEF Intent, Attempt
    <2>. QED  BY <2>1, <2>2, <2>3, EndpointsAssumption DEF Made
  <1>3. CASE result'[c] = result[c]
    <2>1. pc[c] # "idle" /\ req[c].op = "provision"
      BY <1>1, <1>3 DEF CallOK, CallKept
    <2>2. PICK e \in born : /\ Made(e)
                            /\ Attempt(maker[e]) = Attempt(c)
                            /\ Intent(maker[e]) # Intent(c)
      BY <1>3, <2>1 DEF IInv, ConflictMeansSameAttempt
    <2>. QED  BY <1>2, <2>1, <2>2
  <1>4. CASE CreateReplayed(c)
    <2>1. pc[c] # "idle"
      BY <1>4 DEF CreateReplayed
    <2>. QED  BY <1>2, <1>4, <2>1, CreateReplayedOK
  <1>5. ~UpdateReplayed(c)
    BY <1>1 DEF UpdateReplayed, CallOK, CallKept
  <1>. QED  BY <1>1, <1>3, <1>4, <1>5 DEF Outcome

(* No provision is answered with an endpoint that was gone when it began. *)
LEMMA NewStep == IInv /\ [Next]_vars => ProvisionedIsNew'
  <1>. SUFFICES ASSUME IInv, [Next]_vars, NEW c \in Call, Rotates,
                       result'[c].kind = "provisioned",
                       result'[c].id \in gone'[c]
                PROVE  FALSE
    BY DEF ProvisionedIsNew
  <1>1. TypeOK /\ CallOK(c) /\ Outcome(c) /\ CallKept(c)
    BY Outcomes, CallsKept DEF IInv
  <1>2. CASE result'[c] = result[c]
    <2>1. pc[c] # "idle"
      BY <1>1, <1>2 DEF CallOK
    <2>. QED  BY <1>1, <1>2, <2>1 DEF IInv, ProvisionedIsNew, CallKept
  <1>3. ASSUME NEW e \in Endpoint, Create(c, e), result'[c].id = e
        PROVE  FALSE
    <2>1. pc[c] # "idle" /\ e \notin born
      BY <1>3 DEF Create
    <2>. QED  BY <1>1, <1>3, <2>1 DEF CallKept, CallOK
  <1>4. CASE CreateReplayed(c)
    <2>1. pc[c] = "create" /\ req[c].op = "provision"
      BY <1>1, <1>4 DEF CreateReplayed, CallOK
    <2>2. PICK e \in born : /\ Made(e)
                            /\ Intent(maker[e]) = Intent(c)
                            /\ result'[c].id = e
      BY <1>4, CreateReplayedOK
    <2>3. req[maker[e]].inst = req[c].inst /\ gen[maker[e]] = gen[c]
      BY <2>2 DEF Intent, Attempt
    <2>4. e \in gone[c] /\ RotatedOK(c, e)
      BY <1>1, <2>1, <2>2 DEF CallKept, IInv, TypeOK
    <2>. QED  BY <2>1, <2>2, <2>3, <2>4 DEF RotatedOK
  <1>5. ~UpdateReplayed(c)
    BY <1>1 DEF UpdateReplayed, Replay, Finish, TypeOK
  <1>. QED  BY <1>1, <1>2, <1>3, <1>4, <1>5 DEF Outcome

(* A key that no other call uses can only replay what the call did itself. *)
LEMMA OwnReplay ==
    ASSUME IInv, NEW c \in Call, UpdateReplayed(c), req[c].key # NoKey,
           \A d \in Call \ {c} : pc[d] = "idle" \/ req[d].key # req[c].key
    PROVE  result'[c].kind = "updated" /\ <<c, result'[c].id>> \in acted
  <1>1. TypeOK
    BY DEF IInv
  <1>2. PICK s \in saved :
             /\ s.key = UpdateKey(c)
             /\ \/ s.params = UpdateParams(c) /\ Finish(c, "updated", s.id)
                \/ s.params # UpdateParams(c) /\ Finish(c, "conflict", NoEndpoint)
    BY DEF UpdateReplayed, Replay, SavedFor
  <1>3. s.key = <<"caller", req[c].key>>
    BY <1>2 DEF UpdateKey
  <1>4. ~ \E m \in Call : s.key = CreateKey(m)
    <2>1. s.key[1] = "caller"
      BY <1>3
    <2>2. ASSUME NEW m \in Call PROVE CreateKey(m)[1] = "provision_we"
      BY DEF CreateKey
    <2>. QED  BY <2>1, <2>2
  <1>5. PICK d \in Call : /\ pc[d] \in {"update", "done"}
                          /\ s.key = UpdateKey(d)
                          /\ s.params = UpdateParams(d)
                          /\ s.id = target[d]
                          /\ <<d, s.id>> \in acted
    BY <1>1, <1>4 DEF IInv, SavedOK, Made, TypeOK
  <1>6. req[d].key = req[c].key
    BY <1>3, <1>5 DEF UpdateKey
  <1>7. d = c
    BY <1>5, <1>6
  <1>8. s.id = target[c] /\ <<c, s.id>> \in acted /\ Finish(c, "updated", s.id)
    BY <1>2, <1>5, <1>7
  <1>. QED  BY <1>1, <1>8 DEF Finish, TypeOK

(* No ensure is refused for, or answered from, a key of its own. *)
LEMMA OwnKeyStep == IInv /\ [Next]_vars => OwnKeySuffices'
  <1>. SUFFICES ASSUME IInv, [Next]_vars, NEW c \in Call,
                       req'[c].op = "ensure", req'[c].key # NoKey,
                       \A d \in Call \ {c} :
                          pc'[d] = "idle" \/ req'[d].key # req'[c].key
                PROVE  /\ result'[c].kind # "conflict"
                       /\ result'[c].kind = "updated"
                            => <<c, result'[c].id>> \in acted'
    BY DEF OwnKeySuffices
  <1>1. TypeOK /\ CallOK(c) /\ Outcome(c) /\ CallKept(c) /\ HistoryKept
    BY Outcomes, CallsKept, HistoriesKept DEF IInv
  <1>2. CASE pc[c] = "idle"
    <2>1. result[c].kind = "none"
      BY <1>1, <1>2 DEF CallOK
    <2>2. ~Update(c) /\ ~CreateReplayed(c) /\ ~UpdateReplayed(c)
      BY <1>2 DEF Update, CreateReplayed, UpdateReplayed
    <2>3. \A e \in Endpoint : ~Create(c, e)
      BY <1>2 DEF Create
    <2>. QED  BY <1>1, <2>1, <2>2, <2>3 DEF Outcome
  <1>3. CASE pc[c] # "idle"
    <2>1. /\ req'[c] = req[c] /\ req[c].op = "ensure" /\ req[c].key # NoKey
      BY <1>1, <1>3 DEF CallKept
    <2>2. \A d \in Call \ {c} : pc[d] = "idle" \/ req[d].key # req[c].key
      BY <2>1, CallsKept DEF CallKept
    <2>3. CASE result'[c] = result[c]
      BY <1>1, <2>1, <2>2, <2>3 DEF IInv, OwnKeySuffices, HistoryKept
    <2>4. CASE UpdateReplayed(c)
      BY <1>1, <2>1, <2>2, <2>4, OwnReplay DEF HistoryKept
    <2>5. ~CreateReplayed(c)
      BY <1>1, <2>1 DEF CreateReplayed, CallOK
    <2>. QED  BY <1>1, <2>3, <2>4, <2>5 DEF Outcome
  <1>. QED  BY <1>2, <1>3

(* Every step keeps the invariant. *)
LEMMA InvStep == IInv /\ [Next]_vars => IInv'
  <1>. SUFFICES ASSUME IInv, [Next]_vars PROVE IInv'
    OBVIOUS
  <1>1. /\ \A c \in Call : CallOK(c)'
        /\ \A e \in Endpoint : MadeOK(e)'
        /\ \A c \in Call, e \in Endpoint : ActedOK(c, e)'
        /\ \A c \in Call, e \in Endpoint : CopyOK(c, e)'
        /\ \A c \in Call, e \in Endpoint : RotatedOK(c, e)'
    BY CallStep, MadeStep, ActedStep, CopyStep, RotatedStep
  <1>2. \A s \in saved' : SavedOK(s)'
    BY SavedStep
  <1>. QED
    BY <1>1, <1>2, TypeStep, AttemptUniqueStep, SecretStep, ConflictStep,
       NewStep, OwnKeyStep
       DEF IInv

(* The inductive invariant holds in every reachable state of the calls of  *)
(* the webhook_endpoint operations.                                        *)
THEOREM Invariant == Spec => []IInv
  <1>. QED  BY InvInit, InvStep, PTL DEF Spec

-----------------------------------------------------------------------------
(* What the properties promise *)

(* Every variable of the webhook_endpoint operations keeps its type.       *)
THEOREM TypeCorrect == Spec => []TypeOK
  <1>1. IInv => TypeOK
    BY DEF IInv
  <1>. QED  BY <1>1, Invariant, PTL

(* For any calls, accounts and generations: of the endpoints created for   *)
(* one attempt of webhookProvisionAttempt at most one exists unmoved.      *)
THEOREM OneEndpointPerAttempt == Spec => []AttemptUnique
  <1>1. IInv => AttemptUnique
    BY DEF IInv
  <1>. QED  BY <1>1, Invariant, PTL

(* The signing secret, returned by the creation only, reaches none but     *)
(* calls of the instance and of the intent the endpoint was created for.   *)
THEOREM Secrecy == Spec => []SecretStaysHome
  <1>1. IInv => SecretStaysHome
    BY DEF IInv
  <1>. QED  BY <1>1, Invariant, PTL

(* A provision refused for a key Stripe has seen met the same attempt made *)
(* with another intent.                                                    *)
THEOREM Conflicts == Spec => []ConflictMeansSameAttempt
  <1>1. IInv => ConflictMeansSameAttempt
    BY DEF IInv
  <1>. QED  BY <1>1, Invariant, PTL

(* Under the operators' protocol of rotating generations a provision never *)
(* answers with an endpoint that was dead when it began.                   *)
THEOREM Recovery == Spec => []ProvisionedIsNew
  <1>1. IInv => ProvisionedIsNew
    BY DEF IInv
  <1>. QED  BY <1>1, Invariant, PTL

(* An ensure that brings its own idempotency key is never refused for it,  *)
(* and reports an update only when it has made it.                         *)
THEOREM OwnKeys == Spec => []OwnKeySuffices
  <1>1. IInv => OwnKeySuffices
    BY DEF IInv
  <1>. QED  BY <1>1, Invariant, PTL

(* reconcileWebhookEndpoint updates only endpoints that its own instance   *)
(* owns at that moment, although it reads their owner one request earlier; *)
(* only an endpoint handed over while an update is on its way is excepted. *)
THEOREM Owners == Spec => OnlyOwnersUpdate
  <1>1. ASSUME IInv, [Next]_vars
        PROVE  [\A c \in Call, e \in Endpoint :
                  (/\ <<c, e>> \in acted' \ acted
                   /\ req[c].op = "ensure"
                   /\ e \notin raced) => rec[e].tag.owner = req[c].inst]_vars
    <2>1. ASSUME NEW c \in Call, NEW e \in Endpoint, <<c, e>> \in acted' \ acted,
                 req[c].op = "ensure", e \notin raced
          PROVE  rec[e].tag.owner = req[c].inst
      <3>1. CallOK(c)
        BY <1>1 DEF IInv
      <3>2. Act(c, e)
        BY <1>1, Acts
      <3>3. ~Delete(c)
        BY <2>1, <3>1 DEF Delete, CallOK
      <3>4. Update(c) /\ e = target[c]
        BY <2>1, <3>2, <3>3 DEF Act
      <3>. QED  BY <2>1, <3>1, <3>4 DEF Update, CallOK, Proven
    <2>. QED  BY <2>1
  <1>. QED  BY <1>1, Invariant, PTL DEF Spec, OnlyOwnersUpdate

(* A call of an instance bound to an account creates, changes and deletes  *)
(* endpoints of that account only.                                         *)
THEOREM Accounts == Spec => []StaysInAccount
  <1>1. ASSUME IInv PROVE StaysInAccount
    <2>1. ASSUME NEW c \in Call, Bound[req[c].inst] # Platform
          PROVE  Scope(req[c]) = Bound[req[c].inst]
      BY <2>1 DEF Scope
    <2>2. ASSUME NEW c \in Call, NEW e \in Endpoint, maker[e] = c
          PROVE  rec[e].account = Scope(req[c])
      BY <1>1, <2>2, EndpointsAssumption DEF IInv, MadeOK, Made
    <2>3. ASSUME NEW c \in Call, NEW e \in Endpoint, <<c, e>> \in acted
          PROVE  rec[e].account = Scope(req[c])
      BY <1>1, <2>3 DEF IInv, ActedOK
    <2>. QED  BY <2>1, <2>2, <2>3 DEF StaysInAccount
  <1>. QED  BY <1>1, Invariant, PTL

(* No step but an operator's changes the reserved metadata of an owned     *)
(* endpoint, but for those handed over while an update was on its way.     *)
THEOREM Ownership == Spec => OwnershipKept
  <1>1. ASSUME IInv, [Next]_vars
        PROVE  [\A e \in Endpoint :
                  (rec[e].tag.owner # Nobody /\ rec'[e].tag # rec[e].tag) =>
                     \/ e \in raced
                     \/ \E i \in Instance \union {Nobody}, k \in BOOLEAN :
                           Retag(e, i, k)]_vars
    <2>1. ASSUME NEW e \in Endpoint, rec[e].tag.owner # Nobody
          PROVE  \/ rec'[e].tag = rec[e].tag
                 \/ e \in raced
                 \/ \E i \in Instance \union {Nobody}, k \in BOOLEAN : Retag(e, i, k)
      <3>1. e \in born
        BY <1>1, <2>1 DEF IInv, MadeOK, NoTag
      <3>. QED  BY <1>1, <3>1, EndpointsKept DEF EndpointKept
    <2>. QED  BY <2>1
  <1>. QED  BY <1>1, Invariant, PTL DEF Spec, OwnershipKept
-----------------------------------------------------------------------------
(* The refinement of EndpointRegistry *)

(* What the registry needs of the operations beyond their invariant: only  *)
(* what exists is moved, and no generation passes the bound on them.       *)
Bounds ==
    /\ moved \subseteq born
    /\ \A i \in Instance : generation[i] \in 1..MaxGeneration
    /\ \A c \in Call : pc[c] # "idle" => gen[c] \in 1..MaxGeneration

(* What a step may change of what the bounds are about. *)
BoundsKept ==
    /\ born \subseteq born'
    /\ moved' \subseteq moved \union born
    /\ \A i \in Instance : generation'[i] # generation[i] =>
          generation[i] < MaxGeneration /\ generation'[i] = generation[i] + 1

(* Nothing moves but what exists, and generations are counted up to their  *)
(* bound.                                                                  *)
LEMMA StepBounds ==
    ASSUME IInv, [Next]_vars
    PROVE  BoundsKept
  <1>0. TypeOK
    BY DEF IInv
  <1>. USE <1>0
  <1>1. ASSUME NEW c \in Call, NEW q \in Requests, Begin(c, q)
        PROVE  BoundsKept
    BY <1>1 DEF Begin, BoundsKept, stripe, config
  <1>2. ASSUME NEW c \in Call, Preflight(c)
        PROVE  BoundsKept
    BY <1>2 DEF Preflight, BoundsKept, stripe, config
  <1>3. ASSUME NEW c \in Call, Fetch(c)
        PROVE  BoundsKept
    BY <1>3 DEF Fetch, BoundsKept, stripe, config
  <1>4. ASSUME NEW c \in Call, Lookup(c)
        PROVE  BoundsKept
    BY <1>4 DEF Lookup, BoundsKept, stripe, config
  <1>5. ASSUME NEW c \in Call, Observe(c)
        PROVE  BoundsKept
    BY <1>5 DEF Observe, BoundsKept, stripe, config
  <1>6. ASSUME NEW c \in Call, NEW e \in Endpoint, Create(c, e)
        PROVE  BoundsKept
    BY <1>6 DEF Create, BoundsKept, config
  <1>7. ASSUME NEW c \in Call, CreateReplayed(c)
        PROVE  BoundsKept
    BY <1>7 DEF CreateReplayed, BoundsKept, Replay, stripe, config
  <1>8. ASSUME NEW c \in Call, Update(c)
        PROVE  BoundsKept
    <2>1. target[c] \in born
      BY <1>8 DEF Update, IInv, CallOK
    <2>. QED  BY <1>8, <2>1 DEF Update, BoundsKept, config
  <1>9. ASSUME NEW c \in Call, UpdateReplayed(c)
        PROVE  BoundsKept
    BY <1>9 DEF UpdateReplayed, BoundsKept, Replay, stripe, config
  <1>10. ASSUME NEW c \in Call, Delete(c)
        PROVE  BoundsKept
    BY <1>10 DEF Delete, BoundsKept
  <1>11. ASSUME NEW c \in Call, Fail(c)
        PROVE  BoundsKept
    BY <1>11 DEF Fail, BoundsKept, stripe, config
  <1>12. ASSUME NEW e \in Endpoint, NEW u \in Url, DashboardMove(e, u)
        PROVE  BoundsKept
    BY <1>12 DEF DashboardMove, BoundsKept, config, TypeOK
  <1>13. ASSUME NEW e \in Endpoint, NEW u \in Url, NEW a \in Scopes, DashboardCreate(e, u, a)
        PROVE  BoundsKept
    BY <1>13 DEF DashboardCreate, BoundsKept, config, TypeOK
  <1>14. ASSUME NEW e \in Endpoint, NEW i \in Instance \union {Nobody},
                 NEW k \in BOOLEAN, Retag(e, i, k)
        PROVE  BoundsKept
    BY <1>14 DEF Retag, BoundsKept, config, TypeOK
  <1>15. ASSUME NEW e \in Endpoint, NEW f \in Field, NEW v \in Value, DashboardEdit(e, f, v)
        PROVE  BoundsKept
    BY <1>15 DEF DashboardEdit, BoundsKept, config, TypeOK
  <1>16. ASSUME NEW e \in Endpoint, DashboardDelete(e)
        PROVE  BoundsKept
    BY <1>16 DEF DashboardDelete, BoundsKept
  <1>17. ASSUME NEW i \in Instance, Rotate(i)
        PROVE  BoundsKept
    BY <1>17 DEF Rotate, BoundsKept, stripe, TypeOK
  <1>18. ASSUME NEW s \in saved, Forget(s)
        PROVE  BoundsKept
    BY <1>18 DEF Forget, BoundsKept, config, TypeOK
  <1>19. CASE UNCHANGED vars
    BY <1>19 DEF vars, BoundsKept
  <1>. QED
    BY <1>1, <1>2, <1>3, <1>4, <1>5, <1>6, <1>7, <1>8, <1>9, <1>10,
       <1>11, <1>12, <1>13, <1>14, <1>15, <1>16, <1>17, <1>18, <1>19
       DEF Next, Step, Others

(* The bounds hold at first, and every step keeps them. *)
LEMMA BoundsInit == Init => Bounds
  BY EndpointsAssumption DEF Init, Bounds

LEMMA BoundsStep == IInv /\ Bounds /\ [Next]_vars => Bounds'
  <1>. SUFFICES ASSUME IInv, Bounds, [Next]_vars PROVE Bounds'
    OBVIOUS
  <1>0. TypeOK /\ TypeOK' /\ BoundsKept
    BY TypeStep, StepBounds DEF IInv
  <1>1. moved' \subseteq born'
    BY <1>0 DEF Bounds, BoundsKept
  <1>2. ASSUME NEW i \in Instance
        PROVE  generation'[i] \in 1..MaxGeneration
    <2>1. generation[i] \in 1..MaxGeneration /\ MaxGeneration \in Nat
      BY EndpointsAssumption DEF Bounds
    <2>2. \/ generation'[i] = generation[i]
          \/ generation[i] < MaxGeneration /\ generation'[i] = generation[i] + 1
      BY <1>0 DEF BoundsKept
    <2>. QED  BY <2>1, <2>2
  <1>3. ASSUME NEW c \in Call, pc'[c] # "idle"
        PROVE  gen'[c] \in 1..MaxGeneration
    <2>1. CASE pc[c] # "idle"
      BY <2>1, CallsKept DEF CallKept, Bounds
    <2>2. CASE pc[c] = "idle"
      <3>1. PICK q \in Requests : Begin(c, q)
        BY <1>3, <2>2, CallsKept DEF CallKept
      <3>2. gen'[c] = generation[q.inst] /\ q.inst \in Instance
        BY <1>0, <3>1, RequestTyped DEF Begin, GenerationOf, TypeOK, Request
      <3>. QED  BY <3>2 DEF Bounds
    <2>. QED  BY <2>1, <2>2
  <1>. QED  BY <1>1, <1>2, <1>3 DEF Bounds

(* The registry's state, as the operations hold it. *)
Wishes == {<<<<q.url, q.connect, Scope(q), n>>, q.inst, Filled(q.want)>> :
             q \in Requests, n \in 1..MaxGeneration}
WishOf == [c \in Call |-> IF pc[c] = "idle" THEN <<>> ELSE Intent(c)]
PlaceOf == [e \in Endpoint |-> Place(e)]
PurposeOf == [e \in Endpoint |->
                IF maker[e] = Outside THEN <<>> ELSE Intent(maker[e])]
OwnerNow == [e \in Endpoint |-> rec[e].tag.owner]
SecretOf == [c \in Call |-> IF result[c].kind = "provisioned"
                            THEN result[c].id ELSE NoEndpoint]
ChangedBy == {x \in acted : req[x[1]].op = "ensure"}

(* The intent of a call is a wish, and says which attempt it is and whose. *)
LEMMA IntentIs ==
    ASSUME NEW c
    PROVE  /\ Intent(c) # <<>>
           /\ Registry!AttemptOf(Intent(c)) = Attempt(c)
           /\ Registry!OwnerOf(Intent(c)) = req[c].inst
  BY DEF Intent, Registry!AttemptOf, Registry!OwnerOf

(* A call keeps its wish, and an endpoint what it was made for. *)
LEMMA WishKept ==
    ASSUME IInv, [Next]_vars, NEW c \in Call, pc[c] # "idle" \/ pc'[c] = "idle"
    PROVE  WishOf'[c] = WishOf[c]
  <1>1. CASE pc[c] = "idle"
    BY <1>1 DEF WishOf
  <1>2. CASE pc[c] # "idle"
    <2>1. Intent(c)' = Intent(c) /\ pc'[c] # "idle"
      BY <1>2, IntentKept, CallsKept DEF CallKept
    <2>2. WishOf'[c] = Intent(c)'
      BY <2>1 DEF WishOf
    <2>. QED  BY <1>2, <2>1, <2>2 DEF WishOf
  <1>. QED  BY <1>1, <1>2

LEMMA PurposeKept ==
    ASSUME IInv, [Next]_vars, NEW e \in Endpoint, maker'[e] = maker[e]
    PROVE  PurposeOf'[e] = PurposeOf[e]
  <1>1. CASE maker[e] = Outside
    BY <1>1 DEF PurposeOf
  <1>2. CASE maker[e] # Outside
    <2>. PICK m \in Call : m = maker[e] /\ pc[m] # "idle"
      BY <1>2 DEF IInv, TypeOK, MadeOK, Made
    <2>1. Intent(m)' = Intent(m)
      BY IntentKept
    <2>2. Intent(maker[e])' = Intent(m)'
      BY DEF Intent, Attempt
    <2>3. PurposeOf'[e] = Intent(maker[e])'
      BY <1>2 DEF PurposeOf
    <2>. QED  BY <1>2, <2>1, <2>2, <2>3 DEF PurposeOf
  <1>. QED  BY <1>1, <1>2

(* What was changed by whom stays so. *)
LEMMA ChangedKept ==
    ASSUME IInv, [Next]_vars
    PROVE  \A x \in acted : x[1] \in Call /\ req'[x[1]] = req[x[1]]
  <1>. SUFFICES ASSUME NEW x \in acted
                PROVE  x[1] \in Call /\ req'[x[1]] = req[x[1]]
    OBVIOUS
  <1>. PICK c \in Call, e \in Endpoint : x = <<c, e>>
    BY DEF IInv, TypeOK
  <1>1. pc[c] # "idle"
    BY DEF IInv, ActedOK
  <1>. QED  BY <1>1, CallsKept DEF CallKept

(* A step that begins no call, provisions for none, and leaves alone which *)
(* endpoints exist, where, whose they are and who changed them, is none of *)
(* the registry's.                                                         *)
Silent ==
    /\ UNCHANGED <<born, live, moved, maker, acted, raced>>
    /\ \A e \in Endpoint : rec'[e].tag.owner = rec[e].tag.owner
    /\ \A c \in Call : pc[c] = "idle" => pc'[c] = "idle"
    /\ \A c \in Call : result'[c] = result[c]
                        \/ (result[c].kind = "none" /\ result'[c].kind # "provisioned")

LEMMA SilentStep ==
    ASSUME IInv, [Next]_vars, Silent
    PROVE  UNCHANGED <<WishOf, PlaceOf, PurposeOf, OwnerNow, SecretOf, ChangedBy, raced>>
  <1>1. WishOf' = WishOf
    <2>1. \A c \in Call : WishOf'[c] = WishOf[c]
      BY WishKept DEF Silent
    <2>2. /\ WishOf = [c \in Call |-> WishOf[c]]
          /\ WishOf' = [c \in Call |-> WishOf'[c]]
      BY DEF WishOf
    <2>. QED  BY <2>1, <2>2
  <1>2. PlaceOf' = PlaceOf
    BY DEF PlaceOf, Place, Silent
  <1>3. PurposeOf' = PurposeOf
    <2>1. \A e \in Endpoint : PurposeOf'[e] = PurposeOf[e]
      BY PurposeKept DEF Silent
    <2>2. /\ PurposeOf = [e \in Endpoint |-> PurposeOf[e]]
          /\ PurposeOf' = [e \in Endpoint |-> PurposeOf'[e]]
      BY DEF PurposeOf
    <2>. QED  BY <2>1, <2>2
  <1>4. OwnerNow' = OwnerNow
    BY DEF OwnerNow, Silent
  <1>5. SecretOf' = SecretOf
    BY DEF SecretOf, Silent
  <1>6. ChangedBy' = ChangedBy
    BY ChangedKept DEF ChangedBy, Silent
  <1>7. raced' = raced
    BY DEF Silent
  <1>. QED  BY <1>1, <1>2, <1>3, <1>4, <1>5, <1>6, <1>7

(* Such a step is a stuttering step of the registry. *)
LEMMA SilentIsStutter ==
    ASSUME IInv, [Next]_vars, Silent
    PROVE  [Registry!Next]_(Registry!vars)
  <1>1. UNCHANGED <<WishOf, PlaceOf, PurposeOf, OwnerNow, SecretOf, ChangedBy, raced>>
    BY SilentStep
  <1>. QED  BY <1>1 DEF Registry!vars, WishOf, PlaceOf, PurposeOf, OwnerNow, SecretOf, ChangedBy

(* The initial states are those of the registry. *)
LEMMA RegistryInit == Init => Registry!Init
  BY DEF Init, Registry!Init, Place, Blank, NoTag

(* A call that begins asks for something. *)
LEMMA AskStep ==
    ASSUME IInv, Bounds, [Next]_vars, NEW c \in Call, NEW q \in Requests, Begin(c, q)
    PROVE  [Registry!Next]_(Registry!vars)
  <1>0. TypeOK /\ TypeOK' /\ Bounds'
    BY TypeStep, BoundsStep DEF IInv
  <1>1. /\ pc[c] = "idle" /\ pc'[c] # "idle"
        /\ \A d \in Call \ {c} : pc'[d] = pc[d]
        /\ req'[c] = q
        /\ UNCHANGED <<born, live, moved, maker, acted, raced, rec>>
    <2>1. First(q) \in Waiting
      BY RequestTyped DEF First, Waiting, Request
    <2>. QED  BY <1>0, <2>1 DEF Begin, Finish, TypeOK, stripe, Waiting
  <1>2. \A d \in Call : result'[d] = result[d]
                        \/ (result[d].kind = "none" /\ result'[d].kind # "provisioned")
    BY <1>0, <1>1 DEF Begin, Finish, TypeOK, IInv, CallOK
  <1>3. WishOf[c] = <<>> /\ WishOf' = [WishOf EXCEPT ![c] = Intent(c)']
    <2>1. \A d \in Call \ {c} : WishOf'[d] = WishOf[d]
      BY <1>1, WishKept
    <2>2. WishOf'[c] = Intent(c)'
      BY <1>1 DEF WishOf
    <2>3. /\ WishOf = [d \in Call |-> WishOf[d]]
          /\ WishOf' = [d \in Call |-> WishOf'[d]]
      BY DEF WishOf
    <2>4. WishOf[c] = <<>>
      BY <1>1 DEF WishOf
    <2>. QED  BY <2>1, <2>2, <2>3, <2>4
  <1>4. PICK i \in Wishes : i = Intent(c)'
    <2>1. gen'[c] \in 1..MaxGeneration
      BY <1>0, <1>1 DEF Bounds
    <2>2. Intent(c)' = <<<<q.url, q.connect, Scope(q), gen'[c]>>, q.inst, Filled(q.want)>>
      BY <1>1 DEF Intent, Attempt, Scope, Filled
    <2>. QED  BY <2>1, <2>2 DEF Wishes
  <1>5. UNCHANGED <<PlaceOf, OwnerNow>>
    BY <1>1 DEF PlaceOf, Place, OwnerNow
  <1>6. PurposeOf' = PurposeOf
    <2>1. \A e \in Endpoint : PurposeOf'[e] = PurposeOf[e]
      BY <1>1, PurposeKept
    <2>2. /\ PurposeOf = [e \in Endpoint |-> PurposeOf[e]]
          /\ PurposeOf' = [e \in Endpoint |-> PurposeOf'[e]]
      BY DEF PurposeOf
    <2>. QED  BY <2>1, <2>2
  <1>7. SecretOf' = SecretOf
    BY <1>2 DEF SecretOf
  <1>8. ChangedBy' = ChangedBy
    BY <1>1, ChangedKept DEF ChangedBy
  <1>9. Registry!Ask(c, i)
    BY <1>1, <1>3, <1>4, <1>5, <1>6, <1>7, <1>8
       DEF Registry!Ask, WishOf, PlaceOf, PurposeOf, OwnerNow, SecretOf, ChangedBy
  <1>. QED  BY <1>9 DEF Registry!Next, Wishes

(* A creation makes one endpoint, no other of its attempt standing. *)
LEMMA MakeStep ==
    ASSUME IInv, Bounds, [Next]_vars, NEW c \in Call, NEW e \in Endpoint, Create(c, e)
    PROVE  [Registry!Next]_(Registry!vars)
  <1>0. TypeOK /\ TypeOK' /\ CallOK(c)
    BY TypeStep DEF IInv
  <1>1. /\ pc[c] = "create" /\ e \notin born
        /\ born' = born \union {e} /\ live' = live \union {e} /\ moved' = moved
        /\ maker' = [maker EXCEPT ![e] = c] /\ acted' = acted /\ raced' = raced
        /\ rec'[e].tag.owner = req[c].inst
        /\ \A d \in Endpoint \ {e} : rec'[d] = rec[d]
        /\ \A d \in Call : pc[d] = "idle" => pc'[d] = "idle"
    <2>1. /\ pc[c] = "create" /\ e \notin born
          /\ born' = born \union {e} /\ live' = live \union {e} /\ moved' = moved
          /\ maker' = [maker EXCEPT ![e] = c] /\ acted' = acted /\ raced' = raced
          /\ rec' = [rec EXCEPT ![e] =
                       [account |-> CreateParams(c).account, url |-> CreateParams(c).url,
                        set |-> CreateParams(c).set, tag |-> CreateParams(c).tag]]
          /\ Answer(c, "provisioned", e)
      BY DEF Create
    <2>2. CreateParams(c).tag.owner = req[c].inst
      BY DEF CreateParams, OwnerOf
    <2>3. \A d \in Call : pc[d] = "idle" => pc'[d] = "idle"
      BY <1>0, <2>1 DEF Answer, Finish, TypeOK
    <2>4. /\ rec'[e].tag.owner = req[c].inst
          /\ \A d \in Endpoint \ {e} : rec'[d] = rec[d]
      BY <1>0, <2>1, <2>2 DEF TypeOK
    <2>. QED  BY <2>1, <2>3, <2>4
  <1>2. WishOf[c] = Intent(c) /\ SecretOf[c] = NoEndpoint /\ PlaceOf[e] = "unborn"
    <2>1. WishOf[c] = Intent(c)
      BY <1>1 DEF WishOf
    <2>2. SecretOf[c] = NoEndpoint
      BY <1>0, <1>1 DEF SecretOf, CallOK
    <2>3. PlaceOf[e] = "unborn"
      BY <1>0, <1>1 DEF PlaceOf, Place, TypeOK
    <2>. QED  BY <2>1, <2>2, <2>3
  <1>3. ASSUME NEW d \in Endpoint, PlaceOf[d] = "standing", PurposeOf[d] # <<>>
        PROVE  Registry!AttemptOf(PurposeOf[d]) # Registry!AttemptOf(WishOf[c])
    <2>1. d \in live \ moved /\ Made(d)
      BY <1>0, <1>3 DEF PlaceOf, Place, PurposeOf, Made, TypeOK
    <2>2. PurposeOf[d] = Intent(maker[d])
      BY <2>1 DEF PurposeOf, Made
    <2>3. Attempt(maker[d]) # Attempt(c)
      BY <2>1, NoCopy
    <2>. QED  BY <1>2, <2>2, <2>3, IntentIs
  <1>4. WishOf' = WishOf
    <2>1. \A d \in Call : WishOf'[d] = WishOf[d]
      BY <1>1, WishKept
    <2>2. /\ WishOf = [d \in Call |-> WishOf[d]]
          /\ WishOf' = [d \in Call |-> WishOf'[d]]
      BY DEF WishOf
    <2>. QED  BY <2>1, <2>2
  <1>5. PlaceOf' = [PlaceOf EXCEPT ![e] = "standing"]
    <2>1. e \notin moved
      BY <1>1 DEF Bounds
    <2>. QED  BY <1>0, <1>1, <2>1 DEF PlaceOf, Place, TypeOK
  <1>6. PurposeOf' = [PurposeOf EXCEPT ![e] = WishOf[c]]
    <2>1. \A d \in Endpoint \ {e} : PurposeOf'[d] = PurposeOf[d]
      BY <1>0, <1>1, PurposeKept DEF TypeOK
    <2>2. PurposeOf'[e] = Intent(c)
      <3>1. maker'[e] = c /\ c # Outside
        BY <1>0, <1>1, EndpointsAssumption DEF TypeOK
      <3>2. PurposeOf'[e] = Intent(maker[e])'
        BY <3>1 DEF PurposeOf
      <3>3. Intent(maker[e])' = Intent(c)'
        BY <3>1 DEF Intent, Attempt
      <3>. QED  BY <1>1, <3>2, <3>3, IntentKept
    <2>3. /\ PurposeOf = [d \in Endpoint |-> PurposeOf[d]]
          /\ PurposeOf' = [d \in Endpoint |-> PurposeOf'[d]]
      BY DEF PurposeOf
    <2>. QED  BY <1>2, <2>1, <2>2, <2>3
  <1>7. OwnerNow' = [OwnerNow EXCEPT ![e] = Registry!OwnerOf(WishOf[c])]
    BY <1>1, <1>2, IntentIs DEF OwnerNow
  <1>8. SecretOf' \in {SecretOf, [SecretOf EXCEPT ![c] = e]}
    <2>1. CASE result' = result
      BY <2>1 DEF SecretOf
    <2>2. CASE result' = [result EXCEPT ![c] = [kind |-> "provisioned", id |-> e]]
      <3>1. \A d \in Call \ {c} : SecretOf'[d] = SecretOf[d]
        BY <1>0, <2>2 DEF SecretOf, TypeOK
      <3>2. SecretOf'[c] = e
        BY <1>0, <2>2 DEF SecretOf, TypeOK
      <3>3. /\ SecretOf = [d \in Call |-> SecretOf[d]]
            /\ SecretOf' = [d \in Call |-> SecretOf'[d]]
        BY DEF SecretOf
      <3>. QED  BY <3>1, <3>2, <3>3
    <2>. QED  BY <2>1, <2>2 DEF Create, Answer, Finish
  <1>9. ChangedBy' = ChangedBy
    BY <1>1, ChangedKept DEF ChangedBy
  <1>10. WishOf[c] # <<>>
    BY <1>2, IntentIs
  <1>11. Registry!Make(c, e)
    <2>1. \A d \in Registry!Standing : PurposeOf[d] # <<>> =>
             Registry!AttemptOf(PurposeOf[d]) # Registry!AttemptOf(WishOf[c])
      BY <1>3 DEF Registry!Standing, PlaceOf
    <2>. HIDE DEF Registry!Standing, Registry!AttemptOf, Registry!OwnerOf
    <2>. QED
      BY <1>1, <1>2, <1>4, <1>5, <1>6, <1>7, <1>8, <1>9, <1>10, <2>1
         DEF Registry!Make, WishOf, PlaceOf, PurposeOf, OwnerNow, SecretOf, ChangedBy
  <1>. QED  BY <1>11 DEF Registry!Next

(* A step of the dashboard or of a call under way leaves wishes and        *)
(* purposes as they are.                                                   *)
LEMMA WishesKept ==
    ASSUME IInv, [Next]_vars, \A e \in Endpoint : maker'[e] = maker[e],
           \A d \in Call : pc[d] = "idle" => pc'[d] = "idle"
    PROVE  WishOf' = WishOf /\ PurposeOf' = PurposeOf
  <1>1. \A d \in Call : WishOf'[d] = WishOf[d]
    BY WishKept
  <1>2. /\ WishOf = [d \in Call |-> WishOf[d]]
        /\ WishOf' = [d \in Call |-> WishOf'[d]]
    BY DEF WishOf
  <1>3. \A e \in Endpoint : PurposeOf'[e] = PurposeOf[e]
    BY PurposeKept
  <1>4. /\ PurposeOf = [e \in Endpoint |-> PurposeOf[e]]
        /\ PurposeOf' = [e \in Endpoint |-> PurposeOf'[e]]
    BY DEF PurposeOf
  <1>. QED  BY <1>1, <1>2, <1>3, <1>4

(* A replayed creation gives the secret to a call of the same intent, or   *)
(* refuses it.                                                             *)
LEMMA GiveStep ==
    ASSUME IInv, [Next]_vars, NEW c \in Call, CreateReplayed(c)
    PROVE  [Registry!Next]_(Registry!vars)
  <1>0. TypeOK /\ CallOK(c)
    BY DEF IInv
  <1>1. /\ pc[c] = "create"
        /\ UNCHANGED <<born, live, moved, maker, acted, raced, rec>>
        /\ \A d \in Call : pc[d] = "idle" => pc'[d] = "idle"
        /\ \A d \in Call \ {c} : result'[d] = result[d]
    BY <1>0 DEF CreateReplayed, Replay, Finish, stripe, TypeOK
  <1>2. PICK e \in born :
              /\ Made(e)
              /\ \/ /\ Intent(maker[e]) = Intent(c)
                    /\ result'[c].kind = "provisioned" /\ result'[c].id = e
                 \/ result'[c].kind = "conflict"
    BY CreateReplayedOK
  <1>3. result[c].kind = "none"
    BY <1>0, <1>1 DEF CallOK
  <1>4. CASE result'[c].kind = "conflict"
    <2>1. Silent
      BY <1>1, <1>3, <1>4 DEF Silent
    <2>. QED  BY <2>1, SilentIsStutter
  <1>5. CASE /\ Intent(maker[e]) = Intent(c)
             /\ result'[c].kind = "provisioned" /\ result'[c].id = e
    <2>1. WishOf' = WishOf /\ PurposeOf' = PurposeOf
      BY <1>1, WishesKept
    <2>2. WishOf[c] = Intent(c) /\ SecretOf[c] = NoEndpoint
      BY <1>1, <1>3 DEF WishOf, SecretOf
    <2>3. e \in Endpoint /\ PurposeOf[e] = WishOf[c] /\ WishOf[c] # <<>>
      <3>1. e \in Endpoint
        BY <1>0 DEF TypeOK
      <3>2. PurposeOf[e] = Intent(maker[e])
        BY <1>2, <3>1 DEF PurposeOf, Made
      <3>. QED  BY <1>5, <2>2, <3>1, <3>2, IntentIs
    <2>4. SecretOf' = [SecretOf EXCEPT ![c] = e]
      <3>1. \A d \in Call \ {c} : SecretOf'[d] = SecretOf[d]
        BY <1>1 DEF SecretOf
      <3>2. SecretOf'[c] = e
        BY <1>5 DEF SecretOf
      <3>3. /\ SecretOf = [d \in Call |-> SecretOf[d]]
            /\ SecretOf' = [d \in Call |-> SecretOf'[d]]
        BY DEF SecretOf
      <3>. QED  BY <3>1, <3>2, <3>3
    <2>5. PlaceOf' = PlaceOf /\ OwnerNow' = OwnerNow
      BY <1>1 DEF PlaceOf, Place, OwnerNow
    <2>6. ChangedBy' = ChangedBy
      BY <1>1, ChangedKept DEF ChangedBy
    <2>7. Registry!Give(c, e)
      BY <1>1, <2>1, <2>2, <2>3, <2>4, <2>5, <2>6 DEF Registry!Give, WishOf, PlaceOf, PurposeOf, OwnerNow, SecretOf, ChangedBy
    <2>. QED  BY <2>3, <2>7 DEF Registry!Next
  <1>. QED  BY <1>2, <1>4, <1>5

(* An update changes an endpoint of the call's own instance, or one that   *)
(* is contested and then it returns to the instance, and may move it; of   *)
(* one that is gone it changes nothing.                                    *)
LEMMA ChangeStep ==
    ASSUME IInv, [Next]_vars, NEW c \in Call, Update(c)
    PROVE  [Registry!Next]_(Registry!vars)
  <1>0. TypeOK /\ CallOK(c)
    BY DEF IInv
  <1>. PICK e \in Endpoint : e = target[c]
    <2>1. pc[c] = "update"
      BY DEF Update
    <2>. QED  BY <1>0, <2>1 DEF CallOK, TypeOK
  <1>1. /\ pc[c] = "update" /\ req[c].op = "ensure" /\ e \in Endpoint
        /\ snap[c].tag.owner = req[c].inst
        /\ e \notin raced => rec[e].tag.owner = req[c].inst
        /\ UNCHANGED <<born, live, maker, raced>>
        /\ \A d \in Call : pc[d] = "idle" => pc'[d] = "idle"
        /\ \A d \in Call : result'[d] = result[d]
                           \/ (result[d].kind = "none" /\ result'[d].kind # "provisioned")
    <2>1. pc[c] = "update"
      BY DEF Update
    <2>2. /\ e \in born /\ snap[c].tag.owner = req[c].inst
          /\ e \notin raced => snap[c].tag = rec[e].tag
      BY <1>0, <2>1 DEF CallOK, Proven
    <2>3. result[c].kind = "none"
      BY <1>0, <2>1 DEF CallOK
    <2>. QED
      BY <1>0, <2>1, <2>2, <2>3 DEF Update, Answer, Finish, CallOK, TypeOK
  <1>2. CASE e \notin live
    <2>1. UNCHANGED <<rec, moved, acted>>
      BY <1>2 DEF Update
    <2>2. Silent
      BY <1>1, <2>1 DEF Silent
    <2>. QED  BY <2>2, SilentIsStutter
  <1>3. CASE e \in live
    <2>1. /\ moved' \in {moved, moved \union {e}}
          /\ acted' = acted \union {<<c, e>>}
          /\ rec' = [rec EXCEPT ![e] = Updated(rec[e], UpdateParams(c))]
      BY <1>3 DEF Update
    <2>2. /\ \A d \in Endpoint \ {e} : rec'[d].tag.owner = rec[d].tag.owner
          /\ rec'[e].tag.owner \in {rec[e].tag.owner, req[c].inst}
      <3>1. Updated(rec[e], UpdateParams(c)).tag \in {rec[e].tag, snap[c].tag}
        BY DEF Updated, UpdateParams, SentTag
      <3>. QED  BY <1>0, <1>1, <2>1, <3>1 DEF TypeOK
    <2>3. WishOf' = WishOf /\ PurposeOf' = PurposeOf
      BY <1>1, WishesKept
    <2>4. WishOf[c] = Intent(c) /\ WishOf[c] # <<>>
      BY <1>1, IntentIs DEF WishOf
    <2>5. /\ Registry!OwnerOf(WishOf[c]) = req[c].inst
          /\ OwnerNow[e] = Registry!OwnerOf(WishOf[c]) \/ e \in raced
      BY <1>1, <2>4, IntentIs DEF OwnerNow
    <2>6. PlaceOf[e] \in {"standing", "moved"}
      BY <1>0, <1>1, <1>3 DEF PlaceOf, Place, TypeOK
    <2>7. PlaceOf' \in {PlaceOf, [PlaceOf EXCEPT ![e] = "moved"]}
      <3>1. CASE moved' = moved
        BY <1>1, <3>1 DEF PlaceOf, Place
      <3>2. CASE moved' = moved \union {e}
        BY <1>0, <1>1, <1>3, <3>2 DEF PlaceOf, Place, TypeOK
      <3>. QED  BY <2>1, <3>1, <3>2
    <2>8. /\ OwnerNow' \in {OwnerNow, [OwnerNow EXCEPT ![e] = req[c].inst]}
          /\ SecretOf' = SecretOf
      <3>1. SecretOf' = SecretOf
        BY <1>1 DEF SecretOf
      <3>2. CASE rec'[e].tag.owner = rec[e].tag.owner
        <4>1. \A d \in Endpoint : rec'[d].tag.owner = rec[d].tag.owner
          BY <2>2, <3>2
        <4>2. OwnerNow' = OwnerNow
          BY <4>1 DEF OwnerNow
        <4>. QED  BY <3>1, <4>2
      <3>3. CASE rec'[e].tag.owner = req[c].inst
        <4>1. \A d \in Endpoint : rec'[d].tag.owner =
                                      IF d = e THEN req[c].inst ELSE rec[d].tag.owner
          BY <2>2, <3>3
        <4>2. /\ OwnerNow = [d \in Endpoint |-> rec[d].tag.owner]
              /\ OwnerNow' = [d \in Endpoint |-> rec'[d].tag.owner]
          BY DEF OwnerNow
        <4>3. OwnerNow' = [OwnerNow EXCEPT ![e] = req[c].inst]
          BY <4>1, <4>2
        <4>. QED  BY <3>1, <4>3
      <3>. QED  BY <2>2, <3>1, <3>2, <3>3
    <2>9. ChangedBy' = ChangedBy \union {<<c, e>>}
      <3>1. req'[c] = req[c]
        BY <1>1, CallsKept DEF CallKept
      <3>. QED  BY <1>1, <2>1, <3>1, ChangedKept DEF ChangedBy
    <2>10. Registry!Change(c, e)
      <3>1. e \in Registry!There
        BY <1>1, <2>6 DEF Registry!There, PlaceOf
      <3>. HIDE DEF Registry!There, Registry!OwnerOf
      <3>. QED
        BY <1>1, <2>3, <2>4, <2>5, <2>7, <2>8, <2>9, <3>1
           DEF Registry!Change, WishOf, PlaceOf, PurposeOf, OwnerNow, SecretOf, ChangedBy
    <2>. QED  BY <2>10 DEF Registry!Next
  <1>. QED  BY <1>2, <1>3

(* A deletion, by a call or at the dashboard, removes one endpoint.        *)
LEMMA RemoveStep ==
    ASSUME IInv, [Next]_vars, NEW e \in live, live' = live \ {e},
           UNCHANGED <<born, moved, maker, rec, raced>>,
           acted' = acted \/ \E c \in Call : /\ acted' = acted \union {<<c, e>>}
                                            /\ pc[c] = "delete",
           \A d \in Call : pc[d] = "idle" => pc'[d] = "idle",
           \A d \in Call : result'[d] = result[d]
                           \/ (result[d].kind = "none" /\ result'[d].kind # "provisioned")
    PROVE  [Registry!Next]_(Registry!vars)
  <1>0. TypeOK /\ e \in Endpoint
    BY DEF IInv, TypeOK
  <1>1. WishOf' = WishOf /\ PurposeOf' = PurposeOf
    BY WishesKept
  <1>2. OwnerNow' = OwnerNow /\ SecretOf' = SecretOf
    BY DEF OwnerNow, SecretOf
  <1>3. ChangedBy' = ChangedBy
    <2>1. CASE acted' = acted
      BY <2>1, ChangedKept DEF ChangedBy
    <2>2. ASSUME NEW c \in Call, acted' = acted \union {<<c, e>>}, pc[c] = "delete"
          PROVE  ChangedBy' = ChangedBy
      <3>1. req'[c] = req[c] /\ req[c].op = "destroy"
        BY <2>2, CallsKept DEF CallKept, IInv, CallOK
      <3>. QED  BY <2>2, <3>1, ChangedKept DEF ChangedBy
    <2>. QED  BY <2>1, <2>2
  <1>4. /\ PlaceOf[e] \in {"standing", "moved"}
        /\ PlaceOf' = [PlaceOf EXCEPT ![e] = "gone"]
    BY <1>0 DEF PlaceOf, Place, TypeOK
  <1>5. Registry!Remove(e)
    BY <1>0, <1>1, <1>2, <1>3, <1>4 DEF Registry!Remove, Registry!There, WishOf, PlaceOf, PurposeOf, OwnerNow, SecretOf, ChangedBy
  <1>. QED  BY <1>0, <1>5 DEF Registry!Next

(* Every step of the operations is a step of the registry, or none.        *)
LEMMA RegistryStep == IInv /\ Bounds /\ [Next]_vars => [Registry!Next]_(Registry!vars)
  <1>. SUFFICES ASSUME IInv, Bounds, [Next]_vars
                PROVE  [Registry!Next]_(Registry!vars)
    OBVIOUS
  <1>0. TypeOK /\ \A c \in Call : CallOK(c)
    BY DEF IInv
  <1>1. ASSUME NEW c \in Call, NEW q \in Requests, Begin(c, q)
        PROVE  [Registry!Next]_(Registry!vars)
    BY <1>1, AskStep
  <1>2. ASSUME NEW c \in Call, Preflight(c)
        PROVE  [Registry!Next]_(Registry!vars)
    <2>1. Silent
      BY <1>0, <1>2 DEF Preflight, Silent, Finish, TypeOK, CallOK, stripe
    <2>. QED  BY <2>1, SilentIsStutter
  <1>3. ASSUME NEW c \in Call, Fetch(c)
        PROVE  [Registry!Next]_(Registry!vars)
    <2>1. Silent
      BY <1>0, <1>3 DEF Fetch, Silent, Judge, Finish, TypeOK, CallOK, stripe
    <2>. QED  BY <2>1, SilentIsStutter
  <1>4. ASSUME NEW c \in Call, Lookup(c)
        PROVE  [Registry!Next]_(Registry!vars)
    <2>1. Silent
      BY <1>0, <1>4 DEF Lookup, Silent, Judge, Finish, TypeOK, CallOK, stripe
    <2>. QED  BY <2>1, SilentIsStutter
  <1>5. ASSUME NEW c \in Call, Observe(c)
        PROVE  [Registry!Next]_(Registry!vars)
    <2>1. Silent
      BY <1>0, <1>5 DEF Observe, Silent, Finish, TypeOK, CallOK, stripe
    <2>. QED  BY <2>1, SilentIsStutter
  <1>6. ASSUME NEW c \in Call, NEW e \in Endpoint, Create(c, e)
        PROVE  [Registry!Next]_(Registry!vars)
    BY <1>6, MakeStep
  <1>7. ASSUME NEW c \in Call, CreateReplayed(c)
        PROVE  [Registry!Next]_(Registry!vars)
    BY <1>7, GiveStep
  <1>8. ASSUME NEW c \in Call, Update(c)
        PROVE  [Registry!Next]_(Registry!vars)
    BY <1>8, ChangeStep
  <1>9. ASSUME NEW c \in Call, UpdateReplayed(c)
        PROVE  [Registry!Next]_(Registry!vars)
    <2>1. Silent
      BY <1>0, <1>9 DEF UpdateReplayed, Silent, Replay, Finish, TypeOK, CallOK, stripe
    <2>. QED  BY <2>1, SilentIsStutter
  <1>10. ASSUME NEW c \in Call, Delete(c)
         PROVE  [Registry!Next]_(Registry!vars)
    <2>1. /\ pc[c] = "delete"
          /\ UNCHANGED <<born, moved, maker, rec, raced>>
          /\ \A d \in Call : pc[d] = "idle" => pc'[d] = "idle"
          /\ \A d \in Call : result'[d] = result[d]
                \/ (result[d].kind = "none" /\ result'[d].kind # "provisioned")
      BY <1>0, <1>10 DEF Delete, Answer, Finish, TypeOK, CallOK
    <2>2. CASE /\ req[c].id \in Visible(req[c])
               /\ live' = live \ {req[c].id}
               /\ acted' = acted \union {<<c, req[c].id>>}
      <3>. PICK e \in live : e = req[c].id
        BY <2>2 DEF Visible
      <3>. QED  BY <2>1, <2>2, RemoveStep
    <2>3. CASE UNCHANGED <<live, acted>>
      <3>1. Silent
        BY <2>1, <2>3 DEF Silent
      <3>. QED  BY <3>1, SilentIsStutter
    <2>. QED  BY <1>10, <2>2, <2>3 DEF Delete
  <1>11. ASSUME NEW c \in Call, Fail(c)
        PROVE  [Registry!Next]_(Registry!vars)
    <2>1. Silent
      BY <1>0, <1>11 DEF Fail, Silent, Finish, TypeOK, CallOK, stripe, Waiting
    <2>. QED  BY <2>1, SilentIsStutter
  <1>12. ASSUME NEW e \in Endpoint, NEW u \in Url, DashboardMove(e, u)
         PROVE  [Registry!Next]_(Registry!vars)
    <2>1. WishOf' = WishOf /\ PurposeOf' = PurposeOf
      BY <1>12, WishesKept DEF DashboardMove
    <2>2. OwnerNow' = OwnerNow
      BY <1>0, <1>12 DEF DashboardMove, OwnerNow, TypeOK, Content
    <2>3. SecretOf' = SecretOf
      BY <1>12 DEF DashboardMove, SecretOf
    <2>4. ChangedBy' = ChangedBy
      BY <1>12, ChangedKept DEF DashboardMove, ChangedBy
    <2>5. /\ PlaceOf[e] \in {"standing", "moved"}
          /\ PlaceOf' = [PlaceOf EXCEPT ![e] = "moved"]
      BY <1>0, <1>12 DEF DashboardMove, PlaceOf, Place, TypeOK
    <2>6. Registry!Move(e)
      BY <1>12, <2>1, <2>2, <2>3, <2>4, <2>5
         DEF DashboardMove, Registry!Move, Registry!There, WishOf, PlaceOf, PurposeOf, OwnerNow, SecretOf, ChangedBy
    <2>. QED  BY <2>6 DEF Registry!Next
  <1>13. ASSUME NEW e \in Endpoint, NEW u \in Url, NEW a \in Scopes, DashboardCreate(e, u, a)
         PROVE  [Registry!Next]_(Registry!vars)
    <2>1. WishOf' = WishOf /\ PurposeOf' = PurposeOf
      BY <1>13, WishesKept DEF DashboardCreate
    <2>2. OwnerNow' = OwnerNow
      <3>1. rec[e].tag = NoTag /\ rec'[e].tag = NoTag
        BY <1>0, <1>13 DEF DashboardCreate, IInv, MadeOK, Blank, TypeOK
      <3>2. \A d \in Endpoint \ {e} : rec'[d] = rec[d]
        BY <1>0, <1>13 DEF DashboardCreate, TypeOK
      <3>. QED  BY <3>1, <3>2 DEF OwnerNow
    <2>3. SecretOf' = SecretOf
      BY <1>13 DEF DashboardCreate, SecretOf
    <2>4. ChangedBy' = ChangedBy
      BY <1>13, ChangedKept DEF DashboardCreate, ChangedBy
    <2>5. /\ PlaceOf[e] = "unborn"
          /\ PlaceOf' = [PlaceOf EXCEPT ![e] = "standing"]
      BY <1>0, <1>13 DEF DashboardCreate, PlaceOf, Place, TypeOK, Bounds
    <2>6. Registry!MakeByHand(e)
      BY <1>13, <2>1, <2>2, <2>3, <2>4, <2>5
         DEF DashboardCreate, Registry!MakeByHand, WishOf, PlaceOf, PurposeOf, OwnerNow, SecretOf, ChangedBy
    <2>. QED  BY <2>6 DEF Registry!Next
  <1>14. ASSUME NEW e \in Endpoint, NEW i \in Instance \union {Nobody},
                 NEW k \in BOOLEAN, Retag(e, i, k)
         PROVE  [Registry!Next]_(Registry!vars)
    <2>1. WishOf' = WishOf /\ PurposeOf' = PurposeOf
      BY <1>14, WishesKept DEF Retag
    <2>2. OwnerNow' = [OwnerNow EXCEPT ![e] = i]
      <3>1. rec'[e].tag.owner = i
        BY <1>0, <1>14 DEF Retag, Handover, NoTag, TypeOK, Content
      <3>2. \A d \in Endpoint \ {e} : rec'[d] = rec[d]
        BY <1>0, <1>14 DEF Retag, TypeOK
      <3>. QED  BY <3>1, <3>2 DEF OwnerNow
    <2>3. SecretOf' = SecretOf /\ raced' \in {raced, raced \union {e}}
      BY <1>14 DEF Retag, SecretOf
    <2>4. ChangedBy' = ChangedBy
      BY <1>14, ChangedKept DEF Retag, ChangedBy
    <2>5. PlaceOf[e] \in {"standing", "moved"} /\ PlaceOf' = PlaceOf
      BY <1>0, <1>14 DEF Retag, PlaceOf, Place, TypeOK
    <2>6. Registry!Tag(e, i)
      BY <2>1, <2>2, <2>3, <2>4, <2>5
         DEF Registry!Tag, Registry!There, WishOf, PlaceOf, PurposeOf, OwnerNow,
             SecretOf, ChangedBy
    <2>. QED  BY <2>6 DEF Registry!Next
  <1>15. ASSUME NEW e \in Endpoint, NEW f \in Field, NEW v \in Value, DashboardEdit(e, f, v)
         PROVE  [Registry!Next]_(Registry!vars)
    <2>1. Silent
      BY <1>0, <1>15 DEF DashboardEdit, Silent, TypeOK, Content
    <2>. QED  BY <2>1, SilentIsStutter
  <1>16. ASSUME NEW e \in Endpoint, DashboardDelete(e)
         PROVE  [Registry!Next]_(Registry!vars)
    BY <1>16, RemoveStep DEF DashboardDelete
  <1>17. ASSUME NEW i \in Instance, Rotate(i)
        PROVE  [Registry!Next]_(Registry!vars)
    <2>1. Silent
      BY <1>0, <1>17 DEF Rotate, Silent, stripe
    <2>. QED  BY <2>1, SilentIsStutter
  <1>18. ASSUME NEW s \in saved, Forget(s)
        PROVE  [Registry!Next]_(Registry!vars)
    <2>1. Silent
      BY <1>0, <1>18 DEF Forget, Silent, stripe
    <2>. QED  BY <2>1, SilentIsStutter
  <1>19. CASE UNCHANGED vars
    <2>1. Silent
      BY <1>19 DEF vars, Silent
    <2>. QED  BY <2>1, SilentIsStutter
  <1>. QED
    BY <1>1, <1>2, <1>3, <1>4, <1>5, <1>6, <1>7, <1>8, <1>9, <1>10,
       <1>11, <1>12, <1>13, <1>14, <1>15, <1>16, <1>17, <1>18, <1>19
       DEF Next, Step, Others

(* The operations keep the promise of EndpointRegistry, for any calls,     *)
(* instances, accounts and requests: one endpoint stands per attempt, its  *)
(* secret is given for that very wish, its owner alone changes it, and it  *)
(* never returns once it is gone.                                          *)
THEOREM RegistryRefinement == Spec => RegistryPromise
  <1>1. IInv /\ Bounds /\ [Next]_vars => (IInv /\ Bounds)'
    BY InvStep, BoundsStep
  <1>2. Init => IInv /\ Bounds
    BY InvInit, BoundsInit
  <1>. QED
    BY <1>1, <1>2, RegistryInit, RegistryStep, PTL
       DEF Spec, RegistryPromise, Registry!Spec

-----------------------------------------------------------------------------
(* What they keep with it. *)

Promised == INSTANCE EndpointRegistryProofs WITH
    Wish <- Wishes, NoWish <- <<>>, Owner <- Instance,
    wish <- WishOf, place <- PlaceOf, purpose <- PurposeOf, owner <- OwnerNow,
    secret <- SecretOf, changed <- ChangedBy, contested <- raced

(* It is the promise EndpointRegistryProofs is about. *)
LEMMA SamePromise == RegistryPromise => Promised!Spec
<1>1. Registry!Init <=> Promised!Init
  BY DEF Registry!Init, Promised!Init, WishOf, PlaceOf, PurposeOf, OwnerNow,
         SecretOf, ChangedBy
<1>2. Registry!Next <=> Promised!Next
  BY DEF Registry!Next, Promised!Next, Registry!Ask, Promised!Ask,
         Registry!Make, Promised!Make, Registry!Give, Promised!Give,
         Registry!Change, Promised!Change, Registry!Remove, Promised!Remove,
         Registry!MakeByHand, Promised!MakeByHand, Registry!Tag, Promised!Tag,
         Registry!Move, Promised!Move, Registry!Standing, Promised!Standing,
         Registry!There, Promised!There, Registry!AttemptOf, Promised!AttemptOf,
         Registry!OwnerOf, Promised!OwnerOf,
         Wishes, WishOf, PlaceOf, PurposeOf, OwnerNow, SecretOf, ChangedBy
<1>3. [Registry!Next]_(Registry!vars) <=> [Promised!Next]_(Promised!vars)
  BY <1>2 DEF Registry!vars, Promised!vars, WishOf, PlaceOf, PurposeOf, OwnerNow,
              SecretOf, ChangedBy
<1> QED
  BY <1>1, <1>3, PTL DEF RegistryPromise, Registry!Spec, Promised!Spec

(* The sentinels of the mapping are none of what they stand beside. *)
LEMMA ProperHere == Promised!Proper
<1>1. ASSUME NEW q \in Requests
      PROVE  q.inst \in Instance
  BY EndpointsAssumption DEF Request
<1>2. ASSUME NEW a, NEW b, NEW d PROVE <<a, b, d>> # <<>>
  OBVIOUS
<1> QED
  BY <1>1, <1>2, EndpointsAssumption DEF Promised!Proper, Promised!OwnerOf, Wishes

(* Hence, of any calls, instances, accounts and requests: of the endpoints *)
(* made for one attempt one stands, and a secret is with calls of the wish *)
(* its endpoint was made for.                                              *)
THEOREM RegistryKept ==
    Spec => [](Promised!OnePerAttempt /\ Promised!SecretsAtHome)
BY RegistryRefinement, SamePromise, ProperHere, Promised!RegistrySound, PTL

(* And an endpoint that is gone never comes back, keeps what it was made   *)
(* for, takes changes from its owner unless it is contested, and no call   *)
(* is given a second secret.                                               *)
THEOREM NothingComesBack == Spec => Promised!ForGood /\ Promised!ChangedByOwner
BY RegistryRefinement, SamePromise, ProperHere, Promised!NothingRevoked,
   Promised!OwnersChange, PTL
=============================================================================
