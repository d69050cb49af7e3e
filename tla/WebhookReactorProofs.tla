------------------------ MODULE WebhookReactorProofs ------------------------
(***************************************************************************)
(* Theorems about WebhookReactor for every number of requests, instances   *)
(* and events, every window and every bound.                               *)
(***************************************************************************)
EXTENDS WebhookReactor, FiniteSetTheorems, TLAPS

-----------------------------------------------------------------------------
(* Verdicts *)

(* The status codes a handler answers with. *)
LEMMA VerdictCodes ==
    ASSUME NEW d \in Delivery
    PROVE  Verdict(d) \in {200, 400, 404, 413}
  BY DEF Verdict

(* A delivery that passes the checks names a configured instance and is    *)
(* signed with its secret, so its key is one the map may hold.             *)
LEMMA VerdictAccepts ==
    ASSUME NEW d \in Delivery, Verdict(d) = 200
    PROVE  /\ d.path \in Instance
           /\ d.secret = SecretOf[d.path]
           /\ KeyOf(d) \in Key
  <1>1. d.path \in Instance /\ Authentic(d)
    BY ReactorAssumption DEF Verdict, Delivery
  <1>2. KeyOf(d) \in Key
    BY <1>1 DEF KeyOf, Key, Delivery
  <1>. QED  BY <1>1, <1>2 DEF Authentic

(* Two accepted deliveries have the same key when they carry the same event. *)
LEMMA SameKey ==
    ASSUME NEW d, NEW f
    PROVE  KeyOf(d) = KeyOf(f) <=> SameEvent(d, f)
  BY DEF KeyOf, SameEvent

-----------------------------------------------------------------------------
(* Type correctness *)

(* The initial state is of its types. *)
LEMMA TypeInit == Init => TypeOK
  BY ReactorAssumption DEF Init, TypeOK, Stage, Emission, Sweep, NoSweep,
     Counter, Absent, NoAnswer

(* A request carries a key of the dedup map. *)
LEMMA MsgTyped ==
    ASSUME TypeOK, NEW r \in Request
    PROVE  msg[r] \in Delivery
  BY ReactorAssumption DEF TypeOK

(* Counting keeps the type of the counters. *)
LEMMA BumpTyped ==
    ASSUME counters \in [Counter -> Nat], NEW c \in Counter
    PROVE  Bump(c) \in [Counter -> Nat]
  BY DEF Bump

(* A sweep that has read an entry is still a sweep. *)
LEMMA VisitedTyped ==
    ASSUME NEW s \in Sweep, NEW k \in Key, NEW at
    PROVE  Visited(s, k, at) \in Sweep
  BY DEF Visited, Sweep

(* Every step keeps every type. *)
LEMMA TypeStep == TypeOK /\ [Next]_vars => TypeOK'
  <1> SUFFICES ASSUME TypeOK, [Next]_vars
               PROVE  TypeOK'
    OBVIOUS
  <1> USE DEF TypeOK, process, history, Stage, Emission, Absent, NoAnswer
  <1>1. ASSUME NEW r \in Request, NEW d \in Deliveries, Receive(r, d)
        PROVE  TypeOK'
    BY <1>1 DEF Receive
  <1>2. ASSUME NEW r \in Request, Reject(r)
        PROVE  TypeOK'
    <2>1. Verdict(msg[r]) \in {200, 400, 404, 413}
      BY MsgTyped, VerdictCodes
    <2>2. counters' \in [Counter -> Nat]
      BY <1>2, BumpTyped DEF Reject, Counter
    <2>. QED  BY <1>2, <2>1, <2>2 DEF Reject
  <1>3. ASSUME NEW r \in Request, Suppress(r)
        PROVE  TypeOK'
    <2>1. counters' \in [Counter -> Nat]
      BY <1>3, BumpTyped DEF Suppress, Counter
    <2>. QED  BY <1>3, <2>1 DEF Suppress
  <1>4. ASSUME NEW r \in Request, Claim(r)
        PROVE  TypeOK'
    <2>1. dedup' \in [Key -> Nat \union {Absent}]
      BY <1>4 DEF Claim
    <2>. QED  BY <1>4, <2>1 DEF Claim
  <1>5. ASSUME NEW r \in Request, Acknowledge(r)
        PROVE  TypeOK'
    BY <1>5 DEF Acknowledge
  <1>6. ASSUME NEW r \in Request, Flush(r)
        PROVE  TypeOK'
    BY <1>6 DEF Flush
  <1>7. ASSUME NEW r \in Request, Publish(r)
        PROVE  TypeOK'
    BY <1>7 DEF Publish
  <1>8. ASSUME NEW r \in Request, EmitOk(r)
        PROVE  TypeOK'
    <2>1. counters' \in [Counter -> Nat]
      BY <1>8, BumpTyped DEF EmitOk, Counter
    <2>. QED  BY <1>8, <2>1 DEF EmitOk
  <1>9. ASSUME NEW r \in Request, EmitFail(r)
        PROVE  TypeOK'
    <2>1. counters' \in [Counter -> Nat]
      BY <1>9, BumpTyped DEF EmitFail, Counter
    <2>. QED  BY <1>9, <2>1 DEF EmitFail
  <1>10. ASSUME NEW r \in Request, SweepStart(r)
         PROVE  TypeOK'
    BY <1>10 DEF SweepStart, Sweep
  <1>11. ASSUME NEW r \in Request, NEW k \in Key, SweepVisit(r, k)
         PROVE  TypeOK'
    <2>1. Visited(sweep[r], k, dedup[k]) \in Sweep
      BY VisitedTyped
    <2>2. sweep' \in [Request -> Sweep]
      BY <1>11, <2>1 DEF SweepVisit
    <2>3. raced' \subseteq Nat \X Key
      <3>1. Visited(sweep[r], k, dedup[k]).doomed \subseteq Key
        BY <2>1 DEF Sweep
      <3>. QED  BY <1>11, <3>1 DEF SweepVisit
    <2>. QED  BY <1>11, <2>2, <2>3 DEF SweepVisit
  <1>12. ASSUME NEW r \in Request, NEW k \in Key, SweepDelete(r, k)
         PROVE  TypeOK'
    <2>1. sweep' \in [Request -> Sweep]
      BY <1>12 DEF SweepDelete, Sweep
    <2>. QED  BY <1>12, <2>1 DEF SweepDelete
  <1>13. CASE Tick
    BY <1>13 DEF Tick
  <1>14. CASE BeginShutdown
    BY <1>14 DEF BeginShutdown
  <1>15. ASSUME Die
         PROVE  TypeOK'
    BY <1>15 DEF Die, Sweep, NoSweep, Counter
  <1>16. CASE Restart
    BY <1>16 DEF Restart
  <1>17. CASE UNCHANGED vars
    BY <1>17 DEF vars
  <1>18. ASSUME NEW r \in Request, Count(r)
         PROVE  TypeOK'
    <2>1. counters' \in [Counter -> Nat]
      BY <1>18, BumpTyped DEF Count, Counter
    <2>2. sweep' \in [Request -> Sweep]
      BY <1>18 DEF Count, Sweep, NoSweep
    <2>. QED  BY <1>18, <2>1, <2>2 DEF Count
  <1>. QED
    BY <1>1, <1>2, <1>3, <1>4, <1>5, <1>6, <1>7, <1>8, <1>9, <1>10, <1>11,
       <1>12, <1>13, <1>14, <1>15, <1>16, <1>17,
       <1>18
       DEF Next, Handle, Emit, SweepStep, Exit, Crash

(* Every variable keeps its type. *)
THEOREM TypeCorrect == Spec => []TypeOK
  BY TypeInit, TypeStep, PTL DEF Spec

-----------------------------------------------------------------------------
(* The inductive invariant *)

(* The invariant holds at first. *)
LEMMA InvInit == Init => IInv
  <1> SUFFICES ASSUME Init
               PROVE  IInv
    OBVIOUS
  <1>1. TypeOK
    BY TypeInit
  <1>2. ASSUME NEW r \in Request
        PROVE  RequestOK(r)
    BY DEF Init, RequestOK, InFlight, Emitting
  <1>3. ASSUME NEW k \in Key
        PROVE  EntryOK(k)
    BY DEF Init, EntryOK
  <1>4. ASSUME NEW s \in Request
        PROVE  SweepOK(s)
    BY DEF Init, SweepOK, NoSweep
  <1>5. claimed = {} /\ AnsweredMeansClaimed
    BY DEF Init, AnsweredMeansClaimed, NoAnswer
  <1>. QED  BY <1>1, <1>2, <1>3, <1>4, <1>5 DEF IInv

(* A claim is never undone, nor what it claimed, when and in which run. *)
LEMMA ClaimsStay ==
    ASSUME TypeOK, \A r \in Request : RequestOK(r), [Next]_vars, NEW q \in claimed
    PROVE  /\ q \in claimed'
           /\ msg'[q] = msg[q]
           /\ bornIn'[q] = bornIn[q]
           /\ claimedAt'[q] = claimedAt[q]
  <1> DEFINE Stays == /\ q \in claimed'
                      /\ msg'[q] = msg[q]
                      /\ bornIn'[q] = bornIn[q]
                      /\ claimedAt'[q] = claimedAt[q]
  <1> USE DEF TypeOK, RequestOK, process, history
  <1>1. ASSUME NEW r \in Request, NEW d \in Deliveries, Receive(r, d)
        PROVE  Stays
    BY <1>1 DEF Receive
  <1>2. ASSUME NEW r \in Request, Reject(r)
        PROVE  Stays
    BY <1>2 DEF Reject
  <1>3. ASSUME NEW r \in Request, Suppress(r)
        PROVE  Stays
    BY <1>3 DEF Suppress
  <1>4. ASSUME NEW r \in Request, Claim(r)
        PROVE  Stays
    BY <1>4 DEF Claim
  <1>5. ASSUME NEW r \in Request, Acknowledge(r)
        PROVE  Stays
    BY <1>5 DEF Acknowledge
  <1>6. ASSUME NEW r \in Request, Flush(r)
        PROVE  Stays
    BY <1>6 DEF Flush
  <1>7. ASSUME NEW r \in Request, Publish(r)
        PROVE  Stays
    BY <1>7 DEF Publish
  <1>8. ASSUME NEW r \in Request, EmitOk(r)
        PROVE  Stays
    BY <1>8 DEF EmitOk
  <1>9. ASSUME NEW r \in Request, EmitFail(r)
        PROVE  Stays
    BY <1>9 DEF EmitFail
  <1>10. ASSUME NEW r \in Request, SweepStart(r)
        PROVE  Stays
    BY <1>10 DEF SweepStart
  <1>11. ASSUME NEW r \in Request, NEW k \in Key, SweepVisit(r, k)
        PROVE  Stays
    BY <1>11 DEF SweepVisit
  <1>12. ASSUME NEW r \in Request, NEW k \in Key, SweepDelete(r, k)
        PROVE  Stays
    BY <1>12 DEF SweepDelete
  <1>13. ASSUME Tick
        PROVE  Stays
    BY <1>13 DEF Tick
  <1>14. ASSUME BeginShutdown
        PROVE  Stays
    BY <1>14 DEF BeginShutdown
  <1>15. ASSUME Die
        PROVE  Stays
    BY <1>15 DEF Die
  <1>16. ASSUME Restart
        PROVE  Stays
    BY <1>16 DEF Restart
  <1>17. CASE UNCHANGED vars
    BY <1>17 DEF vars
  <1>18. ASSUME NEW r \in Request, Count(r)
        PROVE  Stays
    BY <1>18 DEF Count
  <1>. QED
    BY <1>1, <1>2, <1>3, <1>4, <1>5, <1>6, <1>7, <1>8, <1>9, <1>10,
       <1>11, <1>12, <1>13, <1>14, <1>15, <1>16, <1>17,
       <1>18
       DEF Next, Handle, Emit, SweepStep, Exit, Crash

(* What each request knows stays true. *)
LEMMA RequestStep ==
    ASSUME IInv, [Next]_vars, NEW q \in Request
    PROVE  RequestOK(q)'
  <1> USE DEF IInv, TypeOK, RequestOK, process, history, Stage, InFlight,
              Emission, Emitting, NoAnswer
  <1>1. ASSUME NEW r \in Request, NEW d \in Deliveries, Receive(r, d)
        PROVE  RequestOK(q)'
    BY <1>1 DEF Receive
  <1>2. ASSUME NEW r \in Request, Reject(r)
        PROVE  RequestOK(q)'
    BY <1>2 DEF Reject
  <1>3. ASSUME NEW r \in Request, Suppress(r)
        PROVE  RequestOK(q)'
    BY <1>3 DEF Suppress
  <1>4. ASSUME NEW r \in Request, Claim(r)
        PROVE  RequestOK(q)'
    BY <1>4 DEF Claim
  <1>5. ASSUME NEW r \in Request, Acknowledge(r)
        PROVE  RequestOK(q)'
    BY <1>5 DEF Acknowledge
  <1>6. ASSUME NEW r \in Request, Flush(r)
        PROVE  RequestOK(q)'
    BY <1>6 DEF Flush
  <1>7. ASSUME NEW r \in Request, Publish(r)
        PROVE  RequestOK(q)'
    BY <1>7 DEF Publish
  <1>8. ASSUME NEW r \in Request, EmitOk(r)
        PROVE  RequestOK(q)'
    BY <1>8 DEF EmitOk
  <1>9. ASSUME NEW r \in Request, EmitFail(r)
        PROVE  RequestOK(q)'
    BY <1>9 DEF EmitFail
  <1>10. ASSUME NEW r \in Request, SweepStart(r)
        PROVE  RequestOK(q)'
    BY <1>10 DEF SweepStart
  <1>11. ASSUME NEW r \in Request, NEW k \in Key, SweepVisit(r, k)
        PROVE  RequestOK(q)'
    BY <1>11 DEF SweepVisit
  <1>12. ASSUME NEW r \in Request, NEW k \in Key, SweepDelete(r, k)
        PROVE  RequestOK(q)'
    BY <1>12 DEF SweepDelete
  <1>13. ASSUME Tick
        PROVE  RequestOK(q)'
    BY <1>13 DEF Tick
  <1>14. ASSUME BeginShutdown
        PROVE  RequestOK(q)'
    BY <1>14 DEF BeginShutdown
  <1>15. ASSUME Die
        PROVE  RequestOK(q)'
    BY <1>15 DEF Die
  <1>16. ASSUME Restart
        PROVE  RequestOK(q)'
    BY <1>16 DEF Restart
  <1>17. CASE UNCHANGED vars
    BY <1>17 DEF vars
  <1>18. ASSUME NEW r \in Request, Count(r)
        PROVE  RequestOK(q)'
    BY <1>18 DEF Count
  <1>. QED
    BY <1>1, <1>2, <1>3, <1>4, <1>5, <1>6, <1>7, <1>8, <1>9, <1>10,
       <1>11, <1>12, <1>13, <1>14, <1>15, <1>16, <1>17,
       <1>18
       DEF Next, Handle, Emit, SweepStep, Exit, Crash

(* What the claims of this run were, they remain, until the process        *)
(* restarts.                                                               *)
LEMMA ClaimsNowGrow ==
    ASSUME IInv, [Next]_vars, run' = run, NEW k \in Key,
           NEW r \in ClaimsNow(k)
    PROVE  r \in ClaimsNow(k)' /\ claimedAt'[r] = claimedAt[r]
  BY ClaimsStay DEF IInv, ClaimsNow

(* Only the claim of a delivery adds an entry. *)
LEMMA EntryStep ==
    ASSUME IInv, [Next]_vars, NEW q \in Key
    PROVE  EntryOK(q)'
  <1> USE DEF IInv, TypeOK, process, history
  <1>0. ASSUME run' = run, status' # "down", clock' \in Nat, clock' >= clock,
               dedup'[q] \in {dedup[q], Absent}
        PROVE  EntryOK(q)'
    <2>1. EntryOK(q)
      OBVIOUS
    <2>2. ASSUME NEW r \in ClaimsNow(q), claimedAt[r] = dedup[q],
                 dedup'[q] # Absent
          PROVE  \E x \in ClaimsNow(q)' : claimedAt'[x] = dedup'[q]
      <3>1. r \in ClaimsNow(q)' /\ claimedAt'[r] = claimedAt[r]
        BY <1>0, ClaimsNowGrow
      <3>. QED  BY <1>0, <2>2, <3>1
    <2>3. dedup[q] \in Nat \union {Absent}
      OBVIOUS
    <2>. QED  BY <1>0, <2>1, <2>2, <2>3 DEF EntryOK, Absent
  <1>1. ASSUME NEW r \in Request, NEW d \in Deliveries, Receive(r, d)
        PROVE  EntryOK(q)'
    <2>1. CASE status = "down"
      BY <1>1, <2>1 DEF Receive, EntryOK, RequestOK, Absent
    <2>2. CASE status # "down"
      BY <1>0, <1>1, <2>2 DEF Receive
    <2>. QED  BY <2>1, <2>2
  <1>2. ASSUME NEW r \in Request, Reject(r)
        PROVE  EntryOK(q)'
    <2>1. CASE status = "down"
      BY <1>2, <2>1 DEF Reject, EntryOK, RequestOK, Absent
    <2>2. CASE status # "down"
      BY <1>0, <1>2, <2>2 DEF Reject
    <2>. QED  BY <2>1, <2>2
  <1>3. ASSUME NEW r \in Request, Suppress(r)
        PROVE  EntryOK(q)'
    <2>1. CASE status = "down"
      BY <1>3, <2>1 DEF Suppress, EntryOK, RequestOK, Absent
    <2>2. CASE status # "down"
      BY <1>0, <1>3, <2>2 DEF Suppress
    <2>. QED  BY <2>1, <2>2
  <1>4. ASSUME NEW r \in Request, Claim(r)
        PROVE  EntryOK(q)'
    <2>1. msg[r] \in Delivery /\ stage[r] \in InFlight
      BY <1>4, MsgTyped DEF Claim, InFlight
    <2>2. bornIn[r] = run /\ status # "down"
      BY <2>1 DEF RequestOK
    <2>3. CASE q = KeyOf(msg[r])
      <3>1. r \in ClaimsNow(q)' /\ claimedAt'[r] = clock /\ dedup'[q] = clock
        BY <1>4, <2>1, <2>2, <2>3 DEF Claim, ClaimsNow
      <3>. QED  BY <1>4, <2>2, <3>1 DEF Claim, EntryOK
    <2>4. CASE q # KeyOf(msg[r])
      BY <1>0, <1>4, <2>2, <2>4 DEF Claim
    <2>. QED  BY <2>3, <2>4
  <1>5. ASSUME NEW r \in Request, Acknowledge(r)
        PROVE  EntryOK(q)'
    <2>1. CASE status = "down"
      BY <1>5, <2>1 DEF Acknowledge, EntryOK, RequestOK, Absent
    <2>2. CASE status # "down"
      BY <1>0, <1>5, <2>2 DEF Acknowledge
    <2>. QED  BY <2>1, <2>2
  <1>6. ASSUME NEW r \in Request, Flush(r)
        PROVE  EntryOK(q)'
    <2>1. CASE status = "down"
      BY <1>6, <2>1 DEF Flush, EntryOK, RequestOK, Absent
    <2>2. CASE status # "down"
      BY <1>0, <1>6, <2>2 DEF Flush
    <2>. QED  BY <2>1, <2>2
  <1>7. ASSUME NEW r \in Request, Publish(r)
        PROVE  EntryOK(q)'
    <2>1. CASE status = "down"
      BY <1>7, <2>1 DEF Publish, EntryOK, RequestOK, Absent
    <2>2. CASE status # "down"
      BY <1>0, <1>7, <2>2 DEF Publish
    <2>. QED  BY <2>1, <2>2
  <1>8. ASSUME NEW r \in Request, EmitOk(r)
        PROVE  EntryOK(q)'
    <2>1. CASE status = "down"
      BY <1>8, <2>1 DEF EmitOk, EntryOK, RequestOK, Absent
    <2>2. CASE status # "down"
      BY <1>0, <1>8, <2>2 DEF EmitOk
    <2>. QED  BY <2>1, <2>2
  <1>9. ASSUME NEW r \in Request, EmitFail(r)
        PROVE  EntryOK(q)'
    <2>1. CASE status = "down"
      BY <1>9, <2>1 DEF EmitFail, EntryOK, RequestOK, Absent
    <2>2. CASE status # "down"
      BY <1>0, <1>9, <2>2 DEF EmitFail
    <2>. QED  BY <2>1, <2>2
  <1>10. ASSUME NEW r \in Request, SweepStart(r)
        PROVE  EntryOK(q)'
    <2>1. CASE status = "down"
      BY <1>10, <2>1 DEF SweepStart, EntryOK, RequestOK, Absent
    <2>2. CASE status # "down"
      BY <1>0, <1>10, <2>2 DEF SweepStart
    <2>. QED  BY <2>1, <2>2
  <1>11. ASSUME NEW r \in Request, NEW k \in Key, SweepVisit(r, k)
        PROVE  EntryOK(q)'
    <2>1. CASE status = "down"
      BY <1>11, <2>1 DEF SweepVisit, EntryOK, RequestOK, Absent
    <2>2. CASE status # "down"
      BY <1>0, <1>11, <2>2 DEF SweepVisit
    <2>. QED  BY <2>1, <2>2
  <1>12. ASSUME NEW r \in Request, NEW k \in Key, SweepDelete(r, k)
        PROVE  EntryOK(q)'
    <2>1. CASE status = "down"
      BY <1>12, <2>1 DEF SweepDelete, EntryOK, RequestOK, Absent
    <2>2. CASE status # "down"
      BY <1>0, <1>12, <2>2 DEF SweepDelete
    <2>. QED  BY <2>1, <2>2
  <1>13. ASSUME Tick
        PROVE  EntryOK(q)'
    <2>1. CASE status = "down"
      BY <1>13, <2>1 DEF Tick, EntryOK, RequestOK, Absent
    <2>2. CASE status # "down"
      BY <1>0, <1>13, <2>2 DEF Tick
    <2>. QED  BY <2>1, <2>2
  <1>14. ASSUME BeginShutdown
        PROVE  EntryOK(q)'
    BY <1>0, <1>14 DEF BeginShutdown
  <1>15. ASSUME Die
        PROVE  EntryOK(q)'
    BY <1>15 DEF Die, EntryOK
  <1>16. ASSUME Restart
        PROVE  EntryOK(q)'
    BY <1>16 DEF Restart, EntryOK
  <1>17. CASE UNCHANGED vars
    <2>1. CASE status = "down"
      BY <1>17, <2>1 DEF vars, EntryOK, RequestOK, Absent
    <2>2. CASE status # "down"
      BY <1>0, <1>17, <2>2 DEF vars
    <2>. QED  BY <2>1, <2>2
  <1>18. ASSUME NEW r \in Request, Count(r)
        PROVE  EntryOK(q)'
    <2>1. CASE status = "down"
      BY <1>18, <2>1 DEF Count, EntryOK, RequestOK, Absent
    <2>2. CASE status # "down"
      BY <1>0, <1>18, <2>2 DEF Count
    <2>. QED  BY <2>1, <2>2
  <1>. QED
    BY <1>1, <1>2, <1>3, <1>4, <1>5, <1>6, <1>7, <1>8, <1>9, <1>10,
       <1>11, <1>12, <1>13, <1>14, <1>15, <1>16, <1>17,
       <1>18
       DEF Next, Handle, Emit, SweepStep, Exit, Crash

(* A sweep keeps its promises whatever happens between its steps. *)
LEMMA SweepKept ==
    ASSUME IInv, [Next]_vars, NEW q \in Request,
           run' = run, status' # "down", sweep'[q] = sweep[q],
           clock' \in Nat, clock' >= clock,
           \A x \in Key : dedup'[x] \in {dedup[x], Absent, clock}
    PROVE  SweepOK(q)'
  <1> USE DEF IInv, TypeOK
  <1>1. SweepOK(q) /\ sweep[q] \in Sweep
    OBVIOUS
  <1>2. sweep[q].now \in Nat
    BY <1>1 DEF Sweep
  <1>3. ASSUME NEW x \in Key, x \in sweep[q].doomed
        PROVE  ClaimsNow(x)' # {}
    BY <1>1, <1>3, ClaimsNowGrow DEF SweepOK
  <1>4. ASSUME NEW x \in Key, sweep[q].state = "ranging", dedup'[x] # Absent,
               x \notin sweep[q].todo \union sweep[q].doomed
        PROVE  ~BeyondWindow(dedup'[x], sweep[q].now)
    BY <1>1, <1>2, <1>4, ReactorAssumption DEF SweepOK, BeyondWindow
  <1>. QED
    BY <1>1, <1>2, <1>3, <1>4 DEF SweepOK, BeyondWindow

(* What each sweep knows stays true. *)
LEMMA SweepStepOK ==
    ASSUME IInv, [Next]_vars, NEW q \in Request
    PROVE  SweepOK(q)'
  <1> USE DEF IInv, TypeOK, process, history
  <1>0. sweep[q] \in Sweep /\ SweepOK(q)
    OBVIOUS
  <1>1. ASSUME NEW r \in Request, NEW d \in Deliveries, Receive(r, d)
        PROVE  SweepOK(q)'
    BY <1>1, SweepKept DEF Receive
  <1>2. ASSUME NEW r \in Request, Reject(r)
        PROVE  SweepOK(q)'
    <2>1. CASE status = "down"
      BY <1>0, <1>2, <2>1 DEF Reject, SweepOK, RequestOK, InFlight, Emitting
    <2>2. CASE status # "down"
      BY <1>0, <1>2, <2>2, SweepKept DEF Reject
    <2>. QED  BY <2>1, <2>2
  <1>3. ASSUME NEW r \in Request, Suppress(r)
        PROVE  SweepOK(q)'
    <2>1. CASE status = "down"
      BY <1>0, <1>3, <2>1 DEF Suppress, SweepOK, RequestOK, InFlight, Emitting
    <2>2. CASE status # "down"
      BY <1>0, <1>3, <2>2, SweepKept DEF Suppress
    <2>. QED  BY <2>1, <2>2
  <1>4. ASSUME NEW r \in Request, Claim(r)
        PROVE  SweepOK(q)'
    <2>1. msg[r] \in Delivery /\ stage[r] \in InFlight
      BY <1>4, MsgTyped DEF Claim, InFlight
    <2>2. bornIn[r] = run /\ status # "down"
      BY <2>1 DEF RequestOK
    <2>3. \A x \in Key : dedup'[x] \in {dedup[x], clock}
      BY <1>4 DEF Claim
    <2>. QED  BY <1>4, <2>2, <2>3, SweepKept DEF Claim
  <1>5. ASSUME NEW r \in Request, Acknowledge(r)
        PROVE  SweepOK(q)'
    <2>1. CASE status = "down"
      BY <1>0, <1>5, <2>1 DEF Acknowledge, SweepOK, RequestOK, InFlight, Emitting
    <2>2. CASE status # "down"
      BY <1>0, <1>5, <2>2, SweepKept DEF Acknowledge
    <2>. QED  BY <2>1, <2>2
  <1>6. ASSUME NEW r \in Request, Flush(r)
        PROVE  SweepOK(q)'
    <2>1. CASE status = "down"
      BY <1>0, <1>6, <2>1 DEF Flush, SweepOK, RequestOK, InFlight, Emitting
    <2>2. CASE status # "down"
      BY <1>0, <1>6, <2>2, SweepKept DEF Flush
    <2>. QED  BY <2>1, <2>2
  <1>7. ASSUME NEW r \in Request, Publish(r)
        PROVE  SweepOK(q)'
    <2>1. CASE status = "down"
      BY <1>0, <1>7, <2>1 DEF Publish, SweepOK, RequestOK, InFlight, Emitting
    <2>2. CASE status # "down"
      BY <1>0, <1>7, <2>2, SweepKept DEF Publish
    <2>. QED  BY <2>1, <2>2
  <1>8. ASSUME NEW r \in Request, EmitOk(r)
        PROVE  SweepOK(q)'
    <2>1. CASE status = "down"
      BY <1>0, <1>8, <2>1 DEF EmitOk, SweepOK, RequestOK, InFlight, Emitting
    <2>2. CASE status # "down"
      BY <1>0, <1>8, <2>2, SweepKept DEF EmitOk
    <2>. QED  BY <2>1, <2>2
  <1>9. ASSUME NEW r \in Request, EmitFail(r)
        PROVE  SweepOK(q)'
    <2>1. CASE status = "down"
      BY <1>0, <1>9, <2>1 DEF EmitFail, SweepOK, RequestOK, InFlight, Emitting
    <2>2. CASE status # "down"
      BY <1>0, <1>9, <2>2, SweepKept DEF EmitFail
    <2>. QED  BY <2>1, <2>2
  <1>10. ASSUME NEW r \in Request, SweepStart(r)
        PROVE  SweepOK(q)'
    <2>1. status # "down"
      BY <1>10 DEF SweepStart, SweepOK
    <2>2. CASE q = r
      BY <1>10, <2>1, <2>2 DEF SweepStart, SweepOK
    <2>3. CASE q # r
      BY <1>10, <2>1, <2>3, SweepKept DEF SweepStart
    <2>. QED  BY <2>2, <2>3
  <1>11. ASSUME NEW r \in Request, NEW k \in Key, SweepVisit(r, k)
        PROVE  SweepOK(q)'
    <2>1. status # "down"
      BY <1>11 DEF SweepVisit, SweepOK
    <2>2. CASE q = r
      <3>1. /\ sweep'[q].state = sweep[q].state
            /\ sweep'[q].now = sweep[q].now
            /\ sweep'[q].todo = sweep[q].todo \ {k}
            /\ sweep'[q].doomed =
                 IF dedup[k] # Absent /\ Expired(dedup[k], sweep[q].now)
                 THEN {k} ELSE {}
        BY <1>11, <2>2 DEF SweepVisit, Visited
      <3>2. ASSUME NEW x \in Key, x \in sweep'[q].doomed
            PROVE  ClaimsNow(x)' # {}
        <4>1. x = k /\ dedup[k] # Absent
          BY <3>1, <3>2
        <4>2. PICK y \in ClaimsNow(x) : TRUE
          BY <4>1 DEF EntryOK
        <4>. QED  BY <1>11, <4>2 DEF SweepVisit, ClaimsNow
      <3>3. ASSUME NEW x \in Key, sweep'[q].state = "ranging", dedup'[x] # Absent,
                   x \notin sweep'[q].todo \union sweep'[q].doomed
            PROVE  ~BeyondWindow(dedup'[x], sweep'[q].now)
        <4>1. dedup' = dedup /\ sweep[q].now \in Nat /\ sweep[q].doomed = {}
          BY <1>11, <2>2 DEF SweepVisit, Sweep
        <4>2. CASE x = k
          <5>1. ~Expired(dedup[k], sweep[q].now)
            BY <3>1, <3>3, <4>1, <4>2
          <5>2. dedup[k] \in Nat
            BY <3>3, <4>1, <4>2
          <5>. QED
            BY <3>1, <4>1, <4>2, <5>1, <5>2, ReactorAssumption
               DEF Expired, BeyondWindow
        <4>3. CASE x # k
          BY <1>0, <3>1, <3>3, <4>1, <4>3 DEF SweepOK, BeyondWindow
        <4>. QED  BY <4>2, <4>3
      <3>4. sweep'[q].now <= clock'
        BY <1>0, <1>11, <3>1 DEF SweepVisit, SweepOK
      <3>. QED  BY <1>11, <2>1, <2>2, <3>1, <3>2, <3>3, <3>4 DEF SweepVisit, SweepOK
    <2>3. CASE q # r
      BY <1>11, <2>1, <2>3, SweepKept DEF SweepVisit
    <2>. QED  BY <2>2, <2>3
  <1>12. ASSUME NEW r \in Request, NEW k \in Key, SweepDelete(r, k)
        PROVE  SweepOK(q)'
    <2>1. status # "down" /\ \A x \in Key : dedup'[x] \in {dedup[x], Absent}
      BY <1>12 DEF SweepDelete, SweepOK
    <2>2. CASE q = r
      <3>1. /\ sweep'[q].state = "ranging"
            /\ sweep'[q].now = sweep[q].now
            /\ sweep'[q].todo = sweep[q].todo
            /\ sweep'[q].doomed = {}
        BY <1>0, <1>12, <2>2 DEF SweepDelete, Sweep
      <3>2. sweep[q].state = "ranging" /\ dedup'[k] = Absent
        BY <1>12, <2>2 DEF SweepDelete
      <3>3. ASSUME NEW x \in Key, dedup'[x] # Absent, x \notin sweep[q].todo
            PROVE  ~BeyondWindow(dedup'[x], sweep[q].now)
        <4>1. sweep[q].doomed \subseteq {k}
          BY <1>0, <1>12, <2>2 DEF SweepDelete, SweepOK
        <4>2. x # k /\ dedup'[x] = dedup[x]
          BY <1>12, <3>2, <3>3 DEF SweepDelete
        <4>. QED  BY <1>0, <3>2, <3>3, <4>1, <4>2 DEF SweepOK, BeyondWindow
      <3>. QED
        BY <1>0, <1>12, <2>1, <3>1, <3>2, <3>3 DEF SweepDelete, SweepOK, BeyondWindow
    <2>3. CASE q # r
      BY <1>12, <2>1, <2>3, SweepKept DEF SweepDelete
    <2>. QED  BY <2>2, <2>3
  <1>13. ASSUME Tick
        PROVE  SweepOK(q)'
    <2>1. CASE status = "down"
      <3>1. sweep[q].state = "none" /\ sweep[q].doomed = {} /\ sweep[q].now \in Nat
        BY <1>0, <2>1 DEF SweepOK, Sweep
      <3>. QED  BY <1>0, <1>13, <3>1 DEF Tick, SweepOK
    <2>2. CASE status # "down"
      BY <1>0, <1>13, <2>2, SweepKept DEF Tick
    <2>. QED  BY <2>1, <2>2
  <1>14. ASSUME BeginShutdown
        PROVE  SweepOK(q)'
    BY <1>14, SweepKept DEF BeginShutdown
  <1>15. ASSUME Die
        PROVE  SweepOK(q)'
    BY <1>15 DEF Die, SweepOK, NoSweep
  <1>16. ASSUME Restart
        PROVE  SweepOK(q)'
    BY <1>0, <1>16 DEF Restart, SweepOK
  <1>17. CASE UNCHANGED vars
    <2>1. CASE status = "down"
      BY <1>0, <1>17, <2>1 DEF vars, SweepOK, RequestOK, InFlight, Emitting
    <2>2. CASE status # "down"
      BY <1>0, <1>17, <2>2, SweepKept DEF vars
    <2>. QED  BY <2>1, <2>2
  <1>18. ASSUME NEW r \in Request, Count(r)
        PROVE  SweepOK(q)'
    <2>1. status # "down"
      BY <1>18 DEF Count, RequestOK, InFlight
    <2>2. CASE q = r
      <3>1. sweep'[q] = [NoSweep EXCEPT !.state = "armed"]
        BY <1>18, <2>2 DEF Count
      <3>2. sweep'[q].state = "armed" /\ sweep'[q].now = 0 /\ sweep'[q].doomed = {}
        BY <3>1 DEF NoSweep
      <3>. QED  BY <1>18, <2>1, <3>2 DEF Count, SweepOK
    <2>3. CASE q # r
      BY <1>18, <2>1, <2>3, SweepKept DEF Count
    <2>. QED  BY <2>2, <2>3
  <1>. QED
    BY <1>1, <1>2, <1>3, <1>4, <1>5, <1>6, <1>7, <1>8, <1>9, <1>10,
       <1>11, <1>12, <1>13, <1>14, <1>15, <1>16, <1>17,
       <1>18
       DEF Next, Handle, Emit, SweepStep, Exit, Crash

(* The key of a claimed delivery is one of the map. *)
LEMMA ClaimedKey ==
    ASSUME IInv, NEW r \in claimed
    PROVE  KeyOf(msg[r]) \in Key
  BY MsgTyped, VerdictAccepts DEF IInv, TypeOK, RequestOK

(* A step that claims nothing keeps the first claim of an event, if it     *)
(* leaves the entry of that event alone while its window is open.          *)
LEMMA FirstKept ==
    ASSUME IInv, [Next]_vars, claimed' = claimed, NEW q \in claimed,
           NEW first \in ClaimsOf(msg[q], bornIn[q]), FirstOK(first, q),
           (bornIn[q] = run' /\ status' # "down") =>
              /\ run' = run
              /\ status # "down"
              /\ clock' \in Nat /\ clock' >= clock
              /\ \/ BeyondWindow(claimedAt[first], clock)
                 \/ /\ dedup'[KeyOf(msg[q])] # Absent
                    /\ \A s \in Request : KeyOf(msg[q]) \notin sweep'[s].doomed
    PROVE  \E f \in ClaimsOf(msg[q], bornIn[q])' : FirstOK(f, q)'
  <1> USE DEF IInv, TypeOK
  <1>1. \A x \in claimed : /\ msg'[x] = msg[x]
                           /\ bornIn'[x] = bornIn[x]
                           /\ claimedAt'[x] = claimedAt[x]
    BY ClaimsStay
  <1>2. ClaimsOf(msg[q], bornIn[q])' = ClaimsOf(msg[q], bornIn[q])
    BY <1>1 DEF ClaimsOf
  <1>3. first \in claimed /\ claimedAt[first] \in Nat /\ TTL \in Nat
    BY ReactorAssumption DEF ClaimsOf
  <1>4. ASSUME NEW x \in ClaimsOf(msg[q], bornIn[q])' \ {first}
        PROVE  BeyondWindow(claimedAt[first], claimedAt[x])'
    BY <1>1, <1>2, <1>3 DEF FirstOK, ClaimsOf, BeyondWindow
  <1>5. BeyondWindow(claimedAt[first], clock) =>
           (clock' \in Nat /\ clock' >= clock =>
                BeyondWindow(claimedAt[first], clock)')
    BY <1>1, <1>3 DEF BeyondWindow
  <1>6. FirstOK(first, q)'
    BY <1>1, <1>4, <1>5 DEF FirstOK
  <1>. QED  BY <1>2, <1>6

(* The first claim of an event stays in the map for its window. *)
LEMMA FirstStep ==
    ASSUME IInv, [Next]_vars, NEW q \in claimed'
    PROVE  \E f \in ClaimsOf(msg[q], bornIn[q])' : FirstOK(f, q)'
  <1> USE DEF IInv, TypeOK, process, history
  <1> DEFINE Goal == \E f \in ClaimsOf(msg[q], bornIn[q])' : FirstOK(f, q)'
  <1>0. ASSUME q \in claimed
        PROVE  \E f \in ClaimsOf(msg[q], bornIn[q]) : FirstOK(f, q)
    BY <1>0
  <1>1. ASSUME NEW r \in Request, NEW d \in Deliveries, Receive(r, d)
        PROVE  Goal
    <2>1. q \in claimed
      BY <1>1 DEF Receive
    <2>2. PICK first \in ClaimsOf(msg[q], bornIn[q]) : FirstOK(first, q)
      BY <1>0, <2>1
    <2>. QED  BY <1>1, <2>1, <2>2, FirstKept DEF Receive, FirstOK
  <1>2. ASSUME NEW r \in Request, Reject(r)
        PROVE  Goal
    <2>1. q \in claimed
      BY <1>2 DEF Reject
    <2>2. PICK first \in ClaimsOf(msg[q], bornIn[q]) : FirstOK(first, q)
      BY <1>0, <2>1
    <2>. QED  BY <1>2, <2>1, <2>2, FirstKept DEF Reject, FirstOK
  <1>3. ASSUME NEW r \in Request, Suppress(r)
        PROVE  Goal
    <2>1. q \in claimed
      BY <1>3 DEF Suppress
    <2>2. PICK first \in ClaimsOf(msg[q], bornIn[q]) : FirstOK(first, q)
      BY <1>0, <2>1
    <2>. QED  BY <1>3, <2>1, <2>2, FirstKept DEF Suppress, FirstOK
  <1>4. ASSUME NEW r \in Request, Claim(r)
        PROVE  Goal
    <2> DEFINE k == KeyOf(msg[r])
    <2>1. msg[r] \in Delivery /\ k \in Key /\ dedup[k] = Absent
      BY <1>4, MsgTyped, VerdictAccepts DEF Claim
    <2>2. bornIn[r] = run /\ status # "down" /\ r \notin claimed
      BY <1>4 DEF Claim, RequestOK, InFlight
    <2>3. /\ claimed' = claimed \union {r}
          /\ msg' = msg /\ bornIn' = bornIn /\ run' = run /\ clock' = clock
          /\ status' = status
          /\ claimedAt' = [claimedAt EXCEPT ![r] = clock]
          /\ dedup' = [dedup EXCEPT ![k] = clock]
          /\ sweep' = sweep
      BY <1>4 DEF Claim
    <2>4. /\ r \in Request /\ claimedAt'[r] = clock /\ dedup'[k] # Absent
          /\ \A x \in claimed : claimedAt'[x] = claimedAt[x]
      BY <2>1, <2>2, <2>3 DEF Absent
    \* An event this run claimed before keeps its first claim.
    <2>5. ASSUME NEW y \in claimed, bornIn[y] = run, KeyOf(msg[y]) = k,
                 bornIn[q] = run, KeyOf(msg[q]) = k
          PROVE  Goal
      <3>1. PICK first \in ClaimsOf(msg[y], bornIn[y]) : FirstOK(first, y)
        BY <2>5
      <3>2. BeyondWindow(claimedAt[first], clock) /\ first \in claimed
        BY <2>1, <2>2, <2>5, <3>1 DEF FirstOK, ClaimsOf
      <3>3. ClaimsOf(msg[q], bornIn[q])' = ClaimsOf(msg[y], bornIn[y]) \union {r}
        BY <2>2, <2>3, <2>5, SameKey DEF ClaimsOf, KeyOf, SameEvent
      <3>4. FirstOK(first, q)'
        BY <2>2, <2>3, <2>4, <3>1, <3>2, <3>3 DEF FirstOK, BeyondWindow, ClaimsOf
      <3>. QED  BY <3>1, <3>3, <3>4
    \* An event it had not claimed has its first claim in r.
    <2>6. CASE q = r /\ ClaimsNow(k) = {}
      <3>1. ClaimsOf(msg[q], bornIn[q])' = {r}
        BY <2>2, <2>3, <2>6 DEF ClaimsOf, ClaimsNow, KeyOf, SameEvent
      <3>2. \A s \in Request : k \notin sweep[s].doomed
        BY <2>1, <2>6 DEF SweepOK
      <3>3. FirstOK(r, q)'
        BY <2>3, <2>4, <2>6, <3>1, <3>2 DEF FirstOK
      <3>. QED  BY <3>1, <3>3
    \* Any other event is not touched.
    <2>7. CASE q \in claimed /\ ~(bornIn[q] = run /\ KeyOf(msg[q]) = k)
      <3>1. PICK first \in ClaimsOf(msg[q], bornIn[q]) : FirstOK(first, q)
        BY <2>7
      <3>2. ClaimsOf(msg[q], bornIn[q])' = ClaimsOf(msg[q], bornIn[q])
        BY <2>2, <2>3, <2>7 DEF ClaimsOf, KeyOf, SameEvent
      <3>3. bornIn[q] = run => dedup'[KeyOf(msg[q])] = dedup[KeyOf(msg[q])]
        BY <2>3, <2>7, ClaimedKey
      <3>4. FirstOK(first, q)'
        BY <2>3, <2>4, <2>7, <3>1, <3>2, <3>3 DEF FirstOK, BeyondWindow, ClaimsOf
      <3>. QED  BY <3>1, <3>2, <3>4
    <2>. QED  BY <2>2, <2>3, <2>5, <2>6, <2>7 DEF ClaimsNow
  <1>5. ASSUME NEW r \in Request, Acknowledge(r)
        PROVE  Goal
    <2>1. q \in claimed
      BY <1>5 DEF Acknowledge
    <2>2. PICK first \in ClaimsOf(msg[q], bornIn[q]) : FirstOK(first, q)
      BY <1>0, <2>1
    <2>. QED  BY <1>5, <2>1, <2>2, FirstKept DEF Acknowledge, FirstOK
  <1>6. ASSUME NEW r \in Request, Flush(r)
        PROVE  Goal
    <2>1. q \in claimed
      BY <1>6 DEF Flush
    <2>2. PICK first \in ClaimsOf(msg[q], bornIn[q]) : FirstOK(first, q)
      BY <1>0, <2>1
    <2>. QED  BY <1>6, <2>1, <2>2, FirstKept DEF Flush, FirstOK
  <1>7. ASSUME NEW r \in Request, Publish(r)
        PROVE  Goal
    <2>1. q \in claimed
      BY <1>7 DEF Publish
    <2>2. PICK first \in ClaimsOf(msg[q], bornIn[q]) : FirstOK(first, q)
      BY <1>0, <2>1
    <2>. QED  BY <1>7, <2>1, <2>2, FirstKept DEF Publish, FirstOK
  <1>8. ASSUME NEW r \in Request, EmitOk(r)
        PROVE  Goal
    <2>1. q \in claimed
      BY <1>8 DEF EmitOk
    <2>2. PICK first \in ClaimsOf(msg[q], bornIn[q]) : FirstOK(first, q)
      BY <1>0, <2>1
    <2>. QED  BY <1>8, <2>1, <2>2, FirstKept DEF EmitOk, FirstOK
  <1>9. ASSUME NEW r \in Request, EmitFail(r)
        PROVE  Goal
    <2>1. q \in claimed
      BY <1>9 DEF EmitFail
    <2>2. PICK first \in ClaimsOf(msg[q], bornIn[q]) : FirstOK(first, q)
      BY <1>0, <2>1
    <2>. QED  BY <1>9, <2>1, <2>2, FirstKept DEF EmitFail, FirstOK
  <1>10. ASSUME NEW r \in Request, SweepStart(r)
        PROVE  Goal
    <2>1. q \in claimed
      BY <1>10 DEF SweepStart
    <2>2. PICK first \in ClaimsOf(msg[q], bornIn[q]) : FirstOK(first, q)
      BY <1>0, <2>1
    <2>3. \A s \in Request : sweep'[s].doomed \subseteq sweep[s].doomed
      BY <1>10 DEF SweepStart
    <2>4. UNCHANGED <<clock, status, run, dedup, msg, bornIn, claimed, claimedAt>>
      BY <1>10 DEF SweepStart
    <2>. QED  BY <2>1, <2>2, <2>3, <2>4, FirstKept DEF FirstOK
  <1>11. ASSUME NEW r \in Request, NEW k \in Key, SweepVisit(r, k)
        PROVE  Goal
    <2>1. q \in claimed
      BY <1>11 DEF SweepVisit
    <2>2. PICK first \in ClaimsOf(msg[q], bornIn[q]) : FirstOK(first, q)
      BY <1>0, <2>1
    <2>3. KeyOf(msg[q]) \in Key
      BY <2>1, ClaimedKey
    <2>4. ASSUME bornIn[q] = run, status # "down"
          PROVE  \/ BeyondWindow(claimedAt[first], clock)
                 \/ /\ dedup'[KeyOf(msg[q])] # Absent
                    /\ \A s \in Request : KeyOf(msg[q]) \notin sweep'[s].doomed
      <3>1. CASE BeyondWindow(claimedAt[first], clock)
        BY <3>1
      <3>2. CASE /\ dedup[KeyOf(msg[q])] # Absent
                 /\ \A s \in Request : KeyOf(msg[q]) \notin sweep[s].doomed
        <4>1. CASE k # KeyOf(msg[q])
          <5>1. KeyOf(msg[q]) \notin sweep'[r].doomed
            BY <1>11, <4>1 DEF SweepVisit, Visited
          <5>. QED  BY <1>11, <3>2, <5>1 DEF SweepVisit
        <4>2. CASE k = KeyOf(msg[q]) /\ ~Expired(dedup[k], sweep[r].now)
          <5>1. KeyOf(msg[q]) \notin sweep'[r].doomed
            BY <1>11, <4>2 DEF SweepVisit, Visited
          <5>. QED  BY <1>11, <3>2, <5>1 DEF SweepVisit
        <4>3. CASE k = KeyOf(msg[q]) /\ Expired(dedup[k], sweep[r].now)
          <5>1. PICK y \in ClaimsNow(k) : claimedAt[y] = dedup[k]
            BY <3>2, <4>3 DEF EntryOK
          <5>2. y \in claimed /\ y \in ClaimsOf(msg[q], bornIn[q])
            BY <2>4, <4>3, <5>1, SameKey DEF ClaimsNow, ClaimsOf
          <5>3. /\ claimedAt[y] \in Nat /\ claimedAt[first] \in Nat
                /\ TTL \in Nat /\ sweep[r].now \in Nat
            BY <2>2, <5>2, ReactorAssumption DEF ClaimsOf, Sweep
          <5>4. sweep[r].now <= clock /\ claimedAt[y] <= clock
            BY <5>2 DEF SweepOK, RequestOK
          <5>5. BeyondWindow(claimedAt[y], clock)
            BY <4>3, <5>1, <5>3, <5>4 DEF Expired, BeyondWindow
          <5>6. y = first \/ BeyondWindow(claimedAt[first], claimedAt[y])
            BY <2>2, <5>2 DEF FirstOK
          <5>. QED  BY <5>3, <5>5, <5>6 DEF BeyondWindow
        <4>. QED  BY <4>1, <4>2, <4>3
      <3>. QED  BY <2>2, <2>4, <3>1, <3>2 DEF FirstOK
    <2>. QED  BY <1>11, <2>1, <2>2, <2>4, FirstKept DEF SweepVisit
  <1>12. ASSUME NEW r \in Request, NEW k \in Key, SweepDelete(r, k)
        PROVE  Goal
    <2>1. q \in claimed
      BY <1>12 DEF SweepDelete
    <2>2. PICK first \in ClaimsOf(msg[q], bornIn[q]) : FirstOK(first, q)
      BY <1>0, <2>1
    <2>3. ASSUME bornIn[q] = run, status # "down"
          PROVE  \/ BeyondWindow(claimedAt[first], clock)
                 \/ /\ dedup'[KeyOf(msg[q])] # Absent
                    /\ \A s \in Request : KeyOf(msg[q]) \notin sweep'[s].doomed
      <3>1. CASE BeyondWindow(claimedAt[first], clock)
        BY <3>1
      <3>2. CASE /\ dedup[KeyOf(msg[q])] # Absent
                 /\ \A s \in Request : KeyOf(msg[q]) \notin sweep[s].doomed
        <4>1. k # KeyOf(msg[q])
          BY <1>12, <3>2 DEF SweepDelete
        <4>2. \A s \in Request : sweep'[s].doomed \subseteq sweep[s].doomed
          BY <1>12 DEF SweepDelete, Sweep
        <4>. QED  BY <1>12, <3>2, <4>1, <4>2 DEF SweepDelete
      <3>. QED  BY <2>2, <2>3, <3>1, <3>2 DEF FirstOK
    <2>. QED  BY <1>12, <2>1, <2>2, <2>3, FirstKept DEF SweepDelete
  <1>13. ASSUME Tick
        PROVE  Goal
    <2>1. q \in claimed
      BY <1>13 DEF Tick
    <2>2. PICK first \in ClaimsOf(msg[q], bornIn[q]) : FirstOK(first, q)
      BY <1>0, <2>1
    <2>. QED  BY <1>13, <2>1, <2>2, FirstKept DEF Tick, FirstOK
  <1>14. ASSUME BeginShutdown
        PROVE  Goal
    <2>1. q \in claimed
      BY <1>14 DEF BeginShutdown
    <2>2. PICK first \in ClaimsOf(msg[q], bornIn[q]) : FirstOK(first, q)
      BY <1>0, <2>1
    <2>. QED  BY <1>14, <2>1, <2>2, FirstKept DEF BeginShutdown, FirstOK
  <1>15. ASSUME Die
        PROVE  Goal
    <2>1. q \in claimed
      BY <1>15 DEF Die
    <2>2. PICK first \in ClaimsOf(msg[q], bornIn[q]) : FirstOK(first, q)
      BY <1>0, <2>1
    <2>. QED  BY <1>15, <2>1, <2>2, FirstKept DEF Die
  <1>16. ASSUME Restart
        PROVE  Goal
    <2>1. q \in claimed
      BY <1>16 DEF Restart
    <2>2. PICK first \in ClaimsOf(msg[q], bornIn[q]) : FirstOK(first, q)
      BY <1>0, <2>1
    <2>3. bornIn[q] <= run
      BY <2>1 DEF RequestOK
    <2>4. bornIn[q] # run'
      BY <1>16, <2>1, <2>3 DEF Restart
    <2>. QED  BY <1>16, <2>1, <2>2, <2>4, FirstKept DEF Restart
  <1>17. CASE UNCHANGED vars
    <2>1. q \in claimed
      BY <1>17 DEF vars
    <2>2. PICK first \in ClaimsOf(msg[q], bornIn[q]) : FirstOK(first, q)
      BY <1>0, <2>1
    <2>. QED  BY <1>17, <2>1, <2>2, FirstKept DEF vars, FirstOK
  <1>18. ASSUME NEW r \in Request, Count(r)
        PROVE  Goal
    <2>1. q \in claimed
      BY <1>18 DEF Count
    <2>2. PICK first \in ClaimsOf(msg[q], bornIn[q]) : FirstOK(first, q)
      BY <1>0, <2>1
    <2>3. \A s \in Request : sweep'[s].doomed \subseteq sweep[s].doomed
      BY <1>18 DEF Count, NoSweep
    <2>4. UNCHANGED <<clock, status, run, dedup, msg, bornIn, claimed, claimedAt>>
      BY <1>18 DEF Count
    <2>. QED  BY <2>1, <2>2, <2>3, <2>4, FirstKept DEF FirstOK
  <1>. QED
    BY <1>1, <1>2, <1>3, <1>4, <1>5, <1>6, <1>7, <1>8, <1>9, <1>10,
       <1>11, <1>12, <1>13, <1>14, <1>15, <1>16, <1>17,
       <1>18
       DEF Next, Handle, Emit, SweepStep, Exit, Crash

(* A claim counts for its event forever. *)
LEMMA ClaimsOfGrow ==
    ASSUME IInv, [Next]_vars, NEW q \in Request,
           msg'[q] = msg[q], bornIn'[q] = bornIn[q],
           ClaimsOf(msg[q], bornIn[q]) # {}
    PROVE  ClaimsOf(msg[q], bornIn[q])' # {}
  <1>1. PICK y \in ClaimsOf(msg[q], bornIn[q]) : TRUE
    OBVIOUS
  <1>2. y \in claimed
    BY <1>1 DEF ClaimsOf
  <1>. QED  BY <1>1, <1>2, ClaimsStay DEF IInv, ClaimsOf

(* No step answers a 200 that rests on no claim. *)
LEMMA AnsweredStep ==
    ASSUME IInv, [Next]_vars
    PROVE  AnsweredMeansClaimed'
  <1> SUFFICES ASSUME NEW q \in Request, answer'[q] = 200
               PROVE  ClaimsOf(msg[q], bornIn[q])' # {}
    BY DEF AnsweredMeansClaimed
  <1> USE DEF IInv, TypeOK, process, history
  <1> DEFINE Goal == ClaimsOf(msg[q], bornIn[q])' # {}
  <1>0. ASSUME answer[q] = 200, msg'[q] = msg[q], bornIn'[q] = bornIn[q]
        PROVE  Goal
    BY <1>0, ClaimsOfGrow DEF AnsweredMeansClaimed
  <1>1. ASSUME NEW r \in Request, NEW d \in Deliveries, Receive(r, d)
        PROVE  Goal
    BY <1>0, <1>1 DEF Receive, RequestOK, NoAnswer
  <1>2. ASSUME NEW r \in Request, Reject(r)
        PROVE  Goal
    BY <1>0, <1>2 DEF Reject
  <1>3. ASSUME NEW r \in Request, Suppress(r)
        PROVE  Goal
    <2>1. CASE q = r
      <3>1. msg[r] \in Delivery /\ KeyOf(msg[r]) \in Key
        BY <1>3, MsgTyped, VerdictAccepts DEF Suppress
      <3>2. ClaimsNow(KeyOf(msg[r])) # {} /\ bornIn[r] = run
        BY <1>3, <3>1 DEF Suppress, EntryOK, RequestOK, InFlight
      <3>3. ClaimsOf(msg[q], bornIn[q]) # {}
        BY <2>1, <3>2, SameKey DEF ClaimsNow, ClaimsOf
      <3>. QED  BY <1>3, <3>3, ClaimsOfGrow DEF Suppress
    <2>2. CASE q # r
      BY <1>0, <1>3, <2>2 DEF Suppress
    <2>. QED  BY <2>1, <2>2
  <1>4. ASSUME NEW r \in Request, Claim(r)
        PROVE  Goal
    BY <1>0, <1>4 DEF Claim
  <1>5. ASSUME NEW r \in Request, Acknowledge(r)
        PROVE  Goal
    BY <1>0, <1>5 DEF Acknowledge
  <1>6. ASSUME NEW r \in Request, Flush(r)
        PROVE  Goal
    <2>1. CASE q = r
      <3>1. r \in ClaimsOf(msg[q], bornIn[q])
        BY <1>6, <2>1 DEF Flush, RequestOK, ClaimsOf, SameEvent
      <3>. QED  BY <1>6, <3>1, ClaimsOfGrow DEF Flush
    <2>2. CASE q # r
      BY <1>0, <1>6, <2>2 DEF Flush
    <2>. QED  BY <2>1, <2>2
  <1>7. ASSUME NEW r \in Request, Publish(r)
        PROVE  Goal
    BY <1>0, <1>7 DEF Publish
  <1>8. ASSUME NEW r \in Request, EmitOk(r)
        PROVE  Goal
    BY <1>0, <1>8 DEF EmitOk
  <1>9. ASSUME NEW r \in Request, EmitFail(r)
        PROVE  Goal
    BY <1>0, <1>9 DEF EmitFail
  <1>10. ASSUME NEW r \in Request, SweepStart(r)
        PROVE  Goal
    BY <1>0, <1>10 DEF SweepStart
  <1>11. ASSUME NEW r \in Request, NEW k \in Key, SweepVisit(r, k)
        PROVE  Goal
    BY <1>0, <1>11 DEF SweepVisit
  <1>12. ASSUME NEW r \in Request, NEW k \in Key, SweepDelete(r, k)
        PROVE  Goal
    BY <1>0, <1>12 DEF SweepDelete
  <1>13. ASSUME Tick
        PROVE  Goal
    BY <1>0, <1>13 DEF Tick
  <1>14. ASSUME BeginShutdown
        PROVE  Goal
    BY <1>0, <1>14 DEF BeginShutdown
  <1>15. ASSUME Die
        PROVE  Goal
    BY <1>0, <1>15 DEF Die
  <1>16. ASSUME Restart
        PROVE  Goal
    BY <1>0, <1>16 DEF Restart
  <1>17. CASE UNCHANGED vars
    BY <1>0, <1>17 DEF vars
  <1>18. ASSUME NEW r \in Request, Count(r)
        PROVE  Goal
    BY <1>0, <1>18 DEF Count
  <1>. QED
    BY <1>1, <1>2, <1>3, <1>4, <1>5, <1>6, <1>7, <1>8, <1>9, <1>10,
       <1>11, <1>12, <1>13, <1>14, <1>15, <1>16, <1>17,
       <1>18
       DEF Next, Handle, Emit, SweepStep, Exit, Crash

(* Every step keeps the invariant. *)
LEMMA InvStep == IInv /\ [Next]_vars => IInv'
  <1> SUFFICES ASSUME IInv, [Next]_vars
               PROVE  IInv'
    OBVIOUS
  <1>1. TypeOK'
    BY TypeStep DEF IInv
  <1>. QED
    BY <1>1, RequestStep, EntryStep, SweepStepOK, FirstStep, AnsweredStep
       DEF IInv

(* The inductive invariant holds. *)
THEOREM Invariant == Spec => []IInv
  BY InvInit, InvStep, PTL DEF Spec

-----------------------------------------------------------------------------
(* Safety *)

(* In every run the first claim of an event closes a whole window for it,  *)
(* for any number of concurrent deliveries and overlapping sweeps.         *)
THEOREM FirstWindow == Spec => []FirstWindowHonoured
  <1>1. IInv => FirstWindowHonoured
    BY DEF IInv, FirstOK, FirstWindowHonoured
  <1>. QED  BY <1>1, Invariant, PTL

(* A delivery is answered 200 only if its event was claimed in this run    *)
(* for this tenant.                                                        *)
THEOREM AnsweredClaimed == Spec => []AnsweredMeansClaimed
  <1>1. IInv => AnsweredMeansClaimed
    BY DEF IInv
  <1>. QED  BY <1>1, Invariant, PTL

(* Only deliveries signed by the tenant they are addressed to are relayed. *)
THEOREM AuthenticRelayed == Spec => []OnlyAuthenticRelayed
  <1>1. IInv => OnlyAuthenticRelayed
    <2> SUFFICES ASSUME IInv, NEW r \in published
                 PROVE  /\ msg[r].path \in Instance
                        /\ msg[r].secret = SecretOf[msg[r].path]
      BY DEF OnlyAuthenticRelayed
    <2>1. r \in Request /\ r \in claimed
      BY DEF IInv, TypeOK, RequestOK
    <2>2. msg[r] \in Delivery /\ Verdict(msg[r]) = 200
      BY <2>1, MsgTyped DEF IInv, RequestOK
    <2>. QED  BY <2>2, VerdictAccepts
  <1>. QED  BY <1>1, Invariant, PTL

(* A finished sweep leaves no entry that had expired when it started,      *)
(* whatever was stored and deleted while it ranged over the map.           *)
THEOREM SweepClean == Spec => []SweepLeavesNoExpired
  <1>1. IInv => SweepLeavesNoExpired
    BY DEF IInv, SweepOK, SweepOver, SweepLeavesNoExpired
  <1>. QED  BY <1>1, Invariant, PTL

-----------------------------------------------------------------------------
(* The window, while no two sweeps race for a key *)

(* A step that claims nothing leaves every claim as it was. *)
LEMMA WindowKept ==
    ASSUME IInv, WindowUnlessSweepsRace, [Next]_vars, claimed' = claimed,
           raced \subseteq raced'
    PROVE  WindowUnlessSweepsRace'
  <1>1. \A x \in claimed : /\ msg'[x] = msg[x]
                           /\ bornIn'[x] = bornIn[x]
                           /\ claimedAt'[x] = claimedAt[x]
    BY ClaimsStay DEF IInv
  <1>2. ASSUME NEW q \in claimed, NEW r \in claimed, q # r, bornIn[q] = bornIn[r],
               SameEvent(msg[q], msg[r]), claimedAt[q] <= claimedAt[r],
               <<bornIn[r], KeyOf(msg[r])>> \notin raced'
        PROVE  BeyondWindow(claimedAt[q], claimedAt[r])
    BY <1>2 DEF WindowUnlessSweepsRace
  <1>3. \A x \in claimed : KeyOf(msg'[x]) = KeyOf(msg[x])
    BY <1>1
  <1>. QED  BY <1>1, <1>2, <1>3 DEF WindowUnlessSweepsRace, BeyondWindow, KeyOf

(* An entry that is left alone stays that of the last claim. *)
LEMMA LastKept ==
    ASSUME IInv, [Next]_vars, claimed' = claimed, run' = run,
           raced \subseteq raced',
           NEW k \in Key, EntryIsLast(k), dedup'[k] = dedup[k],
           clock' \in Nat, clock' >= clock, status' # "down" => status # "down"
    PROVE  EntryIsLast(k)'
  <1>. SUFFICES ASSUME status' # "down", <<run, k>> \notin raced',
                       NEW r \in ClaimsNow(k)'
                PROVE  IF dedup'[k] = Absent
                       THEN BeyondWindow(claimedAt'[r], clock')
                       ELSE \/ claimedAt'[r] = dedup'[k]
                            \/ BeyondWindow(claimedAt'[r], dedup'[k])
    BY DEF EntryIsLast
  <1>1. r \in claimed
    BY DEF ClaimsNow
  <1>2. /\ msg'[r] = msg[r] /\ bornIn'[r] = bornIn[r] /\ claimedAt'[r] = claimedAt[r]
        /\ clock \in Nat /\ claimedAt[r] \in Nat /\ TTL \in Nat
    BY <1>1, ClaimsStay, ReactorAssumption DEF IInv, TypeOK
  <1>3. r \in ClaimsNow(k)
    BY <1>1, <1>2 DEF ClaimsNow
  <1>4. IF dedup[k] = Absent
        THEN BeyondWindow(claimedAt[r], clock)
        ELSE claimedAt[r] = dedup[k] \/ BeyondWindow(claimedAt[r], dedup[k])
    BY <1>3 DEF EntryIsLast
  <1>. QED  BY <1>2, <1>4 DEF BeyondWindow

(* A sweep still holds the very entry it found expired, if other sweeps    *)
(* only let go of theirs.                                                  *)
LEMMA DoomedKept ==
    ASSUME RaceFree, NEW s \in Request, run' = run, raced' = raced,
           \A q \in Request : sweep'[q] = sweep[q] \/ sweep'[q].doomed = {},
           \A k \in sweep'[s].doomed :
              <<run, k>> \notin raced => dedup'[k] = dedup[k]
    PROVE  DoomedIsExpired(s)'
  <1>1. CASE sweep'[s].doomed = {}
    BY <1>1 DEF DoomedIsExpired
  <1>2. CASE sweep'[s] = sweep[s]
    <2>1. DoomedByOthers(s)' \subseteq DoomedByOthers(s)
      BY DEF DoomedByOthers
    <2>2. DoomedIsExpired(s)
      BY DEF RaceFree
    <2>. QED  BY <1>2, <2>1, <2>2 DEF DoomedIsExpired
  <1>. QED  BY <1>1, <1>2

(* A step outside the map, in which at most a sweep begins, races for      *)
(* nothing.                                                                *)
LEMMA RaceFreeKept ==
    ASSUME IInv, RaceFree, [Next]_vars, claimed' = claimed, run' = run,
           dedup' = dedup, raced' = raced, clock' \in Nat, clock' >= clock,
           \A q \in Request : sweep'[q] = sweep[q] \/ sweep'[q].doomed = {},
           status' # "down" => status # "down"
    PROVE  RaceFree'
  <1>1. WindowUnlessSweepsRace'
    BY WindowKept DEF RaceFree
  <1>2. \A k \in Key : EntryIsLast(k)'
    BY LastKept DEF RaceFree
  <1>3. \A s \in Request : DoomedIsExpired(s)'
    BY DoomedKept
  <1>4. RacesOfRuns'
    BY DEF RaceFree, RacesOfRuns
  <1>. QED  BY <1>1, <1>2, <1>3, <1>4 DEF RaceFree

(* A claim finds every window of its key over. *)
LEMMA ClaimRaceFree ==
    ASSUME IInv, RaceFree, [Next]_vars, NEW r \in Request, Claim(r)
    PROVE  RaceFree'
  <1>0. TypeOK /\ RequestOK(r)
    BY DEF IInv
  <1>. DEFINE k == KeyOf(msg[r])
  <1>1. /\ k \in Key /\ dedup[k] = Absent /\ r \notin claimed
        /\ bornIn[r] = run /\ status # "down"
    BY <1>0, MsgTyped, VerdictAccepts DEF Claim, RequestOK, InFlight
  <1>2. /\ claimed' = claimed \union {r} /\ claimedAt' = [claimedAt EXCEPT ![r] = clock]
        /\ msg' = msg /\ bornIn' = bornIn /\ run' = run /\ clock' = clock
        /\ dedup' = [dedup EXCEPT ![k] = clock]
        /\ sweep' = sweep /\ raced' = raced
    BY DEF Claim, process
  <1>3. ASSUME NEW q \in claimed, bornIn[q] = run, SameEvent(msg[q], msg[r]),
               <<run, k>> \notin raced
        PROVE  BeyondWindow(claimedAt[q], clock)
    <2>1. q \in ClaimsNow(k)
      BY <1>3, SameKey DEF ClaimsNow
    <2>. QED  BY <1>1, <1>3, <2>1 DEF RaceFree, EntryIsLast
  <1>4. /\ clock \in Nat /\ TTL \in Nat /\ claimed \subseteq Request
        /\ claimedAt \in [Request -> Nat]
    BY <1>0, ReactorAssumption DEF TypeOK
  <1>5. WindowUnlessSweepsRace'
    <2>. SUFFICES ASSUME NEW p \in claimed', NEW q \in claimed', p # q,
                         bornIn[p] = bornIn[q], SameEvent(msg[p], msg[q]),
                         claimedAt'[p] <= claimedAt'[q],
                         <<bornIn[q], KeyOf(msg[q])>> \notin raced
                  PROVE  BeyondWindow(claimedAt'[p], claimedAt'[q])
      BY <1>2 DEF WindowUnlessSweepsRace, BeyondWindow, KeyOf
    <2>1. CASE p # r /\ q # r
      BY <1>2, <1>4, <2>1 DEF RaceFree, WindowUnlessSweepsRace
    <2>2. CASE q = r
      <3>1. BeyondWindow(claimedAt[p], clock)
        BY <1>1, <1>2, <1>3, <2>2
      <3>. QED  BY <1>2, <1>4, <2>2, <3>1
    <2>3. CASE p = r
      <3>0. KeyOf(msg[q]) = k
        BY <2>3, SameKey
      <3>1. BeyondWindow(claimedAt[q], clock)
        BY <1>1, <1>2, <1>3, <2>3, <3>0 DEF SameEvent
      <3>2. clock <= claimedAt[q] /\ claimedAt[q] \in Nat
        BY <1>2, <1>4, <2>3
      <3>. QED  BY <1>4, <3>1, <3>2 DEF BeyondWindow
    <2>. QED  BY <2>1, <2>2, <2>3
  <1>6. ASSUME NEW j \in Key
        PROVE  EntryIsLast(j)'
    <2>. SUFFICES ASSUME NEW q \in ClaimsNow(j)', <<run, j>> \notin raced
                  PROVE  IF dedup'[j] = Absent
                         THEN BeyondWindow(claimedAt'[q], clock')
                         ELSE \/ claimedAt'[q] = dedup'[j]
                              \/ BeyondWindow(claimedAt'[q], dedup'[j])
      BY <1>2 DEF EntryIsLast
    <2>1. CASE j # k
      <3>1. q \in ClaimsNow(j) /\ q # r
        BY <1>2, <2>1 DEF ClaimsNow
      <3>2. claimedAt'[q] = claimedAt[q] /\ dedup'[j] = dedup[j]
        BY <1>0, <1>1, <1>2, <1>4, <2>1, <3>1 DEF ClaimsNow, TypeOK
      <3>. QED  BY <1>1, <1>2, <3>1, <3>2 DEF RaceFree, EntryIsLast
    <2>2. CASE j = k
      <3>1. dedup'[j] = clock
        BY <1>0, <1>1, <1>2, <2>2 DEF TypeOK
      <3>2. CASE q = r
        BY <1>2, <1>4, <3>1, <3>2 DEF Absent
      <3>3. CASE q # r
        <4>1. q \in claimed /\ bornIn[q] = run /\ SameEvent(msg[q], msg[r])
          BY <1>2, <2>2, <3>3, SameKey DEF ClaimsNow
        <4>2. BeyondWindow(claimedAt[q], clock) /\ claimedAt'[q] = claimedAt[q]
          BY <1>2, <1>3, <1>4, <2>2, <3>3, <4>1
        <4>. QED  BY <1>4, <3>1, <4>2 DEF Absent
      <3>. QED  BY <3>2, <3>3
    <2>. QED  BY <2>1, <2>2
  <1>7. ASSUME NEW s \in Request
        PROVE  DoomedIsExpired(s)'
    <2>1. \A j \in sweep[s].doomed : j \in Key /\ (<<run, j>> \notin raced => j # k)
      BY <1>0, <1>1 DEF RaceFree, DoomedIsExpired, TypeOK, Sweep
    <2>2. \A j \in Key \ {k} : dedup'[j] = dedup[j]
      BY <1>0, <1>2 DEF TypeOK
    <2>. QED  BY <1>2, <2>1, <2>2, DoomedKept
  <1>8. RacesOfRuns'
    BY <1>2 DEF RaceFree, RacesOfRuns
  <1>. QED  BY <1>5, <1>6, <1>7, <1>8 DEF RaceFree

(* A deletion takes the expired entry that the sweep read, since no other  *)
(* sweep could have deleted that one before, unless the two have raced.    *)
LEMMA DeleteRaceFree ==
    ASSUME IInv, RaceFree, [Next]_vars,
           NEW r \in Request, NEW k \in Key, SweepDelete(r, k)
    PROVE  RaceFree'
  <1>0. TypeOK /\ SweepOK(r)
    BY DEF IInv
  <1>1. /\ k \in sweep[r].doomed
        /\ dedup' = [dedup EXCEPT ![k] = Absent]
        /\ sweep' = [sweep EXCEPT ![r].doomed = {}]
        /\ claimed' = claimed /\ run' = run /\ clock' = clock /\ status' = status
        /\ raced' = raced
    BY DEF SweepDelete, process, history
  <1>2. clock \in Nat /\ TTL \in Nat
    BY <1>0, ReactorAssumption DEF TypeOK
  <1>3. ASSUME <<run, k>> \notin raced
        PROVE  /\ dedup[k] \in Nat /\ dedup[k] # Absent
               /\ BeyondWindow(dedup[k], clock)
               /\ k \notin DoomedByOthers(r)
    <2>1. /\ dedup[k] # Absent /\ BeyondWindow(dedup[k], sweep[r].now)
          /\ k \notin DoomedByOthers(r)
      BY <1>1, <1>3 DEF RaceFree, DoomedIsExpired
    <2>2. sweep[r].now \in Nat /\ sweep[r].now <= clock
      BY <1>0 DEF SweepOK, TypeOK, Sweep
    <2>3. dedup[k] \in Nat
      BY <1>0, <2>1 DEF TypeOK
    <2>. QED  BY <1>2, <2>1, <2>2, <2>3 DEF BeyondWindow
  <1>4. WindowUnlessSweepsRace' /\ RacesOfRuns'
    BY <1>1, WindowKept DEF RaceFree, RacesOfRuns
  <1>5. ASSUME NEW j \in Key
        PROVE  EntryIsLast(j)'
    <2>1. CASE j # k
      <3>1. dedup'[j] = dedup[j]
        BY <1>0, <1>1, <2>1 DEF TypeOK
      <3>. QED  BY <1>1, <1>2, <3>1, LastKept DEF RaceFree
    <2>2. CASE j = k
      <3>. SUFFICES ASSUME status # "down", <<run, k>> \notin raced,
                           NEW q \in ClaimsNow(k)'
                    PROVE  BeyondWindow(claimedAt'[q], clock)
        BY <1>0, <1>1, <2>2 DEF EntryIsLast, TypeOK
      <3>1. q \in claimed
        BY <1>1 DEF ClaimsNow
      <3>2. /\ msg'[q] = msg[q] /\ bornIn'[q] = bornIn[q]
            /\ claimedAt'[q] = claimedAt[q] /\ claimedAt[q] \in Nat
        BY <1>0, <3>1, ClaimsStay DEF IInv, TypeOK
      <3>3. q \in ClaimsNow(k)
        BY <1>1, <3>1, <3>2 DEF ClaimsNow
      <3>4. claimedAt[q] = dedup[k] \/ BeyondWindow(claimedAt[q], dedup[k])
        BY <1>3, <3>3 DEF RaceFree, EntryIsLast
      <3>. QED  BY <1>2, <1>3, <3>2, <3>4 DEF BeyondWindow
    <2>. QED  BY <2>1, <2>2
  <1>6. ASSUME NEW s \in Request
        PROVE  DoomedIsExpired(s)'
    <2>1. \A q \in Request : sweep'[q] = sweep[q] \/ sweep'[q].doomed = {}
      BY <1>0, <1>1 DEF TypeOK, Sweep
    <2>2. ASSUME NEW j \in sweep'[s].doomed, <<run, j>> \notin raced
          PROVE  dedup'[j] = dedup[j]
      <3>1. s # r /\ j \in sweep[s].doomed /\ j \in Key
        BY <1>0, <1>1, <2>2 DEF TypeOK, Sweep
      <3>2. j # k
        BY <1>3, <2>2, <3>1 DEF DoomedByOthers
      <3>. QED  BY <1>0, <1>1, <3>1, <3>2 DEF TypeOK
    <2>. QED  BY <1>1, <2>1, <2>2, DoomedKept
  <1>. QED  BY <1>4, <1>5, <1>6 DEF RaceFree

(* A sweep that reads an entry dooms it only when it has expired, and when *)
(* another sweep has doomed it already, the two have raced.                *)
LEMMA VisitRaceFree ==
    ASSUME IInv, RaceFree, [Next]_vars, NEW r \in Request, NEW k \in Key,
           SweepVisit(r, k)
    PROVE  RaceFree'
  <1>0. TypeOK
    BY DEF IInv
  <1>1. /\ sweep' = [sweep EXCEPT ![r] = Visited(sweep[r], k, dedup[k])]
        /\ claimed' = claimed /\ run' = run /\ clock' = clock /\ status' = status
        /\ dedup' = dedup /\ clock \in Nat /\ raced \subseteq raced'
        /\ \A j \in sweep'[r].doomed \intersect DoomedByOthers(r) :
              <<run, j>> \in raced'
    BY <1>0 DEF SweepVisit, process, TypeOK
  <1>2. WindowUnlessSweepsRace' /\ \A j \in Key : EntryIsLast(j)'
    BY <1>1, WindowKept, LastKept DEF RaceFree
  <1>3. RacesOfRuns'
    <2>1. run \in Nat /\ \A x \in raced' : x \in raced \/ x[1] = run
      BY <1>0 DEF SweepVisit, TypeOK
    <2>. QED  BY <1>1, <2>1 DEF RaceFree, RacesOfRuns
  <1>4. \A q \in Request : q # r => sweep'[q] = sweep[q]
    BY <1>0, <1>1 DEF TypeOK
  <1>5. ASSUME NEW s \in Request
        PROVE  DoomedIsExpired(s)'
    <2>1. CASE s = r
      <3>1. /\ sweep'[r].now = sweep[r].now
            /\ \A j \in sweep'[r].doomed :
                  j = k /\ dedup[k] # Absent /\ Expired(dedup[k], sweep[r].now)
        BY <1>0, <1>1 DEF Visited, TypeOK
      <3>2. sweep[r].now \in Nat /\ dedup[k] \in Nat \union {Absent} /\ TTL \in Nat
        BY <1>0, ReactorAssumption DEF TypeOK, Sweep
      <3>3. dedup[k] # Absent /\ Expired(dedup[k], sweep[r].now)
               => BeyondWindow(dedup[k], sweep[r].now)
        BY <3>2 DEF Expired, BeyondWindow
      <3>4. DoomedByOthers(r)' = DoomedByOthers(r)
        BY <1>4 DEF DoomedByOthers
      <3>. QED  BY <1>1, <2>1, <3>1, <3>3, <3>4 DEF DoomedIsExpired
    <2>2. CASE s # r
      <3>1. sweep'[s] = sweep[s] /\ DoomedIsExpired(s)
        BY <1>4, <2>2 DEF RaceFree
      <3>2. ASSUME NEW j \in sweep[s].doomed, <<run, j>> \notin raced'
            PROVE  j \notin DoomedByOthers(s)'
        <4>1. j \in DoomedByOthers(r)
          BY <2>2 DEF DoomedByOthers
        <4>2. j \notin sweep'[r].doomed
          BY <1>1, <3>2, <4>1
        <4>3. j \notin DoomedByOthers(s)
          BY <1>1, <3>1, <3>2 DEF DoomedIsExpired
        <4>. QED  BY <1>4, <4>2, <4>3 DEF DoomedByOthers
      <3>. QED  BY <1>1, <3>1, <3>2 DEF DoomedIsExpired
    <2>. QED  BY <2>1, <2>2
  <1>. QED  BY <1>2, <1>3, <1>5 DEF RaceFree

(* The initial states are free of races. *)
LEMMA RaceFreeInit == Init => RaceFree
  BY DEF Init, RaceFree, WindowUnlessSweepsRace, RacesOfRuns, EntryIsLast,
         ClaimsNow, DoomedIsExpired, NoSweep

(* Every step keeps the window of the keys no two sweeps have raced for. *)
LEMMA RaceFreeStep ==
    IInv /\ RaceFree /\ [Next]_vars => RaceFree'
  <1> SUFFICES ASSUME IInv, RaceFree, [Next]_vars
               PROVE  RaceFree'
    OBVIOUS
  <1>0. TypeOK /\ TypeOK' /\ clock \in Nat
    BY TypeStep DEF IInv, TypeOK
  <1>1. ASSUME NEW r \in Request, NEW d \in Deliveries, Receive(r, d)
        PROVE  RaceFree'
    BY <1>0, <1>1, RaceFreeKept DEF Receive, process, history
  <1>2. ASSUME NEW r \in Request, Reject(r)
        PROVE  RaceFree'
    BY <1>0, <1>2, RaceFreeKept DEF Reject, process, history
  <1>3. ASSUME NEW r \in Request, Suppress(r)
        PROVE  RaceFree'
    BY <1>0, <1>3, RaceFreeKept DEF Suppress, process, history
  <1>4. ASSUME NEW r \in Request, Claim(r)
        PROVE  RaceFree'
    BY <1>4, ClaimRaceFree
  <1>5. ASSUME NEW r \in Request, Acknowledge(r)
        PROVE  RaceFree'
    BY <1>0, <1>5, RaceFreeKept DEF Acknowledge, process, history
  <1>6. ASSUME NEW r \in Request, Flush(r)
        PROVE  RaceFree'
    BY <1>0, <1>6, RaceFreeKept DEF Flush, process, history
  <1>7. ASSUME NEW r \in Request, Publish(r)
        PROVE  RaceFree'
    BY <1>0, <1>7, RaceFreeKept DEF Publish, process, history
  <1>8. ASSUME NEW r \in Request, EmitOk(r)
        PROVE  RaceFree'
    BY <1>0, <1>8, RaceFreeKept DEF EmitOk, process, history
  <1>9. ASSUME NEW r \in Request, EmitFail(r)
        PROVE  RaceFree'
    BY <1>0, <1>9, RaceFreeKept DEF EmitFail, process, history
  <1>10. ASSUME NEW r \in Request, SweepStart(r)
         PROVE  RaceFree'
    <2>1. \A q \in Request : sweep'[q] = sweep[q] \/ sweep'[q].doomed = {}
      BY <1>0, <1>10 DEF SweepStart, TypeOK
    <2>. QED  BY <1>0, <1>10, <2>1, RaceFreeKept DEF SweepStart, process, history
  <1>11. ASSUME NEW r \in Request, NEW k \in Key, SweepVisit(r, k)
         PROVE  RaceFree'
    BY <1>11, VisitRaceFree
  <1>12. ASSUME NEW r \in Request, NEW k \in Key, SweepDelete(r, k)
         PROVE  RaceFree'
    BY <1>12, DeleteRaceFree
  <1>13. ASSUME Tick
         PROVE  RaceFree'
    BY <1>0, <1>13, RaceFreeKept DEF Tick, process, history
  <1>14. ASSUME BeginShutdown
         PROVE  RaceFree'
    BY <1>0, <1>14, RaceFreeKept DEF BeginShutdown, process, history
  <1>15. ASSUME Die
         PROVE  RaceFree'
    <2>1. WindowUnlessSweepsRace' /\ RacesOfRuns'
      BY <1>15, WindowKept DEF Die, history, RaceFree, RacesOfRuns
    <2>2. status' = "down" /\ \A s \in Request : sweep'[s].doomed = {}
      BY <1>15 DEF Die, NoSweep
    <2>. QED  BY <2>1, <2>2 DEF RaceFree, EntryIsLast, DoomedIsExpired
  <1>16. ASSUME Restart
         PROVE  RaceFree'
    <2>1. /\ claimed' = claimed /\ bornIn' = bornIn /\ run' = run + 1 /\ run \in Nat
          /\ sweep' = sweep /\ raced' = raced /\ status = "down"
      BY <1>0, <1>16 DEF Restart, history, TypeOK
    <2>2. \A r \in claimed : bornIn[r] <= run /\ bornIn[r] \in Nat
      BY <1>0 DEF IInv, RequestOK, TypeOK
    <2>3. \A k \in Key : ClaimsNow(k)' = {}
      BY <2>1, <2>2 DEF ClaimsNow
    <2>4. \A s \in Request : sweep'[s].doomed = {}
      BY <2>1 DEF IInv, SweepOK
    <2>5. WindowUnlessSweepsRace'
      BY <2>1, WindowKept DEF RaceFree
    <2>6. RacesOfRuns'
      <3>1. \A x \in raced : x[1] \in Nat
        BY <1>0 DEF TypeOK
      <3>. QED  BY <2>1, <3>1 DEF RaceFree, RacesOfRuns
    <2>. QED
      BY <2>3, <2>4, <2>5, <2>6 DEF RaceFree, EntryIsLast, DoomedIsExpired
  <1>17. CASE UNCHANGED vars
    BY <1>0, <1>17, RaceFreeKept DEF vars
  <1>18. ASSUME NEW r \in Request, Count(r)
         PROVE  RaceFree'
    <2>1. \A q \in Request : sweep'[q] = sweep[q] \/ sweep'[q].doomed = {}
      BY <1>0, <1>18 DEF Count, TypeOK, NoSweep
    <2>. QED  BY <1>0, <1>18, <2>1, RaceFreeKept DEF Count, process, history
  <1>. QED
    BY <1>1, <1>2, <1>3, <1>4, <1>5, <1>6, <1>7, <1>8, <1>9, <1>10,
       <1>11, <1>12, <1>13, <1>14, <1>15, <1>16, <1>17, <1>18
       DEF Next, Handle, Emit, SweepStep, Exit, Crash

(* Of everything that interleaves in the reactor, two sweeps that find the *)
(* same entry expired are the only way to two claims of an event within    *)
(* the window of docs/OPERATIONS.md.                                       *)
THEOREM WindowUnlessRace == Spec => []WindowUnlessSweepsRace
  <1>1. RaceFree => WindowUnlessSweepsRace
    BY DEF RaceFree
  <1>2. Init => RaceFree
    BY RaceFreeInit
  <1>. QED
    BY <1>1, <1>2, RaceFreeStep, Invariant, PTL DEF Spec

-----------------------------------------------------------------------------
(* The counters *)

(* The claims of this run that were counted, and those whose emission was  *)
(* reported.                                                               *)
Mine == {r \in claimed : bornIn[r] = run /\ stage[r] # "claimed"}
Reported == {r \in claimed : bornIn[r] = run /\ emission[r] = "ok"}

(* What the counters of a running process count; one that is down has none *)
(* left.                                                                   *)
Ledger ==
    /\ IsFiniteSet(claimed)
    /\ \A r \in Request :
          /\ emission[r] \in {"accepted", "ok"} => r \in published
          /\ emission[r] \in Emitting => bornIn[r] = run
    /\ status # "down" => /\ counters["received"] = Cardinality(Mine)
                          /\ counters["emitOk"] = Cardinality(Reported)
    /\ status = "down" => counters = [c \in Counter |-> 0]

(* A step that counts nothing the ledger is about. *)
LEMMA LedgerKept ==
    ASSUME Ledger, claimed' = claimed, status # "down", status' # "down",
           Mine' = Mine, Reported' = Reported,
           counters'["received"] = counters["received"],
           counters'["emitOk"] = counters["emitOk"],
           \A r \in Request :
              /\ emission'[r] \in {"accepted", "ok"} => r \in published'
              /\ emission'[r] \in Emitting => bornIn'[r] = run'
    PROVE  Ledger'
  BY DEF Ledger

(* The counters start with no claim and no report. *)
LEMMA LedgerInit == Init => Ledger
  <1> SUFFICES ASSUME Init PROVE Ledger
    OBVIOUS
  <1>1. Mine = {} /\ Reported = {} /\ claimed = {}
    BY DEF Init, Mine, Reported
  <1>. QED
    BY <1>1, FS_EmptySet DEF Init, Ledger, Emitting, Counter

(* Every step counts what it claims and reports. *)
LEMMA LedgerStep == IInv /\ Ledger /\ [Next]_vars => Ledger'
  <1> SUFFICES ASSUME IInv, Ledger, [Next]_vars
               PROVE  Ledger'
    OBVIOUS
  <1> USE DEF process, history, Emitting
  <1>0. /\ TypeOK
        /\ \A r \in Request : RequestOK(r)
    BY DEF IInv
  <1>1. ASSUME NEW r \in Request, NEW d \in Deliveries, Receive(r, d)
        PROVE  Ledger'
    <2>1. r \notin claimed /\ emission[r] = "none"
      BY <1>0, <1>1 DEF Receive, RequestOK
    <2>2. Mine' = Mine /\ Reported' = Reported
      BY <1>0, <1>1, <2>1 DEF Receive, Mine, Reported, TypeOK
    <2>3. \A q \in Request :
             /\ emission'[q] \in {"accepted", "ok"} => q \in published'
             /\ emission'[q] \in Emitting => bornIn'[q] = run'
      BY <1>0, <1>1, <2>1 DEF Receive, Ledger, TypeOK
    <2>. QED
      BY <1>1, <2>2, <2>3, LedgerKept DEF Receive
  <1>2. ASSUME NEW r \in Request, Reject(r) \/ Suppress(r)
        PROVE  Ledger'
    <2>1. status # "down"
      BY <1>0, <1>2 DEF Reject, Suppress, RequestOK, InFlight
    <2>2. /\ counters'["received"] = counters["received"]
          /\ counters'["emitOk"] = counters["emitOk"]
      BY <1>0, <1>2 DEF Reject, Suppress, Bump, TypeOK, Counter
    <2>3. UNCHANGED <<status, run, claimed, bornIn, published, emission>>
      BY <1>2 DEF Reject, Suppress
    <2>4. \A q \in claimed : stage'[q] = stage[q]
      BY <1>0, <1>2 DEF Reject, Suppress, RequestOK, TypeOK
    <2>. QED
      BY <2>1, <2>2, <2>3, <2>4, LedgerKept DEF Mine, Reported, Ledger
  <1>3. ASSUME NEW r \in Request, Claim(r)
        PROVE  Ledger'
    <2>1. r \notin claimed /\ status # "down" /\ emission[r] = "none"
      BY <1>0, <1>3 DEF Claim, RequestOK, InFlight
    <2>2. Mine' = Mine /\ Reported' = Reported
      BY <1>0, <1>3, <2>1 DEF Claim, Mine, Reported, TypeOK
    <2>3. IsFiniteSet(claimed')
      BY <1>3, FS_AddElement DEF Ledger, Claim
    <2>. QED
      BY <1>3, <2>1, <2>2, <2>3 DEF Claim, Ledger
  <1>4. ASSUME NEW r \in Request, Acknowledge(r)
        PROVE  Ledger'
    <2>1. r \in claimed /\ bornIn[r] = run /\ status # "down" /\ emission[r] = "none"
      BY <1>0, <1>4 DEF Acknowledge, RequestOK, InFlight
    <2>2. \A q \in Request : emission'[q] = emission[q] \/ (q = r /\ emission'[q] = "running")
      BY <1>0, <1>4 DEF Acknowledge, TypeOK
    <2>3. Mine' = Mine /\ Reported' = Reported
      BY <1>0, <1>4, <2>1, <2>2 DEF Acknowledge, Mine, Reported, TypeOK
    <2>4. \A q \in Request :
             /\ emission'[q] \in {"accepted", "ok"} => q \in published'
             /\ emission'[q] \in Emitting => bornIn'[q] = run'
      BY <1>4, <2>1, <2>2 DEF Acknowledge, Ledger
    <2>. QED
      BY <1>4, <2>1, <2>3, <2>4, LedgerKept DEF Acknowledge
  <1>5. ASSUME NEW r \in Request, Flush(r)
        PROVE  Ledger'
    <2>1. status # "down"
      BY <1>0, <1>5 DEF Flush, RequestOK, InFlight
    <2>2. Mine' = Mine /\ Reported' = Reported
      BY <1>0, <1>5 DEF Flush, Mine, Reported, TypeOK
    <2>. QED
      BY <1>5, <2>1, <2>2, LedgerKept DEF Flush, Ledger
  <1>6. ASSUME NEW r \in Request, Publish(r) \/ EmitFail(r)
        PROVE  Ledger'
    <2>1. status # "down" /\ emission[r] # "ok" /\ bornIn[r] = run
      BY <1>0, <1>6 DEF Publish, EmitFail, RequestOK, Ledger
    <2>2. \A q \in Request : \/ emission'[q] = emission[q]
                             \/ q = r /\ emission'[q] = "failed"
                             \/ q = r /\ emission'[q] = "accepted" /\ r \in published'
      BY <1>0, <1>6 DEF Publish, EmitFail, TypeOK
    <2>3. Mine' = Mine /\ Reported' = Reported
      BY <1>0, <1>6, <2>1, <2>2 DEF Publish, EmitFail, Mine, Reported, TypeOK
    <2>4. published \subseteq published' /\ UNCHANGED <<status, run, claimed, bornIn>>
      BY <1>6 DEF Publish, EmitFail
    <2>5. \A q \in Request :
             /\ emission'[q] \in {"accepted", "ok"} => q \in published'
             /\ emission'[q] \in Emitting => bornIn'[q] = run'
      BY <2>1, <2>2, <2>4 DEF Ledger
    <2>6. /\ counters'["received"] = counters["received"]
          /\ counters'["emitOk"] = counters["emitOk"]
      BY <1>0, <1>6 DEF Publish, EmitFail, Bump, TypeOK, Counter
    <2>. QED
      BY <2>1, <2>3, <2>4, <2>5, <2>6, LedgerKept
  <1>7. ASSUME NEW r \in Request, EmitOk(r)
        PROVE  Ledger'
    <2>1. /\ r \in claimed /\ bornIn[r] = run /\ status # "down"
          /\ r \in published /\ r \notin Reported
      BY <1>0, <1>7 DEF EmitOk, RequestOK, Ledger, Reported
    <2>2. \A q \in Request : emission'[q] = IF q = r THEN "ok" ELSE emission[q]
      BY <1>0, <1>7 DEF EmitOk, TypeOK
    <2>3. Mine' = Mine /\ Reported' = Reported \union {r}
      BY <1>0, <1>7, <2>1, <2>2 DEF EmitOk, Mine, Reported, TypeOK
    <2>4. IsFiniteSet(Reported)
      BY FS_Subset DEF Ledger, Reported
    <2>5. Cardinality(Reported') = Cardinality(Reported) + 1
      BY <2>1, <2>3, <2>4, FS_AddElement
    <2>6. /\ counters'["received"] = counters["received"]
          /\ counters'["emitOk"] = counters["emitOk"] + 1
      BY <1>0, <1>7 DEF EmitOk, Bump, TypeOK, Counter
    <2>. QED
      BY <1>7, <2>1, <2>2, <2>3, <2>5, <2>6 DEF EmitOk, Ledger
  <1>8. ASSUME UNCHANGED <<status, run, counters, claimed, bornIn, published,
                           emission, stage>>
        PROVE  Ledger'
    BY <1>8 DEF Ledger, Mine, Reported
  <1>9. ASSUME BeginShutdown PROVE Ledger'
    <2>1. status # "down" /\ status' # "down"
      BY <1>9 DEF BeginShutdown
    <2>. QED
      BY <1>9, <2>1, LedgerKept DEF BeginShutdown, Mine, Reported, Ledger
  <1>10. ASSUME Die PROVE Ledger'
    <2>1. \A r \in Request : emission'[r] = IF emission[r] \in Emitting
                                            THEN "lost" ELSE emission[r]
      BY <1>10 DEF Die
    <2>. QED
      BY <1>10, <2>1 DEF Die, Ledger
  <1>11. ASSUME Restart PROVE Ledger'
    <2>1. \A r \in claimed : bornIn[r] # run' /\ r \in Request
      BY <1>0, <1>11 DEF Restart, RequestOK, TypeOK
    <2>2. Mine' = {} /\ Reported' = {}
      BY <1>11, <2>1 DEF Restart, Mine, Reported
    <2>3. counters' = [c \in Counter |-> 0] /\ status' = "up" /\ claimed' = claimed
      BY <1>11 DEF Restart, Ledger
    <2>4. \A r \in Request : emission[r] \notin Emitting
      BY <1>0, <1>11 DEF Restart, RequestOK
    <2>. QED
      BY <1>11, <2>2, <2>3, <2>4, FS_EmptySet DEF Restart, Ledger, Counter
  <1>12. ASSUME NEW r \in Request, SweepStep(r) PROVE Ledger'
    BY <1>8, <1>12 DEF SweepStep, SweepStart, SweepVisit, SweepDelete
  <1>13. ASSUME Tick PROVE Ledger'
    BY <1>8, <1>13 DEF Tick
  <1>14. CASE UNCHANGED vars
    BY <1>8, <1>14 DEF vars
  <1>15. ASSUME NEW r \in Request, Count(r)
         PROVE  Ledger'
    <2>1. r \in claimed /\ bornIn[r] = run /\ status # "down"
      BY <1>0, <1>15 DEF Count, RequestOK, InFlight
    <2>2. Mine' = Mine \union {r} /\ Reported' = Reported /\ r \notin Mine
      BY <1>0, <1>15, <2>1 DEF Count, Mine, Reported, TypeOK
    <2>3. IsFiniteSet(Mine)
      BY FS_Subset DEF Ledger, Mine
    <2>4. Cardinality(Mine') = Cardinality(Mine) + 1
      BY <2>2, <2>3, FS_AddElement
    <2>5. /\ counters'["received"] = counters["received"] + 1
          /\ counters'["emitOk"] = counters["emitOk"]
      BY <1>0, <1>15 DEF Count, Bump, TypeOK, Counter
    <2>. QED
      BY <1>15, <2>1, <2>2, <2>4, <2>5 DEF Count, Ledger
  <1>. QED
    BY <1>1, <1>2, <1>3, <1>4, <1>5, <1>6, <1>7, <1>9, <1>10, <1>11, <1>12, <1>13,
       <1>14, <1>15 DEF Next, Handle, Emit, Exit, Crash

(* The staging acceptance test is sound: when as many emissions were       *)
(* reported as deliveries received, every claim of this run was relayed,   *)
(* unless its handler has yet to count it.                                 *)
THEOREM CountersSound == Spec => []CountersTellRelayed
  <1>1. ASSUME Ledger, IInv PROVE CountersTellRelayed
    <2> SUFFICES ASSUME status # "down", counters["received"] = counters["emitOk"]
                 PROVE  Mine \subseteq published
      BY DEF CountersTellRelayed, Mine
    <2>1. Reported \subseteq Mine /\ IsFiniteSet(Mine)
      <3>1. \A r \in claimed : emission[r] = "ok" => stage[r] # "claimed"
        BY <1>1 DEF IInv, RequestOK, TypeOK
      <3>. QED  BY <1>1, <3>1, FS_Subset DEF Ledger, Mine, Reported
    <2>2. Cardinality(Reported) = Cardinality(Mine)
      BY <1>1 DEF Ledger
    <2>3. Reported = Mine
      BY <2>1, <2>2, FS_Subset
    <2>. QED
      BY <1>1, <2>3 DEF Ledger, Reported, IInv, TypeOK
  <1>2. Spec => [](IInv /\ Ledger)
    BY InvInit, InvStep, LedgerInit, LedgerStep, PTL DEF Spec
  <1>. QED
    BY <1>1, <1>2, PTL

-----------------------------------------------------------------------------
(* Refinement *)

(* The initial states are initial states of EventRelay. *)
LEMMA RelayInit == Init => Relay!Init
  BY DEF Init, Relay!Init, Owed

(* Every step of the reactor is a step of EventRelay or a stutter. *)
LEMMA RelayStep == IInv /\ [Next]_vars => [Relay!Next]_Relay!vars
  <1> SUFFICES ASSUME IInv, [Next]_vars
               PROVE  [Relay!Next]_Relay!vars
    OBVIOUS
  <1> USE DEF IInv, TypeOK, process, history
  <1> DEFINE Held == {k \in Key : dedup[k] # Absent}
  <1> DEFINE Step == [Relay!Next]_Relay!vars
  <1>0. ASSUME Held' = Held, Owed' = Owed, claimed' = claimed,
               published' = published
        PROVE  Step
    BY <1>0 DEF Relay!vars
  <1>1. ASSUME NEW r \in Request, NEW d \in Deliveries, Receive(r, d)
        PROVE  Step
    <2>1. Held' = Held /\ Owed' = Owed
      BY <1>1 DEF Receive, Owed, RequestOK
    <2>. QED  BY <1>0, <1>1, <2>1 DEF Receive
  <1>2. ASSUME NEW r \in Request, Reject(r)
        PROVE  Step
    <2>1. Held' = Held /\ Owed' = Owed
      BY <1>2 DEF Reject, Owed, RequestOK
    <2>. QED  BY <1>0, <1>2, <2>1 DEF Reject
  <1>3. ASSUME NEW r \in Request, Suppress(r)
        PROVE  Step
    <2>1. Held' = Held /\ Owed' = Owed
      BY <1>3 DEF Suppress, Owed, RequestOK
    <2>. QED  BY <1>0, <1>3, <2>1 DEF Suppress
  <1>4. ASSUME NEW r \in Request, Claim(r)
        PROVE  Step
    <2>1. PICK x \in Key : x = KeyOf(msg[r]) /\ dedup[x] = Absent
      BY <1>4, MsgTyped, VerdictAccepts DEF Claim
    <2>2. r \notin claimed
      BY <1>4 DEF Claim, RequestOK
    <2>3. Held' = Held \union {x}
      BY <1>4, <2>1 DEF Claim, Absent
    <2>4. Owed' = Owed \union {r}
      BY <1>4, <2>2 DEF Claim, Owed
    <2>5. Relay!Issue(r, x)
      BY <1>4, <2>1, <2>2, <2>3, <2>4 DEF Claim, Relay!Issue
    <2>. QED  BY <2>5 DEF Relay!Next
  <1>5. ASSUME NEW r \in Request, Acknowledge(r)
        PROVE  Step
    <2>1. r \in claimed /\ r \in Owed
      BY <1>5 DEF Acknowledge, RequestOK, Owed
    <2>2. Held' = Held
      BY <1>5 DEF Acknowledge
    <2>3. CASE EmitterWired
      <3>1. Owed' = Owed
        BY <1>5, <2>1, <2>3 DEF Acknowledge, Owed, Emitting
      <3>. QED  BY <1>0, <1>5, <2>2, <3>1 DEF Acknowledge
    <2>4. CASE ~EmitterWired
      <3>1. emission[r] = "none"
        BY <1>5 DEF Acknowledge, RequestOK
      <3>2. Owed' = Owed \ {r}
        BY <1>5, <2>1, <2>4, <3>1 DEF Acknowledge, Owed, Emitting
      <3>3. Relay!Settle(r)
        BY <1>5, <2>1, <2>2, <3>2 DEF Acknowledge, Relay!Settle
      <3>. QED  BY <3>3 DEF Relay!Next
    <2>. QED  BY <2>3, <2>4
  <1>6. ASSUME NEW r \in Request, Flush(r)
        PROVE  Step
    <2>1. Held' = Held /\ Owed' = Owed
      BY <1>6 DEF Flush, Owed, Stage
    <2>. QED  BY <1>0, <1>6, <2>1 DEF Flush
  <1>7. ASSUME NEW r \in Request, Publish(r)
        PROVE  Step
    <2>1. r \in Owed /\ r \notin published
      BY <1>7 DEF Publish, RequestOK, Owed, Emitting
    <2>2. Held' = Held /\ Owed' = Owed
      BY <1>7, <2>1 DEF Publish, Owed, Emitting
    <2>3. Relay!Relay(r)
      BY <1>7, <2>1, <2>2 DEF Publish, Relay!Relay
    <2>. QED  BY <2>3 DEF Relay!Next
  <1>8. ASSUME NEW r \in Request, EmitOk(r)
        PROVE  Step
    <2>1. r \in Owed /\ stage[r] \notin {"claimed", "counted"}
      BY <1>8 DEF EmitOk, RequestOK, Owed, Emitting
    <2>2. Held' = Held /\ Owed' = Owed \ {r}
      BY <1>8, <2>1 DEF EmitOk, Owed, Emitting
    <2>3. Relay!Settle(r)
      BY <1>8, <2>1, <2>2 DEF EmitOk, Relay!Settle
    <2>. QED  BY <2>3 DEF Relay!Next
  <1>9. ASSUME NEW r \in Request, EmitFail(r)
        PROVE  Step
    <2>1. r \in Owed /\ stage[r] \notin {"claimed", "counted"}
      BY <1>9 DEF EmitFail, RequestOK, Owed, Emitting
    <2>2. Held' = Held /\ Owed' = Owed \ {r}
      BY <1>9, <2>1 DEF EmitFail, Owed, Emitting
    <2>3. Relay!Settle(r)
      BY <1>9, <2>1, <2>2 DEF EmitFail, Relay!Settle
    <2>. QED  BY <2>3 DEF Relay!Next
  <1>10. ASSUME NEW r \in Request, SweepStart(r)
        PROVE  Step
    <2>1. Held' = Held /\ Owed' = Owed
      BY <1>10 DEF SweepStart, Owed
    <2>. QED  BY <1>0, <1>10, <2>1 DEF SweepStart
  <1>11. ASSUME NEW r \in Request, NEW k \in Key, SweepVisit(r, k)
        PROVE  Step
    <2>1. Held' = Held /\ Owed' = Owed
      BY <1>11 DEF SweepVisit, Owed
    <2>. QED  BY <1>0, <1>11, <2>1 DEF SweepVisit
  <1>12. ASSUME NEW r \in Request, NEW k \in Key, SweepDelete(r, k)
        PROVE  Step
    <2>1. Owed' = Owed
      BY <1>12 DEF SweepDelete, Owed
    <2>2. CASE dedup[k] = Absent
      <3>1. Held' = Held
        BY <1>12, <2>2 DEF SweepDelete
      <3>. QED  BY <1>0, <1>12, <2>1, <3>1 DEF SweepDelete
    <2>3. CASE dedup[k] # Absent
      <3>1. k \in Held /\ Held' = Held \ {k}
        BY <1>12, <2>3 DEF SweepDelete
      <3>2. Relay!Forget(k)
        BY <1>12, <2>1, <3>1 DEF SweepDelete, Relay!Forget
      <3>. QED  BY <3>2 DEF Relay!Next
    <2>. QED  BY <2>2, <2>3
  <1>13. ASSUME Tick
        PROVE  Step
    <2>1. Held' = Held /\ Owed' = Owed
      BY <1>13 DEF Tick, Owed
    <2>. QED  BY <1>0, <1>13, <2>1 DEF Tick
  <1>14. ASSUME BeginShutdown
        PROVE  Step
    <2>1. Held' = Held /\ Owed' = Owed
      BY <1>14 DEF BeginShutdown, Owed
    <2>. QED  BY <1>0, <1>14, <2>1 DEF BeginShutdown
  <1>15. ASSUME Die
        PROVE  Step
    <2>1. Held' = {} /\ Owed' = {}
      BY <1>15 DEF Die, Owed, InFlight, Emitting
    <2>2. Relay!Die
      BY <1>15, <2>1 DEF Die, Relay!Die
    <2>. QED  BY <2>2 DEF Relay!Next
  <1>16. ASSUME Restart
        PROVE  Step
    <2>1. Held' = Held /\ Owed' = Owed
      BY <1>16 DEF Restart, Owed
    <2>. QED  BY <1>0, <1>16, <2>1 DEF Restart
  <1>17. CASE UNCHANGED vars
    <2>1. Held' = Held /\ Owed' = Owed
      BY <1>17 DEF vars, Owed
    <2>. QED  BY <1>0, <1>17, <2>1 DEF vars
  <1>18. ASSUME NEW r \in Request, Count(r)
         PROVE  Step
    <2>1. r \in claimed /\ stage[r] = "claimed"
      BY <1>18 DEF Count, RequestOK
    <2>2. Held' = Held /\ Owed' = Owed
      BY <1>18, <2>1 DEF Count, Owed
    <2>. QED  BY <1>0, <1>18, <2>2 DEF Count
  <1>. QED
    BY <1>1, <1>2, <1>3, <1>4, <1>5, <1>6, <1>7, <1>8, <1>9, <1>10,
       <1>11, <1>12, <1>13, <1>14, <1>15, <1>16, <1>17, <1>18
       DEF Next, Handle, Emit, SweepStep, Exit, Crash

(* The reactor implements the relay: an event has at most one envelope in  *)
(* the making while its key is held, and a claim is relayed at most once.  *)
THEOREM Refinement == Spec => RelayPromise
  BY RelayInit, RelayStep, Invariant, PTL DEF Spec, RelayPromise, Relay!Spec

-----------------------------------------------------------------------------
(* What the consumers have of it.                                          *)

LEMMA RelayBackedInit == Relay!Init => Relay!Backed
  BY DEF Relay!Init, Relay!Backed

(* A ticket is owed from its issue, and relayed while owed. *)
LEMMA RelayBackedStep ==
    ASSUME Relay!Backed, [Relay!Next]_(Relay!vars)
    PROVE  Relay!Backed'
<1>1. CASE Relay!Next
  BY <1>1 DEF Relay!Next, Relay!Issue, Relay!Relay, Relay!Settle, Relay!Forget,
              Relay!Die, Relay!Backed
<1>2. CASE UNCHANGED Relay!vars
  BY <1>2 DEF Relay!vars, Relay!Backed
<1> QED
  BY <1>1, <1>2

(* A ticket is issued once, so what is owed no longer is not owed again.   *)
LEMMA RelayKeepsLost ==
    ASSUME Relay!Backed, Relay!Next
    PROVE  /\ published \subseteq published'
           /\ (claimed \ Owed) \subseteq (claimed' \ Owed')
           /\ published' \intersect (claimed \ Owed) \subseteq published
BY DEF Relay!Next, Relay!Issue, Relay!Relay, Relay!Settle, Relay!Forget,
       Relay!Die, Relay!Backed

(* The reactor emits for requests that claimed their key only, and an      *)
(* envelope that failed to be emitted, or whose goroutine died with the    *)
(* process, is not emitted later, in this run of the process or the next;  *)
(* only another delivery of its event may still bring the event across.    *)
THEOREM LostStaysLost == Spec => []Relay!Backed /\ Relay!NoneRevived
<1> DEFINE Kept == /\ published \subseteq published'
                  /\ (claimed \ Owed) \subseteq (claimed' \ Owed')
                  /\ published' \intersect (claimed \ Owed) \subseteq published
<1>1. Relay!Backed /\ [Relay!Next]_(Relay!vars) => Relay!Backed'
  BY RelayBackedStep
<1>2. Relay!Backed /\ [Relay!Next]_(Relay!vars) => [Kept]_(Relay!vars)
  BY RelayKeepsLost
<1>3. RelayPromise => []Relay!Backed /\ Relay!NoneRevived
  BY RelayBackedInit, <1>1, <1>2, PTL DEF RelayPromise, Relay!Spec, Relay!NoneRevived
<1> QED
  BY Refinement, <1>3, PTL
=============================================================================
