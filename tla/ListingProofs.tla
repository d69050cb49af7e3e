--------------------------- MODULE ListingProofs ---------------------------
(* Theorems about Listing: they hold for every limit, any number of reads, *)
(* accounts and objects.                                                   *)
EXTENDS Listing, FiniteSetTheorems, WellFoundedInduction, TLAPS

-----------------------------------------------------------------------------
(* The newest of a set *)

(* Sets of ids are finite. *)
LEMMA IdsFinite == ASSUME NEW S, S \subseteq Id PROVE IsFiniteSet(S)
<1>1. IsFiniteSet(Id)
  BY FS_Interval, ListingAssumption DEF Id
<1> QED
  BY <1>1, FS_Subset

(* Whatever is left out of the newest is older than all of them.           *)
LEMMA NewestIsClosed ==
    ASSUME NEW S, S \subseteq Id, NEW n \in Int,
           NEW x \in S, x \notin Newest(S, n), NEW y \in Newest(S, n)
    PROVE  x < y
<1> DEFINE Above(z) == {w \in S : w > z}
<1>1. x \in Int /\ y \in Int /\ y \in S /\ S \subseteq Int
  BY ListingAssumption DEF Newest, Id
<1>2. SUFFICES ASSUME ~(x < y) PROVE FALSE
  OBVIOUS
<1>3. Above(x) \in SUBSET Above(y)
  <2>1. y <= x
    BY <1>1, <1>2
  <2>2. ASSUME NEW w \in S, w > x PROVE w > y
    <3>1. w \in Int
      BY <1>1
    <3> QED
      BY <1>1, <2>1, <2>2, <3>1
  <2> QED
    BY <2>2
<1>4. Above(y) \subseteq Id
  OBVIOUS
<1>5. Cardinality(Above(y)) < n
  BY DEF Newest
<1>6. ~(Cardinality(Above(x)) < n)
  BY DEF Newest
<1> HIDE DEF Above
<1>7. IsFiniteSet(Above(y))
  BY <1>4, IdsFinite
<1>8. IsFiniteSet(Above(x)) /\ Cardinality(Above(x)) <= Cardinality(Above(y))
  BY <1>3, <1>7, FS_Subset
<1>9. Cardinality(Above(x)) \in Nat /\ Cardinality(Above(y)) \in Nat
  BY <1>7, <1>8, FS_CardinalityType
<1> QED
  BY <1>5, <1>6, <1>8, <1>9

(* The newest of a set are of the set. *)
LEMMA NewestSubset == ASSUME NEW S, NEW n PROVE Newest(S, n) \subseteq S
BY DEF Newest

(* A limit is positive and not above the maximum, whatever was asked for.  *)
LEMMA ClampRange == ASSUME NEW l \in Int PROVE Clamp(l) \in 1..MaxLimit
BY ListingAssumption DEF Clamp

-----------------------------------------------------------------------------
(* What a page takes *)

Rest(v) == {x \in exists[v.scope] : Behind(v, x)}
PageOf(v) == Newest(Rest(v), v.limit)
Taken(v) == Newest(PageOf(v), v.limit - Cardinality(v.items))

(* What a page takes was behind the read, and what it leaves is behind it  *)
(* still.                                                                  *)
LEMMA TakenOrBehind ==
    ASSUME ListingTypeOK, NEW r \in Reader
    PROVE  /\ Taken(read[r]) \subseteq PageOf(read[r])
           /\ PageOf(read[r]) \subseteq Rest(read[r])
           /\ Rest(read[r]) \subseteq Id
           /\ \A x \in Rest(read[r]) \ Taken(read[r]), y \in Taken(read[r]) : x < y
<1> DEFINE v == read[r]
<1>1. Rest(v) \subseteq Id /\ v.limit \in Int /\ v.items \subseteq Id
  BY ListingAssumption DEF ListingTypeOK, Rest
<1>2. v.limit - Cardinality(v.items) \in Int
  BY <1>1, IdsFinite, FS_CardinalityType
<1>3. PageOf(v) \subseteq Rest(v) /\ Taken(v) \subseteq PageOf(v)
  BY NewestSubset DEF PageOf, Taken
<1> HIDE DEF v
<1>4. ASSUME NEW x \in Rest(v) \ Taken(v), NEW y \in Taken(v) PROVE x < y
  <2>1. CASE x \in PageOf(v)
    <3>1. PageOf(v) \subseteq Id
      BY <1>1, <1>3
    <3> QED
      BY <1>2, <2>1, <3>1, NewestIsClosed DEF Taken
  <2>2. CASE x \notin PageOf(v)
    <3>1. y \in PageOf(v)
      BY <1>3
    <3> QED
      BY <1>1, <2>2, <3>1, NewestIsClosed DEF PageOf
  <2> QED
    BY <2>1, <2>2
<1> QED
  BY <1>1, <1>3, <1>4 DEF v

(* A page, with the names above. *)
LEMMA PageEffect ==
    ASSUME ListingTypeOK, NEW r \in Reader, Page(r)
    PROVE  LET v == read[r]
               over == Taken(v) # PageOf(v)
           IN
           /\ v.state = "reading"
           /\ read' = [read EXCEPT ![r] =
                 [v EXCEPT !.items = v.items \union Taken(v), !.more = over,
                           !.state = IF over \/ PageOf(v) = Rest(v)
                                     THEN "done" ELSE "reading"]]
           /\ UNCHANGED <<exists, latest, got, throughout>>
BY DEF Page, Taken, PageOf, Rest, collection, ListingTypeOK

-----------------------------------------------------------------------------
(* The invariant *)

(* It holds at the start. *)
LEMMA ListingInit == InitListing => ListingInv
<1> SUFFICES ASSUME InitListing PROVE ListingInv
  OBVIOUS
<1>1. Resting \in [state: {"idle", "reading", "done", "failed"},
                   scope: Scope, limit: 1..MaxLimit, after: Id \union {Top},
                   items: SUBSET Id, more: BOOLEAN]
  BY ListingAssumption DEF Resting
<1>2. ListingTypeOK
  BY <1>1, ListingAssumption DEF InitListing, ListingTypeOK
<1> QED
  BY <1>2 DEF InitListing, ListingInv, ReadOK, NoGaps, CompleteUnlessMore, Resting

(* A read that is untouched keeps what is true of it while objects appear  *)
(* and vanish.                                                             *)
LEMMA Untouched ==
    ASSUME ListingInv, ListingTypeOK', NEW r \in Reader,
           read'[r] = read[r], got'[r] = got[r],
           throughout'[r] \subseteq throughout[r],
           throughout'[r] \subseteq exists'[read[r].scope]
    PROVE  /\ ReadOK(r)'
           /\ \A x \in throughout'[r] :
                 x \in Returned(r)' \/ read'[r].state = "failed" \/ Behind(read'[r], x)
           /\ (read'[r].state = "done" /\ ~read'[r].more)
                 => throughout'[r] \subseteq Returned(r)'
BY DEF ListingInv, ReadOK, NoGaps, CompleteUnlessMore, Returned

(* What a step has to keep of the read it is about.                        *)
Sound(r) ==
    /\ ReadOK(r)
    /\ \A x \in throughout[r] :
          x \in Returned(r) \/ read[r].state = "failed" \/ Behind(read[r], x)
    /\ (read[r].state = "done" /\ ~read[r].more) => throughout[r] \subseteq Returned(r)

(* The invariant is the soundness of every read, and the types. *)
LEMMA SoundIsInv ==
    ListingInv <=> ListingTypeOK /\ \A r \in Reader : Sound(r)
BY DEF ListingInv, Sound, NoGaps, CompleteUnlessMore

(* A new object is newer than all that was there. *)
LEMMA AppearStep ==
    ASSUME ListingInv, NEW s \in Scope, Appear(s)
    PROVE  ListingInv'
<1>1. latest + 1 \in Id /\ latest + 1 \in 0..MaxId
  BY ListingAssumption DEF ListingInv, ListingTypeOK, Appear, Id
<1>2. ListingTypeOK'
  BY <1>1 DEF ListingInv, ListingTypeOK, Appear
<1>3. \A r \in Reader : Sound(r)'
  <2> TAKE r \in Reader
  <2>1. throughout'[r] \subseteq exists'[read[r].scope]
    BY DEF ListingInv, ListingTypeOK, ReadOK, Appear
  <2> QED
    BY <1>2, <2>1, Untouched DEF Appear, Sound
<1> QED
  BY <1>2, <1>3 DEF ListingInv, Sound, NoGaps, CompleteUnlessMore

(* What vanishes was not there all the time. *)
LEMMA VanishStep ==
    ASSUME ListingInv, NEW s \in Scope, NEW x \in Id, Vanish(s, x)
    PROVE  ListingInv'
<1>1. ListingTypeOK'
  BY DEF ListingInv, ListingTypeOK, Vanish
<1>2. \A r \in Reader : Sound(r)'
  <2> TAKE r \in Reader
  <2>1. throughout'[r] = throughout[r] \ {x}
    BY DEF Vanish
  <2>2. throughout'[r] \subseteq exists'[read[r].scope]
    BY <2>1 DEF ListingInv, ListingTypeOK, ReadOK, Vanish
  <2> QED
    BY <1>1, <2>1, <2>2, Untouched DEF Vanish, Sound
<1> QED
  BY <1>1, <1>2 DEF ListingInv, Sound, NoGaps, CompleteUnlessMore

(* A read that starts has seen nothing and misses nothing. *)
LEMMA StartStep ==
    ASSUME ListingInv, NEW r \in Reader, NEW s \in Scope, NEW l \in Int,
           NEW after \in Id \union {Top}, Start(r, s, l, after)
    PROVE  ListingInv'
<1>1. ListingTypeOK'
  BY ClampRange DEF ListingInv, ListingTypeOK, Start
<1>2. Sound(r)'
  <2>1. /\ read'[r] = [state |-> "reading", scope |-> s, limit |-> Clamp(l),
                       after |-> after, items |-> {}, more |-> FALSE]
        /\ throughout'[r] = {x \in exists[s] : x < after}
        /\ exists' = exists /\ got'[r] = {}
    BY DEF ListingInv, ListingTypeOK, ReadOK, Start
  <2> QED
    BY <2>1 DEF Sound, ReadOK, Behind, Returned
<1>3. \A q \in Reader \ {r} : Sound(q)'
  <2> TAKE q \in Reader \ {r}
  <2>1. /\ read'[q] = read[q] /\ got'[q] = got[q]
        /\ throughout'[q] = throughout[q] /\ exists' = exists
    BY DEF ListingInv, ListingTypeOK, Start
  <2>2. throughout'[q] \subseteq exists'[read[q].scope]
    BY <2>1 DEF ListingInv, ReadOK
  <2> QED
    BY <1>1, <2>1, <2>2, Untouched DEF Sound
<1> QED
  BY <1>1, <1>2, <1>3 DEF ListingInv, Sound, NoGaps, CompleteUnlessMore

(* The page is behind the read, so that what it leaves, and only that, is  *)
(* behind what it takes; when it is the last one it leaves nothing.        *)
LEMMA PageStep ==
    ASSUME ListingInv, NEW r \in Reader, Page(r)
    PROVE  ListingInv'
<1> DEFINE v == read[r]
<1>1. ListingTypeOK
  BY DEF ListingInv
<1>2. /\ v.state = "reading"
      /\ read' = [read EXCEPT ![r] =
            [v EXCEPT !.items = v.items \union Taken(v),
                      !.more = (Taken(v) # PageOf(v)),
                      !.state = IF Taken(v) # PageOf(v) \/ PageOf(v) = Rest(v)
                                THEN "done" ELSE "reading"]]
      /\ UNCHANGED <<exists, latest, got, throughout>>
  BY <1>1, PageEffect
<1>3. /\ Taken(v) \subseteq PageOf(v) /\ PageOf(v) \subseteq Rest(v)
      /\ Rest(v) \subseteq Id
      /\ \A x \in Rest(v) \ Taken(v), y \in Taken(v) : x < y
  BY <1>1, TakenOrBehind
<1>4. v \in [state: {"idle", "reading", "done", "failed"},
             scope: Scope, limit: 1..MaxLimit, after: Id \union {Top},
             items: SUBSET Id, more: BOOLEAN]
  BY <1>1 DEF ListingTypeOK
<1>5. Sound(r)
  BY SoundIsInv
<1> DEFINE w == read'[r]
<1>6. /\ w.items = v.items \union Taken(v) /\ w.more = (Taken(v) # PageOf(v))
      /\ w.after = v.after /\ w.scope = v.scope /\ w.limit = v.limit
      /\ w.state = IF Taken(v) # PageOf(v) \/ PageOf(v) = Rest(v)
                   THEN "done" ELSE "reading"
  BY <1>1, <1>2, <1>4 DEF ListingTypeOK
<1>7. ListingTypeOK'
  <2>1. w \in [state: {"idle", "reading", "done", "failed"},
               scope: Scope, limit: 1..MaxLimit, after: Id \union {Top},
               items: SUBSET Id, more: BOOLEAN]
    BY <1>1, <1>2, <1>3, <1>4 DEF ListingTypeOK
  <2> QED
    BY <1>1, <1>2, <2>1 DEF ListingTypeOK
<1>8. ASSUME NEW x \in throughout[r]
      PROVE  x \in got[r] \union w.items \/ (Behind(w, x) /\ x \in Rest(v) \ Taken(v))
  <2>1. x \in Returned(r) \/ Behind(v, x)
    BY <1>2, <1>5, <1>8 DEF Sound
  <2>2. x \in exists[v.scope]
    BY <1>5, <1>8 DEF Sound, ReadOK
  <2>3. CASE x \in Returned(r)
    BY <1>6, <2>3 DEF Returned
  <2>4. CASE Behind(v, x)
    <3>1. x \in Rest(v)
      BY <2>2, <2>4 DEF Rest
    <3> QED
      BY <1>3, <1>6, <2>4, <3>1 DEF Behind
  <2> QED
    BY <2>1, <2>3, <2>4
<1>9. Sound(r)'
  <2>1. ReadOK(r)'
    <3>1. \A y \in w.items : y < w.after
      BY <1>3, <1>5, <1>6 DEF Sound, ReadOK, Rest, Behind
    <3> QED
      BY <1>2, <1>5, <1>6, <3>1 DEF Sound, ReadOK
  <2>2. \A x \in throughout'[r] : x \in Returned(r)' \/ Behind(w, x)
    BY <1>2, <1>8 DEF Returned
  <2>3. (w.state = "done" /\ ~w.more) => throughout'[r] \subseteq Returned(r)'
    BY <1>2, <1>6, <1>8 DEF Returned
  <2> QED
    BY <2>1, <2>2, <2>3 DEF Sound
<1>10. \A q \in Reader \ {r} : Sound(q)'
  <2> TAKE q \in Reader \ {r}
  <2>1. /\ read'[q] = read[q] /\ got'[q] = got[q]
        /\ throughout'[q] = throughout[q] /\ exists' = exists
    BY <1>1, <1>2 DEF ListingTypeOK
  <2>2. throughout'[q] \subseteq exists'[read[q].scope]
    BY <2>1 DEF ListingInv, ReadOK
  <2> QED
    BY <1>7, <2>1, <2>2, Untouched DEF Sound
<1> QED
  BY <1>7, <1>9, <1>10 DEF ListingInv, Sound, NoGaps, CompleteUnlessMore

(* A read that fails returns nothing and promises nothing.                 *)
LEMMA PageFailsStep ==
    ASSUME ListingInv, NEW r \in Reader, PageFails(r)
    PROVE  ListingInv'
<1>1. ListingTypeOK'
  BY DEF ListingInv, ListingTypeOK, PageFails, collection
<1>2. Sound(r)'
  BY SoundIsInv DEF ListingInv, ListingTypeOK, PageFails, collection, Sound, ReadOK
<1>3. \A q \in Reader \ {r} : Sound(q)'
  <2> TAKE q \in Reader \ {r}
  <2>1. /\ read'[q] = read[q] /\ got'[q] = got[q]
        /\ throughout'[q] = throughout[q] /\ exists' = exists
    BY DEF ListingInv, ListingTypeOK, PageFails, collection
  <2>2. throughout'[q] \subseteq exists'[read[q].scope]
    BY <2>1 DEF ListingInv, ReadOK
  <2> QED
    BY <1>1, <2>1, <2>2, Untouched DEF Sound
<1> QED
  BY <1>1, <1>2, <1>3 DEF ListingInv, Sound, NoGaps, CompleteUnlessMore

(* What the next read of a walk starts behind is the oldest the last one   *)
(* returned.                                                               *)
LEMMA ContinueStep ==
    ASSUME ListingInv, NEW r \in Reader, NEW l \in Int, Continue(r, l)
    PROVE  ListingInv'
<1> DEFINE v == read[r]
<1>1. PICK last \in v.items :
         /\ \A y \in v.items : last <= y
         /\ read' = [read EXCEPT ![r] =
                        [v EXCEPT !.state = "reading", !.limit = Clamp(l),
                                  !.after = last, !.items = {}, !.more = FALSE]]
  BY DEF Continue
<1>2. /\ v.state = "done"
      /\ got' = [got EXCEPT ![r] = got[r] \union v.items]
      /\ UNCHANGED <<exists, latest, throughout>>
  BY DEF Continue, collection
<1>3. /\ v \in [state: {"idle", "reading", "done", "failed"},
               scope: Scope, limit: 1..MaxLimit, after: Id \union {Top},
               items: SUBSET Id, more: BOOLEAN]
      /\ got[r] \subseteq Id
  BY DEF ListingInv, ListingTypeOK
<1>4. Sound(r)
  BY SoundIsInv
<1> DEFINE w == read'[r]
<1>5. /\ w.items = {} /\ w.after = last /\ w.scope = v.scope /\ w.state = "reading"
      /\ got'[r] = got[r] \union v.items
  BY <1>1, <1>2, <1>3 DEF ListingInv, ListingTypeOK
<1>6. ListingTypeOK'
  <2>1. w \in [state: {"idle", "reading", "done", "failed"},
               scope: Scope, limit: 1..MaxLimit, after: Id \union {Top},
               items: SUBSET Id, more: BOOLEAN]
    BY <1>1, <1>3, ClampRange DEF ListingInv, ListingTypeOK
  <2> QED
    BY <1>1, <1>2, <1>3, <2>1 DEF ListingInv, ListingTypeOK
<1>7. Sound(r)'
  <2>1. Id \subseteq Int /\ Id \union {Top} \subseteq Int
    BY ListingAssumption DEF Id, Top
  <2>2. \A y \in got[r] : y >= v.after
    BY <1>4 DEF Sound, ReadOK
  <2>3. last < v.after
    BY <1>4 DEF Sound, ReadOK
  <2>4. \A y \in got'[r] : y >= last
    BY <1>1, <1>3, <1>5, <2>1, <2>2, <2>3
  <2>5. ReadOK(r)'
    BY <1>2, <1>4, <1>5, <2>4 DEF Sound, ReadOK
  <2>6. ASSUME NEW x \in throughout[r] PROVE x \in got'[r] \/ Behind(w, x)
    <3>1. x \in Returned(r) \/ Behind(v, x)
      BY <1>2, <1>4, <2>6 DEF Sound
    <3> QED
      BY <1>5, <3>1 DEF Returned, Behind
  <2> QED
    BY <1>2, <1>5, <2>5, <2>6 DEF Sound, Returned
<1>8. \A q \in Reader \ {r} : Sound(q)'
  <2> TAKE q \in Reader \ {r}
  <2>1. /\ read'[q] = read[q] /\ got'[q] = got[q]
        /\ throughout'[q] = throughout[q] /\ exists' = exists
    BY <1>1, <1>2 DEF ListingInv, ListingTypeOK
  <2>2. throughout'[q] \subseteq exists'[read[q].scope]
    BY <2>1 DEF ListingInv, ReadOK
  <2> QED
    BY <1>6, <2>1, <2>2, Untouched DEF Sound
<1> QED
  BY <1>6, <1>7, <1>8 DEF ListingInv, Sound, NoGaps, CompleteUnlessMore

(* Every step keeps the invariant. *)
LEMMA ListingStep == ListingInv /\ [ListingNext]_listing => ListingInv'
<1> SUFFICES ASSUME ListingInv, [ListingNext]_listing PROVE ListingInv'
  OBVIOUS
<1>1. CASE UNCHANGED listing
  BY <1>1 DEF listing, ListingInv, ListingTypeOK, ReadOK, NoGaps, CompleteUnlessMore, Returned
<1>2. CASE Change
  BY <1>2, AppearStep, VanishStep DEF Change
<1>3. CASE \E r \in Reader :
              \/ \E s \in Scope, l \in Int, after \in Id \union {Top} :
                    Start(r, s, l, after)
              \/ Page(r)
              \/ PageFails(r)
              \/ \E l \in Int : Continue(r, l)
  BY <1>3, StartStep, PageStep, PageFailsStep, ContinueStep
<1> QED
  BY <1>1, <1>2, <1>3 DEF ListingNext

(* Reads, the walks they make up and the collections keep their types.     *)
THEOREM ListingTypes == ListingSpec => []ListingTypeOK
<1>1. ListingInv => ListingTypeOK
  BY DEF ListingInv
<1> QED
  BY <1>1, ListingInit, ListingStep, PTL DEF ListingSpec

(* Pages and reads that follow one another leave no gap, whatever appears  *)
(* and vanishes meanwhile.                                                 *)
THEOREM Gapless == ListingSpec => []NoGaps
<1>1. ListingInv => NoGaps
  BY DEF ListingInv
<1> QED
  BY <1>1, ListingInit, ListingStep, PTL DEF ListingSpec

(* An answer with has_more = false is complete. *)
THEOREM Complete == ListingSpec => []CompleteUnlessMore
<1>1. ListingInv => CompleteUnlessMore
  BY DEF ListingInv
<1> QED
  BY <1>1, ListingInit, ListingStep, PTL DEF ListingSpec

(* A walk gives no object twice. *)
THEOREM Once == ListingSpec => []NoneTwice
<1>1. ListingInv => NoneTwice
  <2> SUFFICES ASSUME ListingInv, NEW r \in Reader PROVE got[r] \intersect read[r].items = {}
    BY DEF NoneTwice
  <2>1. /\ \A y \in read[r].items : y < read[r].after
        /\ \A y \in got[r] : y >= read[r].after
    BY DEF ListingInv, ReadOK
  <2>2. got[r] \subseteq Int /\ read[r].after \in Int
    BY ListingAssumption DEF ListingInv, ListingTypeOK, Id, Top
  <2> QED
    BY <2>1, <2>2
<1> QED
  BY <1>1, ListingInit, ListingStep, PTL DEF ListingSpec

(* A walk gives what was there all the time once each, up to where it is.  *)
THEOREM EachOnce == ListingSpec => []OnceEach
<1>1. NoGaps /\ NoneTwice => OnceEach
  BY DEF OnceEach
<1> QED
  BY <1>1, Gapless, Once, PTL

-----------------------------------------------------------------------------
(* How many the newest are *)

(* A set of numbers that is not empty has a least one. *)
LEMMA LeastExists ==
    ASSUME NEW S, S \subseteq Nat, S # {}
    PROVE  \E x \in S : \A y \in S : x <= y
<1>1. PICK x \in S : \A y \in S : <<y, x>> \notin OpToRel(<, Nat)
  BY NatLessThanWellFounded, WFMin
<1>2. ASSUME NEW y \in S PROVE x <= y
  <2>1. ~(y < x)
    BY <1>1 DEF OpToRel
  <2> QED
    BY <2>1
<1> QED
  BY <1>2

(* And one of ids a greatest. *)
LEMMA GreatestExists ==
    ASSUME NEW S, S \subseteq Id, S # {}
    PROVE  \E x \in S : \A y \in S : y <= x
<1> DEFINE T == {MaxId - x : x \in S}
<1>1. T \subseteq Nat /\ T # {}
  BY ListingAssumption DEF Id
<1>2. PICK t \in T : \A u \in T : t <= u
  BY <1>1, LeastExists
<1>3. PICK x \in S : t = MaxId - x
  BY <1>2
<1>4. ASSUME NEW y \in S PROVE y <= x
  BY <1>2, <1>3, ListingAssumption DEF Id
<1> QED
  BY <1>4

(* The n newest are at most n, and no fewer unless there are no more.      *)
LEMMA NewestSize ==
    ASSUME NEW S, S \subseteq Id, NEW n \in Nat
    PROVE  /\ Cardinality(Newest(S, n)) <= n
           /\ Newest(S, n) # S => Cardinality(Newest(S, n)) = n
<1> DEFINE N == Newest(S, n)
<1> DEFINE Above(z) == {w \in S : w > z}
<1>1. N \subseteq S /\ IsFiniteSet(N) /\ Cardinality(N) \in Nat /\ S \subseteq Nat
  <2>1. N \subseteq S /\ S \subseteq Nat
    BY NewestSubset, ListingAssumption DEF Id
  <2>2. IsFiniteSet(N)
    BY <2>1, IdsFinite
  <2> QED
    BY <2>1, <2>2, FS_CardinalityType
<1>2. ASSUME NEW x \in S, x \notin N, NEW y \in N PROVE x < y
  BY <1>2, NewestIsClosed
<1>3. ASSUME NEW x \in S PROVE x \in N <=> Cardinality(Above(x)) < n
  BY DEF Newest
<1> HIDE DEF N
<1>4. Cardinality(N) <= n
  <2>1. CASE N = {}
    BY <2>1, FS_EmptySet
  <2>2. CASE N # {}
    <3>1. PICK m \in N : \A y \in N : m <= y
      BY <1>1, <2>2, LeastExists
    <3>2. ASSUME NEW y PROVE y \in Above(m) <=> y \in N \ {m}
      <4>1. CASE y \in N
        BY <1>1, <3>1, <4>1
      <4>2. CASE y \in S /\ y \notin N
        <5>1. y < m
          BY <1>2, <4>2
        <5> QED
          BY <1>1, <4>2, <5>1
      <4> QED
        BY <1>1, <4>1, <4>2
    <3>3. Above(m) = N \ {m}
      BY <3>2
    <3>4. Cardinality(N \ {m}) = Cardinality(N) - 1
      BY <1>1, FS_RemoveElement
    <3>5. Cardinality(N) - 1 < n
      BY <1>1, <1>3, <3>3, <3>4
    <3> QED
      BY <1>1, <3>5
  <2> QED
    BY <2>1, <2>2
<1>5. ASSUME N # S PROVE Cardinality(N) >= n
  <2>1. PICK x \in S \ N : \A y \in S \ N : y <= x
    BY <1>1, <1>5, GreatestExists
  <2>2. ASSUME NEW y PROVE y \in Above(x) <=> y \in N
    <3>1. CASE y \in N
      BY <1>1, <1>2, <2>1, <3>1
    <3>2. CASE y \in S \ N
      BY <1>1, <2>1, <3>2
    <3> QED
      BY <1>1, <3>1, <3>2
  <2>3. Above(x) = N
    BY <2>2
  <2>4. ~(Cardinality(Above(x)) < n)
    BY <1>3, <2>1
  <2> HIDE DEF Above
  <2> QED
    BY <1>1, <2>3, <2>4
<1> QED
  BY <1>1, <1>4, <1>5 DEF N

-----------------------------------------------------------------------------
(* has_more and the limit *)

FullOK(r) ==
    /\ Cardinality(read[r].items) <= read[r].limit
    /\ read[r].more => Cardinality(read[r].items) = read[r].limit
    /\ read[r].state = "reading" => ~read[r].more

FullInv == ListingInv /\ \A r \in Reader : FullOK(r)

(* A read that returns nothing is neither too long nor full.               *)
LEMMA NothingIsFine ==
    ASSUME NEW v, v.items = {}, v.limit \in 1..MaxLimit
    PROVE  Cardinality(v.items) <= v.limit
BY FS_EmptySet, ListingAssumption

(* A page takes no more than there is room for, and stops short of it only *)
(* at the end of the page.                                                 *)
LEMMA PageFull ==
    ASSUME FullInv, NEW r \in Reader, Page(r)
    PROVE  FullOK(r)'
<1> DEFINE v == read[r]
           room == v.limit - Cardinality(v.items)
           w == read'[r]
<1>1. ListingTypeOK /\ FullOK(r)
  BY DEF FullInv, ListingInv
<1>2. /\ v.items \subseteq Id /\ v.limit \in Nat
      /\ IsFiniteSet(v.items) /\ Cardinality(v.items) \in Nat
  BY <1>1, IdsFinite, FS_CardinalityType, ListingAssumption DEF ListingTypeOK
<1>3. room \in Nat
  BY <1>1, <1>2 DEF FullOK
<1>4. /\ w.items = v.items \union Taken(v) /\ w.more = (Taken(v) # PageOf(v))
      /\ w.limit = v.limit
      /\ w.state = "reading" => Taken(v) = PageOf(v)
  <2>1. read' = [read EXCEPT ![r] =
            [v EXCEPT !.items = v.items \union Taken(v),
                      !.more = (Taken(v) # PageOf(v)),
                      !.state = IF Taken(v) # PageOf(v) \/ PageOf(v) = Rest(v)
                                THEN "done" ELSE "reading"]]
    BY <1>1, PageEffect
  <2>2. v \in [state: {"idle", "reading", "done", "failed"},
               scope: Scope, limit: 1..MaxLimit, after: Id \union {Top},
               items: SUBSET Id, more: BOOLEAN]
    BY <1>1 DEF ListingTypeOK
  <2> QED
    BY <1>1, <2>1, <2>2 DEF ListingTypeOK
<1>5. /\ Taken(v) \subseteq Rest(v) /\ PageOf(v) \subseteq Id /\ Taken(v) \subseteq Id
  BY <1>1, TakenOrBehind
<1>6. Taken(v) = Newest(PageOf(v), room)
  BY DEF Taken
<1> HIDE DEF v, room, w
<1>7. /\ Cardinality(Taken(v)) <= room
      /\ Taken(v) # PageOf(v) => Cardinality(Taken(v)) = room
  BY <1>3, <1>5, <1>6, NewestSize
<1>8. v.items \intersect Taken(v) = {}
  <2>1. \A x \in Taken(v), y \in v.items : x < y
    BY <1>5 DEF Rest, Behind
  <2> QED
    BY <1>2, <2>1 DEF Id
<1>9. IsFiniteSet(Taken(v)) /\ Cardinality(Taken(v)) \in Nat
  BY <1>5, IdsFinite, FS_CardinalityType
<1>10. Cardinality(w.items) = Cardinality(v.items) + Cardinality(Taken(v))
  <2>1. Cardinality(v.items \intersect Taken(v)) = 0
    BY <1>8, FS_EmptySet
  <2>2. Cardinality(v.items \union Taken(v))
           = Cardinality(v.items) + Cardinality(Taken(v)) - Cardinality(v.items \intersect Taken(v))
    BY <1>2, <1>9, FS_Union
  <2> QED
    BY <1>2, <1>4, <1>9, <2>1, <2>2
<1>11. Cardinality(w.items) <= w.limit
  BY <1>2, <1>4, <1>7, <1>9, <1>10 DEF room
<1>12. ASSUME w.more PROVE Cardinality(w.items) = w.limit
  <2>1. Taken(v) # PageOf(v)
    BY <1>4, <1>12
  <2>2. Cardinality(Taken(v)) = room
    BY <1>7, <2>1
  <2>3. w.limit = v.limit
    BY <1>4
  <2> QED
    BY <1>2, <1>10, <2>2, <2>3 DEF room
<1>13. ASSUME w.state = "reading" PROVE ~w.more
  BY <1>4, <1>13
<1> QED
  BY <1>11, <1>12, <1>13 DEF FullOK, w

(* Every step keeps answers within their limits, and has_more to full ones. *)
LEMMA FullStep == FullInv /\ [ListingNext]_listing => FullInv'
<1> SUFFICES ASSUME FullInv, [ListingNext]_listing PROVE FullInv'
  OBVIOUS
<1>1. ListingInv' /\ ListingTypeOK /\ ListingTypeOK'
  BY ListingStep DEF FullInv, ListingInv
<1>2. ASSUME NEW r \in Reader, read'[r] = read[r] PROVE FullOK(r)'
  BY <1>2 DEF FullInv, FullOK
<1>3. ASSUME NEW r \in Reader, read'[r].items = {}, read'[r].more = FALSE PROVE FullOK(r)'
  BY <1>1, <1>3, NothingIsFine, FS_EmptySet, ListingAssumption DEF ListingTypeOK, FullOK
<1>4. ASSUME NEW r \in Reader, Page(r) PROVE \A q \in Reader : FullOK(q)'
  <2>1. \A q \in Reader \ {r} : read'[q] = read[q]
    BY <1>1, <1>4 DEF Page, ListingTypeOK
  <2> QED
    BY <1>2, <1>4, <2>1, PageFull
<1>5. ASSUME NEW r \in Reader, PageFails(r) PROVE \A q \in Reader : FullOK(q)'
  <2>1. \A q \in Reader \ {r} : read'[q] = read[q]
    BY <1>1, <1>5 DEF ListingTypeOK, PageFails
  <2>2. read'[r].items = {} /\ read'[r].more = FALSE
    BY <1>1, <1>5 DEF FullInv, FullOK, ListingTypeOK, PageFails
  <2> QED
    BY <1>2, <1>3, <2>1, <2>2
<1>6. ASSUME NEW r \in Reader, NEW s \in Scope, NEW l \in Int,
             NEW after \in Id \union {Top}, Start(r, s, l, after)
      PROVE  \A q \in Reader : FullOK(q)'
  <2>1. \A q \in Reader \ {r} : read'[q] = read[q]
    BY <1>1, <1>6 DEF ListingTypeOK, Start
  <2>2. read'[r].items = {} /\ read'[r].more = FALSE
    BY <1>1, <1>6 DEF ListingTypeOK, Start
  <2> QED
    BY <1>2, <1>3, <2>1, <2>2
<1>7. ASSUME NEW r \in Reader, NEW l \in Int, Continue(r, l)
      PROVE  \A q \in Reader : FullOK(q)'
  <2>1. \A q \in Reader \ {r} : read'[q] = read[q]
    BY <1>1, <1>7 DEF ListingTypeOK, Continue
  <2>2. read'[r].items = {} /\ read'[r].more = FALSE
    BY <1>1, <1>7 DEF ListingTypeOK, Continue
  <2> QED
    BY <1>2, <1>3, <2>1, <2>2
<1>8. ASSUME read' = read PROVE \A q \in Reader : FullOK(q)'
  BY <1>2, <1>8
<1> QED
  BY <1>1, <1>4, <1>5, <1>6, <1>7, <1>8
     DEF ListingNext, Change, Appear, Vanish, listing, FullInv

(* Before anything is read there is nothing too long. *)
LEMMA FullInvInit == InitListing => FullInv
<1>1. ASSUME InitListing, NEW r \in Reader PROVE FullOK(r)
  <2>1. /\ read[r].items = {} /\ read[r].more = FALSE /\ read[r].limit = 1
    BY <1>1 DEF InitListing, Resting
  <2> QED
    BY <2>1, FS_EmptySet DEF FullOK
<1> QED
  BY <1>1, ListingInit DEF FullInv

(* No answer is longer than was asked for, and has_more = true is said of  *)
(* a full one only.                                                        *)
THEOREM Full == ListingSpec => []FullWhenMore
<1>1. FullInv => FullWhenMore
  BY DEF FullInv, FullOK, FullWhenMore
<1> QED
  BY FullInvInit, <1>1, FullStep, PTL DEF ListingSpec

(* has_more tells the truth, whatever is created and deleted meanwhile.    *)
THEOREM Truthful == ListingSpec => []MoreIsTrue
<1>1. CompleteUnlessMore /\ FullWhenMore => MoreIsTrue
  BY DEF MoreIsTrue
<1> QED
  BY <1>1, Complete, Full, PTL

(* A page after which the read goes on is one of as many objects as were   *)
(* asked for, all of them taken, so that none had been before.             *)
LEMMA GoesOnOnce ==
    ASSUME FullInv, NEW r \in Reader, Page(r), read'[r].state = "reading"
    PROVE  read[r].items = {} /\ read'[r].items # {}
<1> DEFINE v == read[r]
           room == v.limit - Cardinality(v.items)
<1>1. ListingInv /\ ListingTypeOK
  BY DEF FullInv, ListingInv
<1>2. /\ v.limit \in Nat \ {0}
      /\ v.items \subseteq Id /\ IsFiniteSet(v.items) /\ Cardinality(v.items) \in Nat
      /\ room \in Nat
  <2>1. v.limit \in Nat \ {0} /\ v.items \subseteq Id
    BY <1>1, ListingAssumption DEF ListingTypeOK
  <2>2. IsFiniteSet(v.items) /\ Cardinality(v.items) \in Nat
    BY <2>1, IdsFinite, FS_CardinalityType
  <2>3. Cardinality(v.items) <= v.limit
    BY DEF FullInv, FullOK
  <2> QED
    BY <2>1, <2>2, <2>3
<1>3. /\ read'[r].items = v.items \union Taken(v)
      /\ Taken(v) = PageOf(v) /\ PageOf(v) # Rest(v)
  <2>1. read' = [read EXCEPT ![r] =
            [v EXCEPT !.items = v.items \union Taken(v),
                      !.more = (Taken(v) # PageOf(v)),
                      !.state = IF Taken(v) # PageOf(v) \/ PageOf(v) = Rest(v)
                                THEN "done" ELSE "reading"]]
    BY <1>1, PageEffect
  <2>2. v \in [state: {"idle", "reading", "done", "failed"},
               scope: Scope, limit: 1..MaxLimit, after: Id \union {Top},
               items: SUBSET Id, more: BOOLEAN]
    BY <1>1 DEF ListingTypeOK
  <2> QED
    BY <1>1, <2>1, <2>2 DEF ListingTypeOK
<1>4. /\ Rest(v) \subseteq Id /\ PageOf(v) \subseteq Id
      /\ PageOf(v) = Newest(Rest(v), v.limit) /\ Taken(v) = Newest(PageOf(v), room)
  <2>1. Rest(v) \subseteq Id
    BY <1>1 DEF ListingTypeOK, Rest
  <2> QED
    BY <2>1, NewestSubset DEF PageOf, Taken
<1> HIDE DEF v, room
<1>5. Cardinality(PageOf(v)) = v.limit
  BY <1>2, <1>3, <1>4, NewestSize
<1>6. Cardinality(Taken(v)) <= room
  BY <1>2, <1>4, NewestSize
<1>7. Cardinality(v.items) = 0
  BY <1>2, <1>3, <1>5, <1>6 DEF room
<1>8. v.items = {}
  BY <1>2, <1>7, FS_EmptySet
<1>9. Taken(v) # {}
  BY <1>2, <1>3, <1>5, FS_EmptySet
<1> QED
  BY <1>3, <1>8, <1>9 DEF v

(* A read is over with its second request at the latest.                   *)
THEOREM TwoPages == ListingSpec => TwoPagesAtMost
<1> DEFINE Short(r) ==
             (/\ read[r].state = "reading"
              /\ read'[r].state = "reading"
              /\ read'[r] # read[r])
             => read[r].items = {} /\ read'[r].items # {}
<1>1. ASSUME FullInv, ListingNext PROVE \A r \in Reader : Short(r)
  <2>1. ListingTypeOK
    BY <1>1 DEF FullInv, ListingInv
  <2> SUFFICES ASSUME NEW r \in Reader, read[r].state = "reading",
                      read'[r].state = "reading", read'[r] # read[r]
               PROVE  read[r].items = {} /\ read'[r].items # {}
    OBVIOUS
  <2>2. CASE Change
    BY <2>2 DEF Change, Appear, Vanish
  <2>3. ASSUME NEW q \in Reader, NEW s \in Scope, NEW l \in Int,
               NEW after \in Id \union {Top}, Start(q, s, l, after)
        PROVE  FALSE
    <3>1. CASE q = r
      BY <2>3, <3>1 DEF Start
    <3>2. CASE q # r
      BY <2>1, <2>3, <3>2 DEF Start, ListingTypeOK
    <3> QED
      BY <3>1, <3>2
  <2>4. ASSUME NEW q \in Reader, PageFails(q) PROVE FALSE
    <3>1. CASE q = r
      BY <2>1, <2>4, <3>1 DEF PageFails, ListingTypeOK
    <3>2. CASE q # r
      BY <2>1, <2>4, <3>2 DEF PageFails, ListingTypeOK
    <3> QED
      BY <3>1, <3>2
  <2>5. ASSUME NEW q \in Reader, NEW l \in Int, Continue(q, l) PROVE FALSE
    <3>1. CASE q = r
      BY <2>5, <3>1 DEF Continue
    <3>2. CASE q # r
      BY <2>1, <2>5, <3>2 DEF Continue, ListingTypeOK
    <3> QED
      BY <3>1, <3>2
  <2>6. ASSUME NEW q \in Reader, Page(q)
        PROVE  read[r].items = {} /\ read'[r].items # {}
    <3>1. CASE q = r
      BY <1>1, <2>6, <3>1, GoesOnOnce
    <3>2. CASE q # r
      BY <2>1, <2>6, <3>2 DEF Page, ListingTypeOK
    <3> QED
      BY <3>1, <3>2
  <2> QED
    BY <1>1, <2>2, <2>3, <2>4, <2>5, <2>6 DEF ListingNext
<1>2. FullInv /\ [ListingNext]_listing => [\A r \in Reader : Short(r)]_listing
  BY <1>1
<1>3. ListingSpec => []FullInv
  BY FullInvInit, FullStep, PTL DEF ListingSpec
<1> QED
  BY <1>2, <1>3, PTL DEF ListingSpec, TwoPagesAtMost
=============================================================================
