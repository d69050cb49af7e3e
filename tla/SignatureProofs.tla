-------------------------- MODULE SignatureProofs --------------------------
(* What the loop of VerifySignature computes, for headers of any length,   *)
(* and what the check of an int64 lets through.  Induction is over the     *)
(* sets of those lengths for which a fact holds.                           *)
EXTENDS Signature, WellFoundedInduction, TLAPS

(* A set of numbers that has 0, and with each number below n the next one, *)
(* has all up to n: the least one missing would have one before it.        *)
LEMMA UpTo ==
    ASSUME NEW n \in Nat, NEW S, 0 \in S,
           \A i \in 0 .. n - 1 : i \in S => i + 1 \in S
    PROVE  0 .. n \subseteq S
<1> DEFINE Missing == (0 .. n) \ S
<1> SUFFICES ASSUME Missing # {} PROVE FALSE
  OBVIOUS
<1>1. Missing \subseteq Nat
  OBVIOUS
<1> HIDE DEF Missing
<1>2. PICK x \in Missing : \A y \in Missing : <<y, x>> \notin OpToRel(<, Nat)
  BY <1>1, NatLessThanWellFounded, WFMin
<1> USE DEF Missing
<1>3. x - 1 \in 0 .. n - 1 /\ x - 1 + 1 = x /\ x \in Nat /\ x - 1 \in Nat
  OBVIOUS
<1>4. x - 1 \in Missing
  BY <1>3
<1>5. <<x - 1, x>> \in OpToRel(<, Nat)
  BY <1>3 DEF OpToRel
<1> QED
  BY <1>2, <1>4, <1>5

-----------------------------------------------------------------------------
(* The loop *)

(* What the loop makes of the first n parts, as a function of the number   *)
(* of turns.                                                               *)
Notes(header, n, f) ==
    f = [i \in 0 .. n |-> IF i = 0 THEN NothingNoted
                          ELSE NotePart(f[i - 1], header[i])]

(* There is such a function, for each number of parts. *)
LEMMA NotesExist ==
    ASSUME NEW header, NEW n \in Nat
    PROVE  \E f : Notes(header, n, f)
<1> DEFINE S == {i \in 0 .. n : \E f : Notes(header, i, f)}
<1>1. 0 \in S
  <2> DEFINE f == [i \in 0 .. 0 |-> NothingNoted]
  <2>1. Notes(header, 0, f)
    BY DEF Notes
  <2> QED
    BY <2>1
<1>2. ASSUME NEW i \in 0 .. n - 1, i \in S PROVE i + 1 \in S
  <2>1. PICK f : Notes(header, i, f)
    BY <1>2
  <2> DEFINE g == [k \in 0 .. i + 1 |->
                     IF k = i + 1 THEN NotePart(f[i], header[i + 1]) ELSE f[k]]
  <2>2. \A k \in 0 .. i : f[k] = IF k = 0 THEN NothingNoted
                                 ELSE NotePart(f[k - 1], header[k])
    BY <2>1 DEF Notes
  <2>3. ASSUME NEW k \in 0 .. i + 1
        PROVE  g[k] = IF k = 0 THEN NothingNoted ELSE NotePart(g[k - 1], header[k])
    <3>1. CASE k = i + 1
      BY <3>1
    <3>2. CASE k # i + 1
      <4>1. k \in 0 .. i /\ (k # 0 => k - 1 \in 0 .. i + 1 /\ k - 1 # i + 1)
        BY <3>2
      <4>2. g[k] = f[k] /\ (k # 0 => g[k - 1] = f[k - 1])
        BY <4>1, <3>2
      <4> HIDE DEF g
      <4> QED
        BY <2>2, <4>1, <4>2
    <3> QED
      BY <3>1, <3>2
  <2>4. Notes(header, i + 1, g)
    BY <2>3 DEF Notes
  <2> QED
    BY <2>4
<1> HIDE DEF S
<1>3. 0 .. n \subseteq S
  BY <1>1, <1>2, UpTo
<1> QED
  BY <1>3 DEF S

(* What is noted of the first n parts. *)
NotedOf(header, n, s) ==
    /\ \E ts, tsSet, macs, bad :
          s = [ts |-> ts, tsSet |-> tsSet, macs |-> macs, bad |-> bad]
    /\ s.bad <=> \E k \in 1 .. n : header[k].key = "t" /\ header[k].value \notin Word
    /\ ~s.bad =>
          /\ s.tsSet <=> \E k \in 1 .. n : header[k].key = "t"
          /\ s.tsSet => \E m \in 1 .. n :
                /\ header[m].key = "t" /\ header[m].value = s.ts
                /\ \A k \in 1 .. n : header[k].key = "t" => k <= m
          /\ \A mac : mac \in s.macs <=>
                \E k \in 1 .. n : header[k].key = "v1" /\ header[k].value = mac

(* One turn notes one part more. *)
LEMMA NotedStep ==
    ASSUME NEW header, NEW n \in Nat, NEW s, NotedOf(header, n, s)
    PROVE  NotedOf(header, n + 1, NotePart(s, header[n + 1]))
<1> DEFINE p == header[n + 1]
           r == NotePart(s, p)
<1>1. PICK ts, tsSet, macs, bad :
         s = [ts |-> ts, tsSet |-> tsSet, macs |-> macs, bad |-> bad]
  BY DEF NotedOf
<1>2. \A k : k \in 1 .. n + 1 <=> k \in 1 .. n \/ k = n + 1
  OBVIOUS
<1>3. /\ s.bad <=> \E k \in 1 .. n : header[k].key = "t" /\ header[k].value \notin Word
      /\ ~s.bad =>
          /\ s.tsSet <=> \E k \in 1 .. n : header[k].key = "t"
          /\ s.tsSet => \E m \in 1 .. n :
                /\ header[m].key = "t" /\ header[m].value = s.ts
                /\ \A k \in 1 .. n : header[k].key = "t" => k <= m
          /\ \A mac : mac \in s.macs <=>
                \E k \in 1 .. n : header[k].key = "v1" /\ header[k].value = mac
  BY DEF NotedOf
<1>4. /\ s.ts = ts /\ s.tsSet = tsSet /\ s.macs = macs /\ s.bad = bad
  BY <1>1
<1> SUFFICES NotedOf(header, n + 1, r)
  OBVIOUS
<1>5. CASE s.bad
  <2>1. r = s
    BY <1>5 DEF NotePart
  <2>2. \E k \in 1 .. n + 1 : header[k].key = "t" /\ header[k].value \notin Word
    BY <1>2, <1>3, <1>5
  <2> HIDE DEF r
  <2> QED
    BY <1>1, <1>5, <2>1, <2>2 DEF NotedOf
<1>6. CASE ~s.bad /\ p.key = "t" /\ p.value \in Word
  <2>1. r = [ts |-> p.value, tsSet |-> TRUE, macs |-> macs, bad |-> bad]
    BY <1>1, <1>6 DEF NotePart
  <2> HIDE DEF r
  <2>2. r.ts = p.value /\ r.tsSet = TRUE /\ r.macs = macs /\ r.bad = bad
    BY <2>1
  <2>3. \A k \in 1 .. n + 1 : k <= n + 1
    OBVIOUS
  <2>4. \A mac : mac \in r.macs <=>
           \E k \in 1 .. n + 1 : header[k].key = "v1" /\ header[k].value = mac
    BY <1>2, <1>3, <1>4, <1>6, <2>2
  <2>5. ~r.bad /\ ~\E k \in 1 .. n + 1 :
                     header[k].key = "t" /\ header[k].value \notin Word
    BY <1>2, <1>3, <1>4, <1>6, <2>2
  <2>6. \E m \in 1 .. n + 1 :
           /\ header[m].key = "t" /\ header[m].value = r.ts
           /\ \A k \in 1 .. n + 1 : header[k].key = "t" => k <= m
    BY <1>2, <1>6, <2>2, <2>3
  <2> QED
    BY <2>1, <2>2, <2>4, <2>5, <2>6 DEF NotedOf
<1>7. CASE ~s.bad /\ p.key = "t" /\ p.value \notin Word
  <2>1. r = [ts |-> ts, tsSet |-> tsSet, macs |-> macs, bad |-> TRUE]
    BY <1>1, <1>7 DEF NotePart
  <2> HIDE DEF r
  <2>2. r.bad = TRUE
    BY <2>1
  <2>3. \E k \in 1 .. n + 1 : header[k].key = "t" /\ header[k].value \notin Word
    BY <1>2, <1>7
  <2> QED
    BY <2>1, <2>2, <2>3 DEF NotedOf
<1>8. CASE ~s.bad /\ p.key = "v1"
  <2>1. r = [ts |-> ts, tsSet |-> tsSet, macs |-> macs \union {p.value}, bad |-> bad]
    BY <1>1, <1>8 DEF NotePart
  <2> HIDE DEF r
  <2>2. /\ r.ts = ts /\ r.tsSet = tsSet /\ r.macs = macs \union {p.value}
        /\ r.bad = bad
    BY <2>1
  <2>3. \A mac : mac \in r.macs <=>
           \E k \in 1 .. n + 1 : header[k].key = "v1" /\ header[k].value = mac
    BY <1>2, <1>3, <1>4, <1>8, <2>2
  <2>4. \A k \in 1 .. n + 1 : header[k].key = "t" => k \in 1 .. n
    BY <1>2, <1>8
  <2> QED
    BY <1>2, <1>3, <1>4, <1>8, <2>1, <2>2, <2>3, <2>4 DEF NotedOf
<1>9. CASE ~s.bad /\ p.key # "t" /\ p.key # "v1"
  <2>1. r = s
    BY <1>9 DEF NotePart
  <2>2. \A k \in 1 .. n + 1 : header[k].key \in {"t", "v1"} => k \in 1 .. n
    BY <1>2, <1>9
  <2> HIDE DEF r
  <2>3. \A mac : mac \in s.macs <=>
           \E k \in 1 .. n + 1 : header[k].key = "v1" /\ header[k].value = mac
    BY <1>2, <1>3, <1>9, <2>2
  <2>4. ~\E k \in 1 .. n + 1 : header[k].key = "t" /\ header[k].value \notin Word
    BY <1>3, <1>9, <2>2
  <2> QED
    BY <1>1, <1>2, <1>3, <1>9, <2>1, <2>2, <2>3, <2>4 DEF NotedOf
<1> QED
  BY <1>5, <1>6, <1>7, <1>8, <1>9

(* Whatever its length, the scan notes the whole header. *)
LEMMA ScanNotes ==
    ASSUME NEW header, Len(header) \in Nat
    PROVE  NotedOf(header, Len(header), Scan(header))
<1> DEFINE n == Len(header)
           f == CHOOSE noted : Notes(header, n, noted)
<1>1. Notes(header, n, f)
  BY NotesExist
<1>2. Scan(header) = f[n]
  BY DEF Scan, Notes
<1> DEFINE S == {i \in 0 .. n : NotedOf(header, i, f[i])}
<1> HIDE DEF f
<1>3. \A i \in 0 .. n : f[i] = IF i = 0 THEN NothingNoted
                               ELSE NotePart(f[i - 1], header[i])
  BY <1>1 DEF Notes
<1>4. 0 \in S
  <2>1. f[0] = NothingNoted
    BY <1>3
  <2>2. \A k : k \notin 1 .. 0
    OBVIOUS
  <2>3. NotedOf(header, 0, NothingNoted)
    BY <2>2 DEF NotedOf, NothingNoted
  <2> QED
    BY <2>1, <2>3
<1>5. ASSUME NEW i \in 0 .. n - 1, i \in S PROVE i + 1 \in S
  <2>1. f[i + 1] = NotePart(f[i], header[i + 1])
    <3>1. i + 1 \in 0 .. n /\ i + 1 # 0 /\ i + 1 - 1 = i
      OBVIOUS
    <3> QED
      BY <1>3, <3>1
  <2>2. NotedOf(header, i + 1, f[i + 1])
    BY <1>5, <2>1, NotedStep
  <2> QED
    BY <2>2
<1> HIDE DEF S
<1>6. 0 .. n \subseteq S
  BY <1>4, <1>5, UpTo
<1> QED
  BY <1>2, <1>6 DEF S

-----------------------------------------------------------------------------
(* The arithmetic *)

(* What 64 bits make of a difference: itself, or one turn less.            *)
LEMMA WrapIs ==
    /\ \A x \in -Half .. Half - 1 : Wrap(x) = x
    /\ \A x \in Half .. 3 * Half - 1 : Wrap(x) = x - 2 * Half
<1> DEFINE w == 2 * Half
<1>1. w \in Nat \ {0} /\ Half \in Nat \ {0}
  BY SignatureAssumption
<1>2. ASSUME NEW y \in 0 .. w - 1 PROVE y % w = y /\ (y + w) % w = y
  BY <1>1
<1>3. ASSUME NEW x \in -Half .. Half - 1 PROVE Wrap(x) = x
  <2>1. x + Half \in 0 .. w - 1
    BY <1>1
  <2>2. (x + Half) % w = x + Half
    BY <1>2, <2>1
  <2> QED
    BY <1>1, <2>2 DEF Wrap
<1>4. ASSUME NEW x \in Half .. 3 * Half - 1 PROVE Wrap(x) = x - 2 * Half
  <2>1. x - Half \in 0 .. w - 1 /\ x - Half + w = x + Half
    BY <1>1
  <2>2. (x + Half) % w = x - Half
    BY <1>2, <2>1
  <2> QED
    BY <1>1, <2>2 DEF Wrap
<1> QED
  BY <1>3, <1>4

(* Is a timestamp let through, by its age in the integers? *)
Recent(age, tol) ==
    \/ age <= tol /\ -age <= tol
    \/ age >= Half /\ (age = Half \/ 2 * Half - age <= tol)

(* The check of a distance of 64 bits, in the integers. *)
LEMMA DeltaIs ==
    ASSUME NEW now \in Now, NEW ts \in Word, NEW tol \in Word
    PROVE  Delta(now, ts) <= tol <=> Recent(now - ts, tol)
<1> DEFINE age == now - ts
<1>1. /\ Half \in Nat \ {0} /\ now \in 0 .. Half - 1
      /\ age \in -Half + 1 .. 2 * Half - 1 /\ tol \in -Half .. Half - 1
  BY SignatureAssumption DEF Word
<1>2. CASE age < Half
  <2>1. Wrap(age) = age
    BY <1>1, <1>2, WrapIs
  <2>2. age < 0 => Wrap(-age) = -age
    BY <1>1, <1>2, WrapIs
  <2>3. Delta(now, ts) = IF age < 0 THEN -age ELSE age
    BY <2>1, <2>2 DEF Delta
  <2> HIDE DEF age
  <2>4. Delta(now, ts) <= tol <=> Recent(age, tol)
    BY <1>1, <1>2, <2>3 DEF Recent
  <2> QED
    BY <2>4 DEF age
<1>3. CASE age >= Half
  <2>1. Wrap(age) = age - 2 * Half /\ age - 2 * Half < 0
    BY <1>1, <1>3, WrapIs
  <2>2. age > Half => Wrap(-(age - 2 * Half)) = 2 * Half - age
    BY <1>1, <1>3, WrapIs
  <2>3. age = Half => Wrap(-(age - 2 * Half)) = -Half
    <3>1. Wrap(Half) = -Half
      BY <1>1, WrapIs
    <3> QED
      BY <1>1, <3>1
  <2>4. Delta(now, ts) = Wrap(-(age - 2 * Half))
    BY <2>1 DEF Delta
  <2> HIDE DEF age
  <2>5. Delta(now, ts) <= tol <=> Recent(age, tol)
    BY <1>1, <1>3, <2>2, <2>3, <2>4 DEF Recent
  <2> QED
    BY <2>5 DEF age
<1> QED
  BY <1>1, <1>2, <1>3

-----------------------------------------------------------------------------
(* What the check lets through, loop and 64 bits and all. *)
LetThrough(payload, header, secret, tol, now) ==
    /\ \A n \in DOMAIN header :
          header[n].key = "t" => header[n].value \in Word
    /\ \E n, m \in DOMAIN header :
          /\ Last(header, n)
          /\ header[m].key = "v1"
          /\ header[m].value = Mac(secret, header[n].value, payload)
          /\ Recent(now - header[n].value, tol)

(* It lets that through, however many parts a header has. *)
LEMMA VerifiedIff ==
    ASSUME NEW header, Len(header) \in Nat, DOMAIN header = 1 .. Len(header),
           NEW payload, NEW secret, NEW tol \in Word, NEW now \in Now
    PROVE  VerifySignature(payload, header, secret, tol, now)
              <=> LetThrough(payload, header, secret, tol, now)
<1> DEFINE n == Len(header)
           s == Scan(header)
<1>1. NotedOf(header, n, s)
  BY ScanNotes
<1> HIDE DEF s
<1>2. VerifySignature(payload, header, secret, tol, now)
         <=> /\ ~s.bad /\ s.tsSet
             /\ Delta(now, s.ts) <= tol
             /\ Mac(secret, s.ts, payload) \in s.macs
  BY DEF VerifySignature, s
<1>3. LetThrough(payload, header, secret, tol, now)
         <=> /\ \A k \in 1 .. n : header[k].key = "t" => header[k].value \in Word
             /\ \E k, m \in 1 .. n :
                   /\ header[k].key = "t"
                   /\ \A j \in 1 .. n : header[j].key = "t" => j <= k
                   /\ header[m].key = "v1"
                   /\ header[m].value = Mac(secret, header[k].value, payload)
                   /\ Recent(now - header[k].value, tol)
  BY DEF LetThrough, Last
<1>4. CASE s.bad
  BY <1>1, <1>2, <1>3, <1>4 DEF NotedOf
<1>5. CASE ~s.bad /\ ~s.tsSet
  BY <1>1, <1>2, <1>3, <1>5 DEF NotedOf
<1>6. CASE ~s.bad /\ s.tsSet
  <2>1. PICK k \in 1 .. n : /\ header[k].key = "t" /\ header[k].value = s.ts
                            /\ \A j \in 1 .. n : header[j].key = "t" => j <= k
    BY <1>1, <1>6 DEF NotedOf
  <2>2. \A j \in 1 .. n : header[j].key = "t" => header[j].value \in Word
    BY <1>1, <1>6 DEF NotedOf
  <2>3. s.ts \in Word
    BY <2>1, <2>2
  <2>4. Delta(now, s.ts) <= tol <=> Recent(now - s.ts, tol)
    BY <2>3, DeltaIs
  <2>5. Mac(secret, s.ts, payload) \in s.macs
           <=> \E m \in 1 .. n : /\ header[m].key = "v1"
                                 /\ header[m].value = Mac(secret, s.ts, payload)
    BY <1>1, <1>6 DEF NotedOf
  <2>6. ASSUME NEW j \in 1 .. n, header[j].key = "t",
               \A i \in 1 .. n : header[i].key = "t" => i <= j
        PROVE  j = k
    BY <2>1, <2>6
  <2> QED
    BY <1>2, <1>3, <1>6, <2>1, <2>2, <2>4, <2>5, <2>6
<1> QED
  BY <1>4, <1>5, <1>6

(* The check of a header of any length lets every genuine one through, and *)
(* no other unless the time it names is out of range.                      *)
THEOREM VerifiedIffGenuine ==
    ASSUME NEW header, Len(header) \in Nat, DOMAIN header = 1 .. Len(header),
           NEW payload, NEW secret, NEW tol \in Word, NEW now \in Now
    PROVE  LET verified == VerifySignature(payload, header, secret, tol, now)
               genuine == Genuine(payload, header, secret, tol, now)
           IN  /\ genuine => verified
               /\ verified => genuine \/ OutOfRange(header, now)
<1>1. VerifySignature(payload, header, secret, tol, now)
         <=> LetThrough(payload, header, secret, tol, now)
  BY VerifiedIff
<1>2. ASSUME NEW ts \in Word
      PROVE  /\ (now - ts <= tol /\ ts - now <= tol) => Recent(now - ts, tol)
             /\ Recent(now - ts, tol) =>
                   (now - ts <= tol /\ ts - now <= tol) \/ now - ts >= Half
  BY SignatureAssumption DEF Recent, Word
<1>3. Genuine(payload, header, secret, tol, now)
         => LetThrough(payload, header, secret, tol, now)
  BY <1>2 DEF Genuine, LetThrough, Last
<1>4. ASSUME LetThrough(payload, header, secret, tol, now), ~OutOfRange(header, now)
      PROVE  Genuine(payload, header, secret, tol, now)
  <2>1. PICK n, m \in DOMAIN header :
           /\ Last(header, n)
           /\ header[m].key = "v1"
           /\ header[m].value = Mac(secret, header[n].value, payload)
           /\ Recent(now - header[n].value, tol)
    BY <1>4 DEF LetThrough
  <2>2. header[n].value \in Word
    BY <1>4, <2>1 DEF LetThrough, Last
  <2>3. ~(now - header[n].value >= Half)
    BY <1>4, <2>1, <2>2 DEF OutOfRange
  <2>4. now - header[n].value <= tol /\ header[n].value - now <= tol
    BY <1>2, <2>1, <2>2, <2>3
  <2> QED
    BY <1>4, <2>1, <2>4 DEF Genuine, LetThrough
<1> QED
  BY <1>1, <1>3, <1>4

-----------------------------------------------------------------------------
(* The header Stripe sends with a payload: the time, and a MAC for every   *)
(* secret in force, one or, while a secret is rolled, more.                *)
StampedBy(header, signers, ts, payload) ==
    /\ Len(header) = Len(signers) + 1
    /\ DOMAIN header = 1 .. Len(header)
    /\ header[1] = [key |-> "t", value |-> ts]
    /\ \A n \in 1 .. Len(signers) :
          header[n + 1] = [key |-> "v1", value |-> Mac(signers[n], ts, payload)]

(* A header of Stripe, whose time is past the epoch, is let through for    *)
(* the payload it was made for and the secrets it was made with, as long   *)
(* as it is within the tolerance, and for no other payload or secret: what *)
(* WebhookReactor takes a signature to be.                                 *)
THEOREM StripesHeader ==
    ASSUME NEW signers, Len(signers) \in Nat, NEW header, NEW payload, NEW sent,
           NEW ts \in 0 .. Half - 1, StampedBy(header, signers, ts, sent),
           NEW secret, NEW tol \in Word, NEW now \in Now
    PROVE  VerifySignature(payload, header, secret, tol, now)
              <=> /\ payload = sent
                  /\ \E n \in 1 .. Len(signers) : signers[n] = secret
                  /\ now - ts <= tol /\ ts - now <= tol
<1> DEFINE N == Len(signers)
<1>1. /\ Len(header) = N + 1 /\ DOMAIN header = 1 .. N + 1
      /\ header[1].key = "t" /\ header[1].value = ts
      /\ \A n \in 1 .. N : /\ header[n + 1].key = "v1"
                           /\ header[n + 1].value = Mac(signers[n], ts, sent)
  <2>1. /\ Len(header) = N + 1 /\ DOMAIN header = 1 .. N + 1
        /\ header[1] = [key |-> "t", value |-> ts]
    BY DEF StampedBy
  <2>2. header[1].key = "t" /\ header[1].value = ts
    BY <2>1
  <2>3. ASSUME NEW n \in 1 .. N
        PROVE  /\ header[n + 1].key = "v1"
               /\ header[n + 1].value = Mac(signers[n], ts, sent)
    <3>1. header[n + 1] = [key |-> "v1", value |-> Mac(signers[n], ts, sent)]
      BY <2>3 DEF StampedBy
    <3> QED
      BY <3>1
  <2> QED
    BY <2>1, <2>2, <2>3
<1>2. \A k \in 1 .. N + 1 : k = 1 \/ (k - 1 \in 1 .. N /\ k - 1 + 1 = k)
  OBVIOUS
<1>3. \A n \in 1 .. N : n + 1 \in 1 .. N + 1
  OBVIOUS
<1>4. 1 \in 1 .. N + 1
  OBVIOUS
<1>5. \A k \in 1 .. N + 1 : header[k].key = "t" <=> k = 1
  BY <1>1, <1>2
<1>6. \A x : Mac(x, ts, sent) = Mac(secret, ts, payload)
               <=> x = secret /\ payload = sent
  <2>1. ASSUME NEW x, Mac(x, ts, sent) = Mac(secret, ts, payload)
        PROVE  x = secret /\ payload = sent
    <3>1. /\ Mac(x, ts, sent).secret = x /\ Mac(x, ts, sent).payload = sent
          /\ Mac(secret, ts, payload).secret = secret
          /\ Mac(secret, ts, payload).payload = payload
      BY DEF Mac
    <3> QED
      BY <2>1, <3>1
  <2> QED
    BY <2>1
<1>7. VerifySignature(payload, header, secret, tol, now)
         <=> LetThrough(payload, header, secret, tol, now)
  BY <1>1, VerifiedIff
<1>8. LetThrough(payload, header, secret, tol, now)
         <=> \E m \in 1 .. N + 1 :
                /\ header[m].key = "v1"
                /\ header[m].value = Mac(secret, ts, payload)
                /\ Recent(now - ts, tol)
  <2>1. \A k \in 1 .. N + 1 : k <= 1 <=> k = 1
    OBVIOUS
  <2>2. ts \in Word
    BY SignatureAssumption DEF Word
  <2> QED
    BY <1>1, <1>4, <1>5, <2>1, <2>2 DEF LetThrough, Last
<1>9. (\E m \in 1 .. N + 1 : /\ header[m].key = "v1"
                             /\ header[m].value = Mac(secret, ts, payload))
         <=> \E n \in 1 .. N : Mac(signers[n], ts, sent) = Mac(secret, ts, payload)
  <2>1. ASSUME NEW m \in 1 .. N + 1, header[m].key = "v1",
               header[m].value = Mac(secret, ts, payload)
        PROVE  \E n \in 1 .. N : Mac(signers[n], ts, sent) = Mac(secret, ts, payload)
    <3>1. m # 1
      BY <1>4, <1>5, <2>1
    <3>2. m - 1 \in 1 .. N /\ m - 1 + 1 = m
      BY <1>2, <2>1, <3>1
    <3>3. header[m].value = Mac(signers[m - 1], ts, sent)
      BY <1>1, <3>2
    <3> QED
      BY <2>1, <3>2, <3>3
  <2>2. ASSUME NEW n \in 1 .. N, Mac(signers[n], ts, sent) = Mac(secret, ts, payload)
        PROVE  \E m \in 1 .. N + 1 : /\ header[m].key = "v1"
                                     /\ header[m].value = Mac(secret, ts, payload)
    <3>1. n + 1 \in 1 .. N + 1
      BY <1>3, <2>2
    <3>2. /\ header[n + 1].key = "v1"
          /\ header[n + 1].value = Mac(signers[n], ts, sent)
      BY <1>1, <2>2
    <3> QED
      BY <2>2, <3>1, <3>2
  <2> QED
    BY <2>1, <2>2
<1>10. Recent(now - ts, tol) <=> now - ts <= tol /\ ts - now <= tol
  BY SignatureAssumption DEF Recent, Word
<1> QED
  BY <1>6, <1>7, <1>8, <1>9, <1>10
=============================================================================
