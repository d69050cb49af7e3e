----------------------------- MODULE Signature -----------------------------
(***************************************************************************)
(* VerifySignature of hmac.go: the check of a Stripe-Signature header, for *)
(* webhook deliveries and for the operation verify_webhook_signature.      *)
(*                                                                         *)
(* A header is a sequence of parts "key=value"; those that are not of this *)
(* form, or of a key the loop does not know, are of key "other".  The      *)
(* value of a "t" is a number or NotANumber, that of a "v1" a MAC or       *)
(* something else (another MAC, or no hexadecimal).  HMAC-SHA256 is        *)
(* modelled as injective.  Integers have the width of an int64.            *)
(***************************************************************************)
EXTENDS Integers, Sequences

CONSTANTS
    Half,        \* 2^63: an int64 is in -Half .. Half - 1
    NotANumber,
    Now,         \* the readings of the clock, in seconds
    DefaultTolerance

Word == -Half .. Half - 1
Wrap(x) == ((x + Half) % (2 * Half)) - Half

(* The clock is past the epoch. *)
ASSUME SignatureAssumption ==
    /\ Half \in Nat \ {0}
    /\ Now \subseteq 0 .. Half - 1
    /\ DefaultTolerance \in 0 .. Half - 1

Mac(secret, ts, payload) == [secret |-> secret, ts |-> ts, payload |-> payload]

MutNotePart(s, part) ==
    IF s.bad THEN s
    ELSE CASE part.key = "t" /\ part.value \in Word ->
                 [s EXCEPT !.ts = IF s.tsSet THEN @ ELSE part.value,
                           !.tsSet = TRUE]
           [] part.key = "t" /\ part.value \notin Word ->
                 [s EXCEPT !.bad = TRUE]
           [] part.key = "v1" -> [s EXCEPT !.macs = @ \union {part.value}]
           [] OTHER -> s
(* One turn of the loop over the parts; a t= that is no number ends it.    *)
NotePart(s, part) ==
    IF s.bad THEN s
    ELSE CASE part.key = "t" /\ part.value \in Word ->
                 [s EXCEPT !.ts = part.value, !.tsSet = TRUE]
           [] part.key = "t" /\ part.value \notin Word ->
                 [s EXCEPT !.bad = TRUE]
           [] part.key = "v1" -> [s EXCEPT !.macs = @ \union {part.value}]
           [] OTHER -> s

NothingNoted == [ts |-> 0, tsSet |-> FALSE, macs |-> {}, bad |-> FALSE]

(* What the loop has noted after each of its turns, and at its end.        *)
Scan(header) ==
    LET noted[n \in 0 .. Len(header)] ==
            IF n = 0 THEN NothingNoted ELSE NotePart(noted[n - 1], header[n])
    IN  noted[Len(header)]

(* |now - ts| as 64 bits make it: the smallest integer negated is itself.  *)
Delta(now, ts) ==
    LET d == Wrap(now - ts) IN IF d < 0 THEN Wrap(-d) ELSE d

VerifySignature(payload, header, secret, tol, now) ==
    LET s == Scan(header) IN
    /\ ~s.bad /\ s.tsSet
    /\ Delta(now, s.ts) <= tol
    /\ Mac(secret, s.ts, payload) \in s.macs

(* The tolerance of verify_webhook_signature; config.WithDefaults fills in *)
(* that of an instance likewise.                                           *)
Allowance(tol) == IF tol <= 0 THEN DefaultTolerance ELSE tol

-----------------------------------------------------------------------------
(* What docs/OPERATIONS.md and the comment of VerifySignature ask of a     *)
(* header, with no loop and in the integers: every t= is a number, the     *)
(* last of them is within the tolerance of now, and one of the v1= is the  *)
(* MAC of the payload with it.                                             *)
Last(header, n) ==
    /\ header[n].key = "t"
    /\ \A k \in DOMAIN header : header[k].key = "t" => k <= n

Genuine(payload, header, secret, tol, now) ==
    /\ \A n \in DOMAIN header :
          header[n].key = "t" => header[n].value \in Word
    /\ \E n, m \in DOMAIN header :
          /\ Last(header, n)
          /\ now - header[n].value <= tol
          /\ header[n].value - now <= tol
          /\ header[m].key = "v1"
          /\ header[m].value = Mac(secret, header[n].value, payload)

(* The header names a time so long ago that an int64 does not hold how     *)
(* long: half its range or more.                                           *)
OutOfRange(header, now) ==
    \E n \in DOMAIN header :
        /\ Last(header, n)
        /\ header[n].value \in Word
        /\ now - header[n].value >= Half
=============================================================================
