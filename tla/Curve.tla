-------------------------------- MODULE Curve --------------------------------
(***************************************************************************)
(* ECDSA over curves whose parameters a certificate spells out:            *)
(* src/emrtd/mod.rs, "verified generically" on big integers.               *)
(*                                                                         *)
(* A curve is y^2 = x^3 + a x + b mod p, of prime order n with generator   *)
(* g; a point is a pair, or Infinity.                                      *)
(***************************************************************************)
EXTENDS Integers, SequencesExt

CONSTANTS Infinity,
          Curves,          \* [p, a, b, n, g]
          PrivateKeys,
          Hashes,          \* of a byte
          Numbers          \* what may stand in a signature

ASSUME NumbersAssumption ==
  PrivateKeys \subseteq Nat /\ Hashes \subseteq Nat /\ Numbers \subseteq Nat

\* Subtraction of what need not be reduced, and inverses by Fermat.
ModSub(x, y, m) ==
  IF x % m >= y % m THEN (x % m) - (y % m) ELSE (x % m) + m - (y % m)

ModInv(x, m) ==
  LET power[k \in 0 .. m - 2] == IF k = 0 THEN 1 % m ELSE (power[k - 1] * x) % m
  IN  power[m - 2]

\* The third point of the line of that slope, mirrored.
Third(slope, x1, y1, x2, p) ==
  LET x3 == ModSub(ModSub((slope * slope) % p, x1, p), x2, p)
  IN  <<x3, ModSub((slope * ModSub(x1, x3, p)) % p, y1, p)>>

\* Mutant of PtAdd: a point and its mirror image are doubled.
PtAddDoubling(p1, p2, a, p) ==
  IF p1 = Infinity THEN p2
  ELSE IF p2 = Infinity THEN p1
  ELSE LET slope == IF p1[1] = p2[1]
                    THEN (3 * p1[1] * p1[1] + a) * ModInv((2 * p1[2]) % p, p)
                    ELSE ModSub(p2[2], p1[2], p) * ModInv(ModSub(p2[1], p1[1], p), p)
       IN  Third(slope % p, p1[1], p1[2], p2[1], p)

PtAdd(p1, p2, a, p) ==
  IF p1 = Infinity THEN p2
  ELSE IF p2 = Infinity THEN p1
  ELSE IF p1[1] = p2[1] /\ (p1[2] + p2[2]) % p = 0 THEN Infinity
  ELSE LET slope == IF p1[1] = p2[1]
                    THEN (3 * p1[1] * p1[1] + a) * ModInv((2 * p1[2]) % p, p)
                    ELSE ModSub(p2[2], p1[2], p) * ModInv(ModSub(p2[1], p1[1], p), p)
       IN  Third(slope % p, p1[1], p1[2], p2[1], p)

Bits(k) == Cardinality({i \in 0 .. 29 : 2 ^ i =< k})

\* Double and add, from the lowest bit up: no more steps than k do anything.
PtMul(k, base, a, p) ==
  LET Step[i \in 0 .. k] ==
        IF i = 0 THEN [kk |-> k, result |-> Infinity, addend |-> base]
        ELSE LET acc == Step[i - 1]
             IN  IF acc.kk = 0 THEN acc
                 ELSE [kk |-> acc.kk \div 2,
                       result |-> IF acc.kk % 2 = 1 THEN PtAdd(acc.result, acc.addend, a, p)
                                                    ELSE acc.result,
                       addend |-> PtAdd(acc.addend, acc.addend, a, p)]
  IN  Step[k].result

\* k >> places.
Shifted(k, places) ==
  LET Half[i \in 0 .. places] == IF i = 0 THEN k ELSE Half[i - 1] \div 2 IN Half[places]

\* The leftmost bits of a hash, as many as the order has.
Leftmost(hash, width, n) ==
  IF width > Bits(n) THEN Shifted(hash, width - Bits(n)) ELSE hash

\* Mutant of EcdsaVerify: x is not reduced to the order.
EcdsaVerifyUnreduced(c, q, e, r, s) ==
  /\ r \in 1 .. c.n - 1 /\ s \in 1 .. c.n - 1
  /\ LET w == ModInv(s, c.n)
         point == PtAdd(PtMul((e * w) % c.n, c.g, c.a, c.p),
                        PtMul((r * w) % c.n, q, c.a, c.p), c.a, c.p)
     IN  point # Infinity /\ point[1] = r

EcdsaVerify(c, q, e, r, s) ==
  /\ r \in 1 .. c.n - 1 /\ s \in 1 .. c.n - 1
  /\ LET w == ModInv(s, c.n)
         point == PtAdd(PtMul((e * w) % c.n, c.g, c.a, c.p),
                        PtMul((r * w) % c.n, q, c.a, c.p), c.a, c.p)
     IN  point # Infinity /\ point[1] % c.n = r
(***************************************************************************)
(* What these formulas are for.  A question is a key, a hash and a pair of *)
(* numbers, or Infinity while none is asked.                               *)
(***************************************************************************)
VARIABLE question

Ask ==
  question \in {Infinity} \cup
    [curve : Curves, key : PrivateKeys, hash : Hashes, r : Numbers, s : Numbers]

OnCurve(c, point) ==
  point = Infinity \/ (point[2] * point[2] - point[1] * point[1] * point[1]
                         - c.a * point[1] - c.b) % c.p = 0

Times(c, k) == PtMul(k, c.g, c.a, c.p)

\* What whoever holds the key signs e with: every nonce gives a pair, or none.
Signatures(c, key, e) ==
  {rs \in {LET r == Times(c, k)[1] % c.n
          IN  <<r, (ModInv(k, c.n) * ((e + r * key) % c.n)) % c.n>> : k \in 1 .. c.n - 1} :
     0 \notin {rs[1], rs[2]}}

\* Of all pairs, in range or out of it, exactly those verify that the holder of
\* the key could have signed the leftmost bits of the hash with; and multiples
\* of the generator are points of the curve that add up like their factors, the
\* order's to nothing: "n.G must be the point at infinity - validates pt_add
\* (add + double) and pt_mul" (emrtd/mod.rs 856).
VerifiesWhatWasSigned ==
  question # Infinity =>
    LET c == question.curve
        e == Leftmost(question.hash, 8, c.n)
        r == question.r
        s == question.s
    IN  /\ EcdsaVerify(c, Times(c, question.key), e, r, s)
             <=> <<r, s>> \in Signatures(c, question.key, e)
        /\ OnCurve(c, Times(c, r))
        /\ PtAdd(Times(c, r), Times(c, s), c.a, c.p) = Times(c, r + s)
        /\ Times(c, c.n) = Infinity
=============================================================================
