----------------------------- MODULE NumberProofs -----------------------------
(***************************************************************************)
(* Induction, recursion over days, and exact fractions: the lemmas behind  *)
(* the proofs about computed values.                                       *)
(*                                                                         *)
(* The library's induction theorems take a predicate.  Here a set takes    *)
(* its place: the set of numbers a fact holds of, or of counterexamples.   *)
(***************************************************************************)
EXTENDS Fractions, WellFoundedInduction, TLAPS

\* A set of natural numbers that is not empty has a least element.
LEMMA LeastNatural ==
  ASSUME NEW T \in SUBSET Nat, T # {}
  PROVE  \E x \in T : \A y \in T : x <= y
<1> DEFINE R == {ss \in Nat \X Nat : ss[1] < ss[2]}
<1>1. IsWellFoundedOn(R, Nat)
  BY NatLessThanWellFounded DEF OpToRel
<1> HIDE DEF R
<1>2. PICK x \in T : \A y \in T : ~ (<<y, x>> \in R)
  BY <1>1, WFMin
<1>3. ASSUME NEW y \in T, y < x PROVE FALSE
  <2>1. <<y, x>> \in Nat \X Nat /\ <<y, x>>[1] < <<y, x>>[2]
    BY <1>3
  <2>2. <<y, x>> \in R
    BY <2>1 DEF R
  <2>3. QED
    BY <1>2, <2>2
<1>4. QED
  BY <1>3

\* Induction: a set with zero and all successors has all natural numbers.
LEMMA NatSetInduction ==
  ASSUME NEW S, 0 \in S, \A n \in Nat : n \in S => n + 1 \in S
  PROVE  \A n \in Nat : n \in S
<1> SUFFICES ASSUME Nat \ S # {} PROVE FALSE
  OBVIOUS
<1>1. PICK x \in Nat \ S : \A y \in Nat \ S : x <= y
  BY LeastNatural
<1>2. x - 1 \in Nat /\ x - 1 \in S /\ x = (x - 1) + 1
  BY <1>1
<1>3. QED
  BY <1>1, <1>2

\* Induction over the days of a range, from the day before it on.
LEMMA DayInduction ==
  ASSUME NEW from \in Int, NEW to \in Int, NEW S,
         from - 1 \in S, \A d \in from .. to : d - 1 \in S => d \in S
  PROVE  \A d \in from .. to : d \in S
<1> DEFINE T == {n \in Nat : n + (from - 1) <= to => n + (from - 1) \in S}
<1>1. 0 \in T
  OBVIOUS
<1>2. \A n \in Nat : n \in T => n + 1 \in T
  <2> SUFFICES ASSUME NEW n \in Nat, n \in T, n + from <= to PROVE n + from \in S
    OBVIOUS
  <2>1. n + (from - 1) \in S /\ n + from \in from .. to /\ (n + from) - 1 = n + (from - 1)
    OBVIOUS
  <2>2. QED
    BY <2>1
<1>3. \A n \in Nat : n \in T
  <2> HIDE DEF T
  <2> QED
    BY <1>1, <1>2, NatSetInduction
<1>4. ASSUME NEW d \in from .. to PROVE d \in S
  <2>1. d - (from - 1) \in Nat /\ (d - (from - 1)) + (from - 1) = d
    OBVIOUS
  <2>2. QED
    BY <1>3, <2>1
<1>5. QED
  BY <1>4

(***************************************************************************)
(* Recursion over the days of a range: a function whose value on a day is  *)
(* computed from the one before exists.                                    *)
(***************************************************************************)
Recursion(from, to, S, c, next) ==
  \E g \in [from - 1 .. to -> S] :
    /\ g[from - 1] = c
    /\ \A d \in from .. to : g[d] = next[d][g[d - 1]]

LEMMA DayRecursion ==
  ASSUME NEW from \in Int, NEW to \in Int, from <= to, NEW S, NEW c \in S,
         NEW next \in [from .. to -> [S -> S]]
  PROVE  Recursion(from, to, S, c, next)
<1> DEFINE Fits(g, e) == /\ g \in [from - 1 .. e -> S]
                         /\ g[from - 1] = c
                         /\ \A d \in from .. e : g[d] = next[d][g[d - 1]]
           T == {e \in from - 1 .. to : \E g : Fits(g, e)}
<1>1. from - 1 \in T
  <2>1. Fits([d \in from - 1 .. from - 1 |-> c], from - 1)
    OBVIOUS
  <2> HIDE DEF Fits
  <2>2. QED
    BY <2>1
<1>2. ASSUME NEW e \in from .. to, e - 1 \in T PROVE e \in T
  <2>1. PICK g : Fits(g, e - 1)
    BY <1>2
  <2> DEFINE h == [d \in from - 1 .. e |-> IF d < e THEN g[d] ELSE next[e][g[e - 1]]]
  <2>2. h \in [from - 1 .. e -> S]
    <3>1. g[e - 1] \in S
      BY <2>1
    <3>2. next[e][g[e - 1]] \in S
      BY <3>1
    <3>3. \A d \in from - 1 .. e : d < e => g[d] \in S
      BY <2>1
    <3>4. QED
      BY <3>2, <3>3
  <2>3. h[from - 1] = c
    BY <2>1
  <2>4. ASSUME NEW d \in from .. e PROVE h[d] = next[d][h[d - 1]]
    <3>1. d - 1 \in from - 1 .. e /\ d - 1 < e
      OBVIOUS
    <3>2. h[d - 1] = g[d - 1]
      BY <3>1
    <3>3. CASE d < e
      BY <2>1, <3>2, <3>3
    <3>4. CASE d = e
      BY <3>2, <3>4
    <3>5. QED
      BY <3>3, <3>4
  <2>5. Fits(h, e)
    BY <2>2, <2>3, <2>4
  <2> HIDE DEF Fits, h
  <2>6. QED
    BY <2>5
<1>3. to \in T
  <2> HIDE DEF T
  <2>1. \A d \in from .. to : d \in T
    BY <1>1, <1>2, DayInduction
  <2> QED
    BY <2>1
<1>4. QED
  BY <1>3 DEF Recursion

-----------------------------------------------------------------------------
(***************************************************************************)
(* Greatest common divisors, by the identity of Bezout.                    *)
(***************************************************************************)

\* g divides both, and is a sum of multiples of them.
IsGcd(g, m, n) ==
  /\ g \in Nat
  /\ \E a, b \in Nat : m = g * a /\ n = g * b
  /\ \E x, y \in Int : g = m * x + n * y

\* Division with rest.
LEMMA DivMod ==
  ASSUME NEW m \in Nat, NEW n \in Nat \ {0}
  PROVE  /\ m \div n \in Nat /\ m % n \in Nat /\ m % n < n
         /\ m = n * (m \div n) + (m % n)
OBVIOUS

\* The step of Euclid's algorithm.
LEMMA GcdOfRest ==
  ASSUME NEW m \in Nat, NEW n \in Nat \ {0}, NEW g, IsGcd(g, n, m % n)
  PROVE  IsGcd(g, m, n)
<1> DEFINE q == m \div n
           r == m % n
<1>1. q \in Nat /\ r \in Nat /\ m = n * q + r
  BY DivMod
<1> HIDE DEF q, r
<1>2. g \in Nat
  BY DEF IsGcd
<1>3. PICK a, b \in Nat : n = g * a /\ r = g * b
  BY DEF IsGcd, r
<1>4. PICK x, y \in Int : g = n * x + r * y
  BY DEF IsGcd, r
<1>5. a * q + b \in Nat /\ m = g * (a * q + b)
  <2>1. a * q \in Nat
    BY <1>1
  <2>2. g * (a * q + b) = (g * a) * q + g * b
    BY <1>1, <1>2, <2>1
  <2> QED
    BY <1>1, <1>3, <2>1, <2>2
<1>6. x - q * y \in Int /\ g = m * y + n * (x - q * y)
  <2>1. q * y \in Int
    BY <1>1
  <2>2. n * (x - q * y) = n * x - (n * q) * y
    BY <1>1, <2>1
  <2>3. m * y = (n * q) * y + r * y
    BY <1>1
  <2> QED
    BY <1>1, <1>4, <2>1, <2>2, <2>3
<1>7. QED
  BY <1>2, <1>3, <1>5, <1>6 DEF IsGcd

\* Where it ends.
LEMMA GcdOfZero == \A m \in Nat : IsGcd(m, m, 0)
<1> SUFFICES ASSUME NEW m \in Nat PROVE IsGcd(m, m, 0)
  OBVIOUS
<1>1. m = m * 1 /\ 0 = m * 0 /\ m = m * 1 + 0 * 0
  OBVIOUS
<1>2. QED
  BY <1>1 DEF IsGcd

\* It ends for all numbers, as the rests get smaller.
LEMMA GcdExists == \A m, n \in Nat : \E g : IsGcd(g, m, n)
<1> DEFINE T == {n \in Nat : \E m \in Nat : \A g : ~ IsGcd(g, m, n)}
<1>1. ASSUME T # {} PROVE FALSE
  <2>1. PICK n \in T : \A y \in T : n <= y
    BY <1>1, LeastNatural
  <2>2. PICK m \in Nat : \A g : ~ IsGcd(g, m, n)
    BY <2>1
  <2>3. n \in Nat \ {0}
    BY <2>2, GcdOfZero
  <2>4. m % n \in Nat /\ m % n < n
    BY <2>3, DivMod
  <2>5. m % n \notin T
    BY <2>1, <2>3, <2>4
  <2>6. PICK g : IsGcd(g, n, m % n)
    BY <2>3, <2>4, <2>5
  <2>7. QED
    BY <2>2, <2>3, <2>6, GcdOfRest
<1>2. QED
  BY <1>1

\* A multiple of a positive number is zero or not less than it.
LEMMA MultipleBound ==
  ASSUME NEW g \in Nat, NEW h \in Nat, NEW k \in Int, g = h * k
  PROVE  g = 0 \/ h <= g
<1>1. CASE k <= 0
  <2>1. h * k <= 0
    BY <1>1
  <2> QED BY <2>1
<1>2. CASE k > 0
  <2>1. h * k = h + h * (k - 1) /\ h * (k - 1) >= 0
    BY <1>2
  <2> QED BY <2>1
<1>3. QED
  BY <1>1, <1>2

\* A common divisor divides a sum of multiples.
LEMMA DividesSum ==
  ASSUME NEW h \in Int, NEW a \in Int, NEW b \in Int, NEW x \in Int, NEW y \in Int
  PROVE  /\ a * x + b * y \in Int
         /\ (h * a) * x + (h * b) * y = h * (a * x + b * y)
<1>1. a * x \in Int /\ b * y \in Int
  OBVIOUS
<1>2. (h * a) * x = h * (a * x) /\ (h * b) * y = h * (b * y)
  OBVIOUS
<1>3. QED
  BY <1>1, <1>2

Divides(b, k) == \E j \in Int : k = b * j

\* Numbers have one greatest common divisor.
LEMMA GcdUnique ==
  ASSUME NEW m \in Nat, NEW n \in Nat, NEW g, NEW h, IsGcd(g, m, n), IsGcd(h, m, n)
  PROVE  g = h
<1>1. ASSUME NEW u, NEW v, IsGcd(u, m, n), IsGcd(v, m, n)
      PROVE  u \in Nat /\ v \in Nat /\ Divides(v, u)
  <2>1. u \in Nat /\ v \in Nat
    BY <1>1 DEF IsGcd
  <2>2. PICK a, b \in Nat : m = v * a /\ n = v * b
    BY <1>1 DEF IsGcd
  <2>3. PICK x, y \in Int : u = m * x + n * y
    BY <1>1 DEF IsGcd
  <2> DEFINE k == a * x + b * y
  <2>4. k \in Int /\ (v * a) * x + (v * b) * y = v * k
    BY <2>1, <2>2, <2>3, DividesSum
  <2>5. u = v * k
    BY <2>2, <2>3, <2>4
  <2> HIDE DEF k
  <2>6. QED
    BY <2>1, <2>4, <2>5 DEF Divides
<1>2. PICK k \in Int : g = h * k
  <2>1. Divides(h, g)
    BY <1>1
  <2>2. QED
    BY <2>1 DEF Divides
<1>3. PICK l \in Int : h = g * l
  <2>1. Divides(g, h)
    BY <1>1
  <2>2. QED
    BY <2>1 DEF Divides
<1>4. g \in Nat /\ h \in Nat
  BY <1>1
<1>5. g = 0 \/ h <= g
  BY <1>2, <1>4, MultipleBound
<1>6. h = 0 \/ g <= h
  BY <1>3, <1>4, MultipleBound
<1>7. (g = 0 => h = 0) /\ (h = 0 => g = 0)
  BY <1>2, <1>3, <1>4
<1>8. QED
  BY <1>4, <1>5, <1>6, <1>7

\* The recursive function of Fractions computes it.
LEMMA GcdCorrect == \A n, m \in Nat : IsGcd(gcd[n][m], m, n)
<1> DEFINE Solves(f) == f = [n \in Nat |-> [m \in Nat |-> IF n = 0 THEN m ELSE f[m % n][n]]]
           G == [n \in Nat |-> [m \in Nat |-> CHOOSE g : IsGcd(g, m, n)]]
<1>1. \A n, m \in Nat : IsGcd(G[n][m], m, n)
  BY GcdExists
<1>2. Solves(G)
  <2>1. ASSUME NEW m \in Nat, NEW n \in Nat
        PROVE  G[n][m] = IF n = 0 THEN m ELSE G[m % n][n]
    <3> HIDE DEF G
    <3>1. CASE n = 0
      BY <1>1, <3>1, GcdOfZero, GcdUnique
    <3>2. CASE n # 0
      <4>1. m % n \in Nat
        BY <3>2, DivMod
      <4>2. IsGcd(G[m % n][n], m, n)
        BY <1>1, <3>2, <4>1, GcdOfRest
      <4>3. QED
        BY <1>1, <3>2, <4>2, GcdUnique
    <3>3. QED
      BY <3>1, <3>2
  <2>2. G = [n \in Nat |-> G[n]] /\ \A n \in Nat : G[n] = [m \in Nat |-> G[n][m]]
    OBVIOUS
  <2> HIDE DEF G
  <2>3. \A n \in Nat : G[n] = [m \in Nat |-> IF n = 0 THEN m ELSE G[m % n][n]]
    BY <2>1, <2>2
  <2>4. QED
    BY <2>2, <2>3
<1>3. Solves(gcd)
  <2>1. gcd = CHOOSE f : Solves(f)
    BY DEF gcd
  <2>2. QED
    <3> HIDE DEF Solves, G
    <3> QED BY <1>2, <2>1
<1>4. \A m, n \in Nat : gcd[n][m] = IF n = 0 THEN m ELSE gcd[m % n][n]
  BY <1>3
<1> DEFINE T == {n \in Nat : \E m \in Nat : ~ IsGcd(gcd[n][m], m, n)}
<1>5. ASSUME T # {} PROVE FALSE
  <2>1. PICK n \in T : \A y \in T : n <= y
    BY <1>5, LeastNatural
  <2>2. PICK m \in Nat : ~ IsGcd(gcd[n][m], m, n)
    BY <2>1
  <2>3. n \in Nat \ {0}
    BY <1>4, <2>1, <2>2, GcdOfZero
  <2>4. m % n \in Nat /\ m % n < n
    BY <2>3, DivMod
  <2>5. m % n \notin T
    BY <2>1, <2>3, <2>4
  <2>6. IsGcd(gcd[m % n][n], n, m % n)
    BY <2>3, <2>4, <2>5
  <2>7. IsGcd(gcd[m % n][n], m, n)
    BY <2>3, <2>6, GcdOfRest
  <2>8. QED
    BY <1>4, <2>2, <2>3, <2>7
<1>6. QED
  BY <1>5

-----------------------------------------------------------------------------
(* Numbers without a common factor *)

Coprime(a, b) == \E x, y \in Int : a * x + b * y = 1

\* Having no common factor is symmetric.
LEMMA CoprimeSymmetric ==
  ASSUME NEW a \in Int, NEW b \in Int, Coprime(a, b)
  PROVE  Coprime(b, a)
<1>1. PICK x, y \in Int : a * x + b * y = 1
  BY DEF Coprime
<1>2. b * y + a * x = 1
  BY <1>1
<1>3. QED
  BY <1>2 DEF Coprime

\* Factors of numbers without a common factor have none either.
LEMMA CoprimeFactors ==
  ASSUME NEW a \in Int, NEW b \in Int, NEW j \in Int, NEW k \in Int, Coprime(a * j, b * k)
  PROVE  Coprime(a, b)
<1>1. PICK x, y \in Int : (a * j) * x + (b * k) * y = 1
  BY DEF Coprime
<1>2. j * x \in Int /\ k * y \in Int /\ a * (j * x) + b * (k * y) = 1
  <2>1. (a * j) * x = a * (j * x) /\ (b * k) * y = b * (k * y)
    OBVIOUS
  <2>2. QED
    BY <1>1, <2>1
<1>3. QED
  BY <1>2 DEF Coprime

\* A number without a factor in common with two has none with their product.
LEMMA CoprimeProduct ==
  ASSUME NEW a \in Int, NEW b \in Int, NEW c \in Int, Coprime(a, b), Coprime(a, c)
  PROVE  Coprime(a, b * c)
<1>1. PICK x, y \in Int : a * x + b * y = 1
  BY DEF Coprime
<1>2. PICK u, v \in Int : a * u + c * v = 1
  BY DEF Coprime
<1> DEFINE s == x + (b * y) * u
           t == y * v
<1>3. s \in Int /\ t \in Int
  OBVIOUS
<1>4. a * s + (b * c) * t = 1
  <2>1. a * s = a * x + (b * y) * (a * u)
    OBVIOUS
  <2>2. (b * c) * t = (b * y) * (c * v)
    OBVIOUS
  <2>3. (b * y) * (a * u) + (b * y) * (c * v) = (b * y) * (a * u + c * v)
    OBVIOUS
  <2>4. (b * y) * (a * u + c * v) = b * y
    BY <1>2
  <2>5. a * s \in Int /\ (b * c) * t \in Int /\ a * x \in Int /\ b * y \in Int
        /\ (b * y) * (a * u) \in Int /\ (b * y) * (c * v) \in Int
    OBVIOUS
  <2> HIDE DEF s, t
  <2>6. QED
    BY <1>1, <2>1, <2>2, <2>3, <2>4, <2>5
<1>5. QED
  BY <1>3, <1>4 DEF Coprime

\* Euclid's lemma.
LEMMA CoprimeDivides ==
  ASSUME NEW a \in Int, NEW b \in Int, NEW k \in Int, NEW l \in Int,
         Coprime(a, b), a * k = b * l
  PROVE  Divides(b, k)
<1>1. PICK x, y \in Int : a * x + b * y = 1
  BY DEF Coprime
<1>2. k = b * (l * x + k * y)
  <2>1. (a * k) * x = (b * l) * x
    OBVIOUS
  <2>2. k = k * (a * x + b * y)
    BY <1>1
  <2>3. k * (a * x + b * y) = (a * k) * x + b * (k * y)
    OBVIOUS
  <2>4. (b * l) * x + b * (k * y) = b * (l * x + k * y)
    OBVIOUS
  <2>5. QED
    BY <2>1, <2>2, <2>3, <2>4
<1>3. l * x + k * y \in Int
  OBVIOUS
<1>4. QED
  BY <1>2, <1>3 DEF Divides

\* A common factor may be left out of an equation.
LEMMA Cancel ==
  ASSUME NEW g \in Int \ {0}, NEW u \in Int, NEW v \in Int, g * u = g * v
  PROVE  u = v
<1>1. g * (u - v) = 0
  OBVIOUS
<1>2. QED
  BY <1>1

\* Dividing a multiple gives back the other factor.
LEMMA DivExact ==
  ASSUME NEW g \in Nat \ {0}, NEW a \in Int
  PROVE  (g * a) \div g = a
<1> DEFINE m == g * a
           q == m \div g
           r == m % g
<1>1. m \in Int
  OBVIOUS
<1>2. q \in Int /\ r \in Nat /\ r < g /\ m = g * q + r
  <2> HIDE DEF m
  <2> QED BY <1>1
<1>3. r = g * (a - q)
  <2> HIDE DEF q, r
  <2> QED BY <1>2
<1>4. a - q \in Int
  BY <1>2
<1>5. r = 0
  <2> HIDE DEF q, r
  <2> QED BY <1>2, <1>3, <1>4, MultipleBound
<1>6. g * q = g * a
  <2> HIDE DEF q, r
  <2> QED BY <1>2, <1>5
<1>7. q = a
  <2> HIDE DEF q
  <2> QED BY <1>2, <1>6, Cancel
<1>8. QED
  BY <1>7

-----------------------------------------------------------------------------
(***************************************************************************)
(* Fractions are exact, and equal numbers are equal records.               *)
(***************************************************************************)

InLowestTerms(p) == p \in [num : Int, den : Nat \ {0}] /\ Coprime(p.num, p.den)

\* A fraction has the value n / d, and n and d are multiples of its terms.
LEMMA FractionIsExact ==
  ASSUME NEW n \in Int, NEW d \in Int \ {0}
  PROVE  /\ InLowestTerms(Fraction(n, d))
         /\ Fraction(n, d).num * d = n * Fraction(n, d).den
         /\ \E k \in Int : n = Fraction(n, d).num * k /\ d = Fraction(n, d).den * k
<1> DEFINE g == gcd[Abs(d)][Abs(n)]
           s == IF d < 0 THEN -1 ELSE 1
           i == IF n < 0 THEN -1 ELSE 1
           r == Fraction(n, d)
<1>1. Abs(n) \in Nat /\ Abs(d) \in Nat \ {0} /\ s * d = Abs(d) /\ Abs(n) = i * n
  BY DEF Abs
<1>2. IsGcd(g, Abs(n), Abs(d))
  BY <1>1, GcdCorrect
<1>3. s \in {-1, 1} /\ i \in {-1, 1}
  OBVIOUS
<1>r. r = [num |-> (s * n) \div g, den |-> (s * d) \div g]
  BY DEF Fraction
<1> HIDE DEF g, s, i, r
<1>4. PICK a, b \in Nat : Abs(n) = g * a /\ Abs(d) = g * b
  BY <1>2 DEF IsGcd
<1>5. g \in Nat \ {0} /\ b \in Nat \ {0}
  <2>1. g \in Nat
    BY <1>2 DEF IsGcd
  <2>2. g = 0 \/ b = 0 => g * b = 0
    BY <2>1
  <2>3. QED
    BY <1>1, <1>4, <2>1, <2>2
<1>6. (s * i) * a \in Int /\ s * n = g * ((s * i) * a)
  <2>1. s * n = (s * i) * Abs(n)
    BY <1>1, <1>3
  <2>2. g * ((s * i) * a) = (s * i) * (g * a)
    BY <1>3, <1>5
  <2>3. QED
    BY <1>3, <1>4, <2>1, <2>2
<1> DEFINE c == (s * i) * a
<1>7. c \in Int /\ r = [num |-> c, den |-> b]
  <2>1. c \in Int /\ s * n = g * c
    BY <1>6
  <2> HIDE DEF c
  <2>2. (s * n) \div g = c
    BY <1>5, <2>1, DivExact
  <2>3. (s * d) \div g = b
    BY <1>1, <1>4, <1>5, DivExact
  <2>4. QED
    BY <1>r, <2>1, <2>2, <2>3
<1>8. Coprime(c, b)
  <2>1. PICK x, y \in Int : g = Abs(n) * x + Abs(d) * y
    BY <1>2 DEF IsGcd
  <2>2. g * 1 = g * (a * x + b * y)
    <3>1. (g * a) * x + (g * b) * y = g * (a * x + b * y)
      BY <1>5, DividesSum
    <3>2. QED
      BY <1>4, <1>5, <2>1, <3>1
  <2>3. 1 = a * x + b * y
    <3>1. a * x + b * y \in Int
      OBVIOUS
    <3>2. QED
      BY <1>5, <2>2, <3>1, Cancel
  <2>4. c * ((s * i) * x) + b * y = 1
    <3>1. (s * i) * (s * i) = 1
      BY <1>3
    <3>2. c * ((s * i) * x) = ((s * i) * (s * i)) * (a * x)
      BY <1>3
    <3>3. QED
      BY <2>3, <3>1, <3>2
  <2>5. (s * i) * x \in Int
    BY <1>3
  <2>6. QED
    BY <2>4, <2>5 DEF Coprime
<1> HIDE DEF c
<1>9. n = c * (s * g) /\ d = b * (s * g) /\ s * g \in Int
  <2>1. s * (s * n) = n /\ s * (s * d) = d
    BY <1>3
  <2>2. c * (s * g) = s * (g * c) /\ b * (s * g) = s * (g * b)
    BY <1>3, <1>5, <1>7
  <2>3. s * n = g * c /\ s * d = g * b
    BY <1>1, <1>4, <1>6 DEF c
  <2>4. QED
    BY <1>3, <1>5, <2>1, <2>2, <2>3
<1>10. c * d = n * b
  <2>1. c * (b * (s * g)) = (c * (s * g)) * b
    BY <1>7, <1>9
  <2>2. QED
    BY <1>9, <2>1
<1>11. r.num = c /\ r.den = b /\ InLowestTerms(r)
  BY <1>5, <1>7, <1>8 DEF InLowestTerms
<1>12. /\ r.num * d = n * r.den
       /\ \E k \in Int : n = r.num * k /\ d = r.den * k
  BY <1>9, <1>10, <1>11
<1>13. QED
  BY <1>11, <1>12 DEF r

\* Fractions of equal value are equal records.
LEMMA FractionIsUnique ==
  ASSUME NEW p, NEW q, InLowestTerms(p), InLowestTerms(q), p.num * q.den = q.num * p.den
  PROVE  p = q
<1>0. /\ p.num \in Int /\ q.num \in Int /\ p.den \in Nat \ {0} /\ q.den \in Nat \ {0}
      /\ Coprime(p.num, p.den) /\ Coprime(q.num, q.den)
      /\ p = [num |-> p.num, den |-> p.den] /\ q = [num |-> q.num, den |-> q.den]
  BY DEF InLowestTerms
<1> DEFINE a == p.num  b == p.den  c == q.num  d == q.den
<1>1. a \in Int /\ b \in Nat \ {0} /\ c \in Int /\ d \in Nat \ {0} /\ a * d = c * b
      /\ Coprime(a, b) /\ Coprime(c, d)
  BY <1>0
<1>2. b = d /\ a = c
  <2> HIDE DEF a, b, c, d
  <2>1. /\ a * d = b * c /\ c * b = d * a
        /\ b \in Int /\ d \in Int
    BY <1>1
  <2>2. Divides(b, d) /\ Divides(d, b)
    BY <1>1, <2>1, CoprimeDivides
  <2>3. PICK j, k \in Int : d = b * j /\ b = d * k
    BY <2>2 DEF Divides
  <2>4. b <= d /\ d <= b
    BY <1>1, <2>3, MultipleBound
  <2>5. b = d
    BY <1>1, <2>4
  <2>6. b * a = b * c
    BY <1>1, <2>1, <2>5
  <2>7. QED
    BY <1>1, <2>5, <2>6, Cancel
<1>3. QED
  BY <1>0, <1>2

\* Fractions of one value n / d are one record.
LEMMA ValueIsUnique ==
  ASSUME NEW p, NEW q, InLowestTerms(p), InLowestTerms(q), NEW n \in Int, NEW d \in Int \ {0},
         p.num * d = n * p.den, q.num * d = n * q.den
  PROVE  p = q
<1> DEFINE a == p.num  b == p.den  s == q.num  t == q.den
<1>1. a \in Int /\ b \in Int /\ s \in Int /\ t \in Int /\ a * d = n * b /\ s * d = n * t
  BY DEF InLowestTerms
<1>2. p.num * q.den = q.num * p.den
  <2> HIDE DEF a, b, s, t
  <2>1. d * (a * t) = (a * d) * t /\ d * (s * b) = (s * d) * b
    BY <1>1
  <2>2. (n * b) * t = (n * t) * b
    BY <1>1
  <2>3. d * (a * t) = d * (s * b)
    BY <1>1, <2>1, <2>2
  <2>4. a * t \in Int /\ s * b \in Int
    BY <1>1
  <2>5. a * t = s * b
    BY <2>3, <2>4, Cancel
  <2>6. QED
    BY <2>5 DEF a, b, s, t
<1>3. QED
  BY <1>2, FractionIsUnique

\* One is in lowest terms.
LEMMA UnityInLowestTerms == InLowestTerms(Unity)
<1>1. 1 * 1 + 1 * 0 = 1
  OBVIOUS
<1>2. QED
  BY <1>1 DEF InLowestTerms, Unity, Whole, Coprime

\* Products are exact.
LEMMA TimesIsExact ==
  ASSUME NEW p, NEW q, InLowestTerms(p), InLowestTerms(q)
  PROVE  /\ InLowestTerms(Times(p, q))
         /\ Times(p, q).num * (p.den * q.den) = (p.num * q.num) * Times(p, q).den
<1> DEFINE a == Fraction(p.num, q.den)
           b == Fraction(q.num, p.den)
           r == Times(p, q)
<1>0. /\ p.num \in Int /\ q.num \in Int /\ p.den \in Nat \ {0} /\ q.den \in Nat \ {0}
      /\ Coprime(p.num, p.den) /\ Coprime(q.num, q.den)
  BY DEF InLowestTerms
<1>1. /\ InLowestTerms(a) /\ \E k \in Int : p.num = a.num * k /\ q.den = a.den * k
      /\ InLowestTerms(b) /\ \E l \in Int : q.num = b.num * l /\ p.den = b.den * l
  BY <1>0, FractionIsExact
<1>r. r = [num |-> a.num * b.num, den |-> a.den * b.den]
  BY DEF Times
<1> HIDE DEF a, b, r
<1>2. PICK k \in Int : p.num = a.num * k /\ q.den = a.den * k
  BY <1>1
<1>3. PICK l \in Int : q.num = b.num * l /\ p.den = b.den * l
  BY <1>1
<1> DEFINE an == a.num  ad == a.den  bn == b.num  bd == b.den
<1>4. an \in Int /\ bn \in Int /\ ad \in Nat \ {0} /\ bd \in Nat \ {0}
      /\ ad \in Int /\ bd \in Int /\ Coprime(an, ad) /\ Coprime(bn, bd)
  BY <1>1 DEF InLowestTerms
<1>5. /\ p.num = an * k /\ q.den = ad * k /\ q.num = bn * l /\ p.den = bd * l
      /\ r = [num |-> an * bn, den |-> ad * bd]
  BY <1>2, <1>3, <1>r
<1> HIDE DEF an, ad, bn, bd
<1>6. Coprime(an, bd) /\ Coprime(bn, ad)
  <2>1. Coprime(an * k, bd * l) /\ Coprime(bn * l, ad * k)
    BY <1>0, <1>5
  <2>2. QED
    BY <1>4, <2>1, CoprimeFactors
<1>7. an * bn \in Int /\ ad * bd \in Nat \ {0} /\ ad * bd \in Int
  BY <1>4
<1>8. Coprime(an * bn, ad * bd)
  <2>1. Coprime(an, ad * bd)
    BY <1>4, <1>6, CoprimeProduct
  <2>2. Coprime(bn, ad * bd)
    BY <1>4, <1>6, CoprimeProduct
  <2>3. Coprime(ad * bd, an) /\ Coprime(ad * bd, bn)
    BY <1>4, <1>7, <2>1, <2>2, CoprimeSymmetric
  <2>4. Coprime(ad * bd, an * bn)
    BY <1>4, <1>7, <2>3, CoprimeProduct
  <2>5. QED
    BY <1>7, <2>4, CoprimeSymmetric
<1>9. (an * bn) * ((bd * l) * (ad * k)) = ((an * k) * (bn * l)) * (ad * bd)
  BY <1>4
<1>10. r.num = an * bn /\ r.den = ad * bd /\ InLowestTerms(r)
  BY <1>5, <1>7, <1>8 DEF InLowestTerms
<1>11. r.num * (p.den * q.den) = (p.num * q.num) * r.den
  BY <1>5, <1>9, <1>10
<1>12. QED
  BY <1>10, <1>11 DEF r

\* The growth from a to b, times that from b to c, is the growth from a to c.
LEMMA GrowthsMultiply ==
  ASSUME NEW a \in Nat \ {0}, NEW b \in Nat \ {0}, NEW c \in Nat \ {0}
  PROVE  Times(Fraction(b, a), Fraction(c, b)) = Fraction(c, a)
<1> DEFINE p == Fraction(b, a)
           q == Fraction(c, b)
           r == Times(p, q)
<1>1. /\ InLowestTerms(p) /\ p.num * a = b * p.den
      /\ InLowestTerms(q) /\ q.num * b = c * q.den
  BY FractionIsExact
<1>2. InLowestTerms(r) /\ r.num * (p.den * q.den) = (p.num * q.num) * r.den
  <2> HIDE DEF p, q
  <2> QED BY <1>1, TimesIsExact
<1> HIDE DEF p, q, r
<1> DEFINE pn == p.num  pd == p.den  qn == q.num  qd == q.den  rn == r.num  rd == r.den
<1>3. /\ pn \in Int /\ pd \in Nat \ {0} /\ qn \in Int /\ qd \in Nat \ {0}
      /\ rn \in Int /\ rd \in Nat \ {0}
      /\ pn * a = b * pd /\ qn * b = c * qd /\ rn * (pd * qd) = (pn * qn) * rd
  BY <1>1, <1>2 DEF InLowestTerms
<1>4. r.num * a = c * r.den
  <2> HIDE DEF pn, pd, qn, qd, rn, rd
  <2> DEFINE M == (pd * qd) * b
  <2>1. M \in Int \ {0}
    BY <1>3
  <2>2. M * (rn * a) = (rn * (pd * qd)) * (a * b)
    BY <1>3
  <2>3. ((pn * qn) * rd) * (a * b) = ((pn * a) * (qn * b)) * rd
    BY <1>3
  <2>4. ((b * pd) * (c * qd)) * rd = M * (c * rd)
    BY <1>3
  <2>5. M * (rn * a) = M * (c * rd)
    BY <1>3, <2>2, <2>3, <2>4
  <2>6. rn * a \in Int /\ c * rd \in Int
    BY <1>3
  <2> HIDE DEF M
  <2>7. rn * a = c * rd
    BY <2>1, <2>5, <2>6, Cancel
  <2>8. QED
    BY <2>7 DEF rn, rd
<1>5. InLowestTerms(Fraction(c, a)) /\ Fraction(c, a).num * a = c * Fraction(c, a).den
  BY FractionIsExact
<1>6. a \in Int \ {0} /\ c \in Int
  OBVIOUS
<1>7. r = Fraction(c, a)
  BY <1>2, <1>4, <1>5, <1>6, ValueIsUnique
<1>8. QED
  BY <1>7 DEF p, q, r

\* A number over itself is one.
LEMMA FractionOfEquals == \A a \in Nat \ {0} : Fraction(a, a) = Unity
<1> SUFFICES ASSUME NEW a \in Nat \ {0} PROVE Fraction(a, a) = Unity
  OBVIOUS
<1>1. InLowestTerms(Fraction(a, a)) /\ Fraction(a, a).num * a = a * Fraction(a, a).den
  BY FractionIsExact
<1>2. Unity.num * a = a * Unity.den
  BY DEF Unity, Whole
<1>3. a \in Int \ {0} /\ a \in Int
  OBVIOUS
<1>4. QED
  BY <1>1, <1>2, <1>3, UnityInLowestTerms, ValueIsUnique

\* Taking one off and adding it again changes nothing.
LEMMA MinusPlusUnity ==
  ASSUME NEW p, InLowestTerms(p)
  PROVE  Plus(Minus(p, Unity), Unity) = p
<1> DEFINE m == Minus(p, Unity)
           r == Plus(m, Unity)
<1>0. p.num \in Int /\ p.den \in Nat \ {0} /\ Unity.num = 1 /\ Unity.den = 1
  BY DEF InLowestTerms, Unity, Whole
<1>1. m = Fraction(p.num - p.den, p.den)
  BY <1>0 DEF Minus
<1>2. InLowestTerms(m) /\ m.num * p.den = (p.num - p.den) * m.den
  <2> HIDE DEF m
  <2>1. p.num - p.den \in Int /\ p.den \in Int \ {0}
    BY <1>0
  <2>2. QED
    BY <1>1, <2>1, FractionIsExact
<1> HIDE DEF m
<1>3. m.num \in Int /\ m.den \in Nat \ {0}
  BY <1>2 DEF InLowestTerms
<1>4. r = Fraction(m.num + m.den, m.den)
  BY <1>0, <1>3 DEF Plus
<1>5. InLowestTerms(r) /\ r.num * m.den = (m.num + m.den) * r.den
  <2> HIDE DEF r
  <2>1. m.num + m.den \in Int /\ m.den \in Int \ {0}
    BY <1>3
  <2>2. QED
    BY <1>4, <2>1, FractionIsExact
<1> HIDE DEF r
<1> DEFINE pn == p.num  pd == p.den  mn == m.num  md == m.den  rn == r.num  rd == r.den
<1>6. /\ pn \in Int /\ pd \in Nat \ {0} /\ mn \in Int /\ md \in Nat \ {0}
      /\ rn \in Int /\ rd \in Nat \ {0}
      /\ mn * pd = (pn - pd) * md /\ rn * md = (mn + md) * rd
  BY <1>0, <1>2, <1>3, <1>5 DEF InLowestTerms
<1>7. r.num * p.den = p.num * r.den
  <2> HIDE DEF pn, pd, mn, md, rn, rd
  <2>1. md * (rn * pd) = (rn * md) * pd
    BY <1>6
  <2>2. ((mn + md) * rd) * pd = (mn * pd + md * pd) * rd
    BY <1>6
  <2>3. (pn - pd) * md + md * pd = md * pn
    BY <1>6
  <2>4. (md * pn) * rd = md * (pn * rd)
    BY <1>6
  <2>5. md * (rn * pd) = md * (pn * rd)
    BY <1>6, <2>1, <2>2, <2>3, <2>4
  <2>6. rn * pd \in Int /\ pn * rd \in Int /\ md \in Int \ {0}
    BY <1>6
  <2>7. rn * pd = pn * rd
    BY <2>5, <2>6, Cancel
  <2>8. QED
    BY <2>7 DEF rn, rd, pn, pd
<1>8. r = p
  BY <1>5, <1>7, FractionIsUnique
<1>9. QED
  BY <1>8 DEF r, m

\* Sums are the same both ways.
LEMMA UnityPlus ==
  ASSUME NEW p, InLowestTerms(p)
  PROVE  Plus(Unity, p) = Plus(p, Unity)
<1>1. p.num \in Int /\ p.den \in Nat \ {0} /\ Unity.num = 1 /\ Unity.den = 1
  BY DEF InLowestTerms, Unity, Whole
<1>2. 1 * p.den + p.num * 1 = p.num * 1 + 1 * p.den /\ 1 * p.den = p.den * 1
  BY <1>1
<1> QED
  BY <1>1, <1>2 DEF Plus

\* A number times one is the number.
LEMMA TimesUnity ==
  ASSUME NEW p, InLowestTerms(p)
  PROVE  Times(p, Unity) = p
<1> DEFINE r == Times(p, Unity)
<1>1. InLowestTerms(r) /\ r.num * (p.den * Unity.den) = (p.num * Unity.num) * r.den
  BY UnityInLowestTerms, TimesIsExact
<1> HIDE DEF r
<1>2. p.num \in Int /\ p.den \in Int /\ Unity.num = 1 /\ Unity.den = 1
  BY DEF InLowestTerms, Unity, Whole
<1>3. r.num * p.den = p.num * r.den
  BY <1>1, <1>2
<1>4. r = p
  BY <1>1, <1>3, FractionIsUnique
<1> QED
  BY <1>4 DEF r

\* Nothing gained is a growth of one.
LEMMA UnityPlusZero == Plus(Unity, Zero) = Unity
<1>1. Plus(Unity, Zero) = Fraction(1, 1)
  BY DEF Plus, Unity, Zero, Whole
<1>2. 1 \in Nat \ {0}
  OBVIOUS
<1> QED
  BY <1>1, <1>2, FractionOfEquals

\* One plus what is gained from a to b, relative to a, is the growth.
LEMMA UnityPlusGain ==
  ASSUME NEW a \in Nat \ {0}, NEW b \in Int
  PROVE  Plus(Unity, Over(Minus(Whole(b), Whole(a)), Whole(a))) = Fraction(b, a)
<1> DEFINE m == Minus(Whole(b), Whole(a))
           f == Fraction(1, a)
           t == Times(m, f)
           r == Plus(Unity, t)
<1>1. m = Fraction(b - a, 1)
  <2>1. b * 1 - a * 1 = b - a /\ 1 * 1 = 1
    OBVIOUS
  <2> QED
    BY <2>1 DEF Minus, Whole
<1>2. Over(m, Whole(a)) = t
  BY DEF Over, Whole
<1>3. InLowestTerms(m) /\ m.num * 1 = (b - a) * m.den
  <2> HIDE DEF m
  <2>1. b - a \in Int /\ 1 \in Int \ {0}
    OBVIOUS
  <2> QED
    BY <1>1, <2>1, FractionIsExact
<1>4. InLowestTerms(f) /\ f.num * a = 1 * f.den
  <2>1. 1 \in Int /\ a \in Int \ {0}
    OBVIOUS
  <2> QED
    BY <2>1, FractionIsExact
<1> HIDE DEF m, f
<1>5. InLowestTerms(t) /\ t.num * (m.den * f.den) = (m.num * f.num) * t.den
  BY <1>3, <1>4, TimesIsExact
<1> HIDE DEF t
<1>6. /\ m.num \in Int /\ m.den \in Nat \ {0} /\ f.num \in Int /\ f.den \in Nat \ {0}
      /\ t.num \in Int /\ t.den \in Nat \ {0}
  BY <1>3, <1>4, <1>5 DEF InLowestTerms
<1>7. r = Fraction(t.den + t.num, t.den)
  <2>1. 1 * t.den + t.num * 1 = t.den + t.num /\ 1 * t.den = t.den
    BY <1>6
  <2> QED
    BY <2>1 DEF Plus, Unity, Whole
<1>8. InLowestTerms(r) /\ r.num * t.den = (t.den + t.num) * r.den
  <2> HIDE DEF r
  <2>1. t.den + t.num \in Int /\ t.den \in Int \ {0}
    BY <1>6
  <2> QED
    BY <1>7, <2>1, FractionIsExact
<1> HIDE DEF r
<1> DEFINE mn == m.num  md == m.den  fn == f.num  fd == f.den
           tn == t.num  td == t.den  rn == r.num  rd == r.den
<1>9. /\ mn \in Int /\ md \in Nat \ {0} /\ fn \in Int /\ fd \in Nat \ {0}
      /\ tn \in Int /\ td \in Nat \ {0} /\ rn \in Int /\ rd \in Nat \ {0}
      /\ mn = (b - a) * md /\ fn * a = fd /\ tn * (md * fd) = (mn * fn) * td
      /\ rn * td = (td + tn) * rd
  BY <1>3, <1>4, <1>5, <1>6, <1>8 DEF InLowestTerms
<1>10. r.num * a = b * r.den
  <2> HIDE DEF mn, md, fn, fd, tn, td, rn, rd
  <2>1. tn * a = (b - a) * td
    <3> DEFINE M == md * fd
    <3>1. M \in Int \ {0}
      BY <1>9
    <3>2. M * (tn * a) = (tn * (md * fd)) * a
      BY <1>9
    <3>3. ((mn * fn) * td) * a = mn * (fn * a) * td
      BY <1>9
    <3>4. mn * fd * td = M * ((b - a) * td)
      BY <1>9
    <3>5. M * (tn * a) = M * ((b - a) * td)
      BY <1>9, <3>2, <3>3, <3>4
    <3>6. tn * a \in Int /\ (b - a) * td \in Int
      BY <1>9
    <3> HIDE DEF M
    <3> QED
      BY <3>1, <3>5, <3>6, Cancel
  <2>2. td * (rn * a) = (rn * td) * a
    BY <1>9
  <2>3. ((td + tn) * rd) * a = (td * a + tn * a) * rd
    BY <1>9
  <2>4. (td * a + (b - a) * td) * rd = td * (b * rd)
    BY <1>9
  <2>5. td * (rn * a) = td * (b * rd)
    BY <1>9, <2>1, <2>2, <2>3, <2>4
  <2>6. rn * a \in Int /\ b * rd \in Int /\ td \in Int \ {0}
    BY <1>9
  <2>7. rn * a = b * rd
    BY <2>5, <2>6, Cancel
  <2> QED
    BY <2>7 DEF rn, rd
<1>11. a \in Int \ {0} /\ InLowestTerms(Fraction(b, a))
       /\ Fraction(b, a).num * a = b * Fraction(b, a).den
  BY FractionIsExact
<1>12. r = Fraction(b, a)
  BY <1>8, <1>10, <1>11, ValueIsUnique
<1> QED
  BY <1>2, <1>12 DEF r, m

(***************************************************************************)
(* What the amounts of the models rest on: sums, differences and products  *)
(* have the value they should, in lowest terms again, and equality of      *)
(* records is equality of numbers.                                         *)
(***************************************************************************)
THEOREM FractionsAreExact ==
  ASSUME NEW p, NEW q, InLowestTerms(p), InLowestTerms(q)
  PROVE  /\ InLowestTerms(Plus(p, q)) /\ InLowestTerms(Minus(p, q)) /\ InLowestTerms(Times(p, q))
         /\ Plus(p, q).num * (p.den * q.den) = (p.num * q.den + q.num * p.den) * Plus(p, q).den
         /\ Minus(p, q).num * (p.den * q.den) = (p.num * q.den - q.num * p.den) * Minus(p, q).den
         /\ Times(p, q).num * (p.den * q.den) = (p.num * q.num) * Times(p, q).den
         /\ p.num * q.den = q.num * p.den => p = q
<1> DEFINE sum == p.num * q.den + q.num * p.den
           difference == p.num * q.den - q.num * p.den
           whole == p.den * q.den
<1>1. /\ p.num \in Int /\ q.num \in Int /\ p.den \in Nat \ {0} /\ q.den \in Nat \ {0}
  BY DEF InLowestTerms
<1>2. sum \in Int /\ difference \in Int /\ whole \in Int \ {0}
  BY <1>1
<1>3. Plus(p, q) = Fraction(sum, whole) /\ Minus(p, q) = Fraction(difference, whole)
  BY DEF Plus, Minus
<1> HIDE DEF sum, difference, whole
<1>4. /\ InLowestTerms(Plus(p, q)) /\ InLowestTerms(Minus(p, q))
      /\ Plus(p, q).num * whole = sum * Plus(p, q).den
      /\ Minus(p, q).num * whole = difference * Minus(p, q).den
  BY <1>2, <1>3, FractionIsExact
<1>5. QED
  BY <1>4, TimesIsExact, FractionIsUnique DEF sum, difference, whole

-----------------------------------------------------------------------------
(***************************************************************************)
(* Fractions in order.                                                     *)
(***************************************************************************)
\* p is the number n / d.
Is(p, n, d) == InLowestTerms(p) /\ n \in Int /\ d \in Nat \ {0} /\ p.num * d = n * p.den

LEMMA IsItself ==
  ASSUME NEW p, InLowestTerms(p)
  PROVE  Is(p, p.num, p.den)
BY DEF Is, InLowestTerms

LEMMA IsFraction ==
  ASSUME NEW n \in Int, NEW d \in Nat \ {0}
  PROVE  Is(Fraction(n, d), n, d)
<1>1. d \in Int \ {0}
  OBVIOUS
<1> QED
  BY <1>1, FractionIsExact DEF Is

\* A factor on both sides.
LEMMA ScaledOrder ==
  ASSUME NEW a \in Int, NEW b \in Int, NEW k \in Nat \ {0}
  PROVE  a * k <= b * k <=> a <= b
<1>1. (b - a) * k = b * k - a * k
  OBVIOUS
<1>2. b - a >= 0 => (b - a) * k >= 0
  OBVIOUS
<1>3. b - a < 0 => (b - a) * k < 0
  OBVIOUS
<1> QED
  BY <1>1, <1>2, <1>3

LEMMA OrderOfValues ==
  ASSUME NEW p, NEW q, NEW n, NEW d, NEW m, NEW e, Is(p, n, d), Is(q, m, e)
  PROVE  AtMost(p, q) <=> n * e <= m * d
<1> DEFINE pn == p.num  pd == p.den  qn == q.num  qd == q.den
<1>1. /\ pn \in Int /\ pd \in Nat \ {0} /\ qn \in Int /\ qd \in Nat \ {0}
      /\ n \in Int /\ m \in Int /\ d \in Nat \ {0} /\ e \in Nat \ {0}
      /\ pn * d = n * pd /\ qn * e = m * qd
  BY DEF Is, InLowestTerms
<1>2. AtMost(p, q) <=> pn * qd <= qn * pd
  BY DEF AtMost
<1> HIDE DEF pn, pd, qn, qd
<1>3. /\ pn * qd \in Int /\ qn * pd \in Int /\ d * e \in Nat \ {0}
      /\ n * e \in Int /\ m * d \in Int /\ pd * qd \in Nat \ {0}
  BY <1>1
<1>4. (pn * qd) * (d * e) = (n * e) * (pd * qd)
  <2>1. (pn * qd) * (d * e) = (pn * d) * (qd * e)
    BY <1>1
  <2>2. (n * pd) * (qd * e) = (n * e) * (pd * qd)
    BY <1>1
  <2> QED
    BY <1>1, <2>1, <2>2
<1>5. (qn * pd) * (d * e) = (m * d) * (pd * qd)
  <2>1. (qn * pd) * (d * e) = (qn * e) * (pd * d)
    BY <1>1
  <2>2. (m * qd) * (pd * d) = (m * d) * (pd * qd)
    BY <1>1
  <2> QED
    BY <1>1, <2>1, <2>2
<1>6. pn * qd <= qn * pd <=> (pn * qd) * (d * e) <= (qn * pd) * (d * e)
  BY <1>3, ScaledOrder
<1>7. n * e <= m * d <=> (n * e) * (pd * qd) <= (m * d) * (pd * qd)
  BY <1>3, ScaledOrder
<1> QED
  BY <1>2, <1>4, <1>5, <1>6, <1>7

LEMMA EqualValues ==
  ASSUME NEW p, NEW q, NEW n, NEW d, NEW m, NEW e, Is(p, n, d), Is(q, m, e), n * e = m * d
  PROVE  p = q
<1>1. AtMost(p, q) /\ AtMost(q, p)
  <2>1. n * e \in Int /\ m * d \in Int
    BY DEF Is
  <2>2. n * e <= m * d /\ m * d <= n * e
    BY <2>1
  <2> QED
    BY <2>2, OrderOfValues
<1>2. InLowestTerms(p) /\ InLowestTerms(q) /\ p.num * q.den \in Int /\ q.num * p.den \in Int
  BY DEF Is, InLowestTerms
<1>3. p.num * q.den = q.num * p.den
  BY <1>1, <1>2 DEF AtMost
<1> QED
  BY <1>2, <1>3, FractionIsUnique

LEMMA SumOfValues ==
  ASSUME NEW p, NEW q, NEW n, NEW d, NEW m, NEW e, Is(p, n, d), Is(q, m, e)
  PROVE  Is(Plus(p, q), n * e + m * d, d * e)
<1> DEFINE pn == p.num  pd == p.den  qn == q.num  qd == q.den
           s == Plus(p, q)
           sn == s.num  sd == s.den
<1>1. /\ pn \in Int /\ pd \in Nat \ {0} /\ qn \in Int /\ qd \in Nat \ {0}
      /\ n \in Int /\ m \in Int /\ d \in Nat \ {0} /\ e \in Nat \ {0}
      /\ pn * d = n * pd /\ qn * e = m * qd
      /\ InLowestTerms(p) /\ InLowestTerms(q)
  BY DEF Is, InLowestTerms
<1>2. InLowestTerms(s) /\ sn * (pd * qd) = (pn * qd + qn * pd) * sd
  BY <1>1, FractionsAreExact
<1>3. sn \in Int /\ sd \in Nat \ {0}
  BY <1>2 DEF InLowestTerms
<1>4. Is(s, n * e + m * d, d * e) <=>
        (n * e + m * d \in Int /\ d * e \in Nat \ {0} /\ sn * (d * e) = (n * e + m * d) * sd)
  BY <1>2 DEF Is
<1> HIDE DEF pn, pd, qn, qd, sn, sd, s
<1>5. n * e + m * d \in Int /\ d * e \in Nat \ {0}
  BY <1>1
<1>6. sn * (d * e) = (n * e + m * d) * sd
  <2> DEFINE M == pd * qd
  <2>1. M \in Int \ {0} /\ sn * (d * e) \in Int /\ (n * e + m * d) * sd \in Int
    BY <1>1, <1>3
  <2>2. M * (sn * (d * e)) = (sn * (pd * qd)) * (d * e)
    BY <1>1, <1>3
  <2>3. ((pn * qd + qn * pd) * sd) * (d * e) = ((pn * d) * (qd * e) + (qn * e) * (pd * d)) * sd
    BY <1>1, <1>3
  <2>4. ((n * pd) * (qd * e) + (m * qd) * (pd * d)) * sd = M * ((n * e + m * d) * sd)
    BY <1>1, <1>3
  <2>5. M * (sn * (d * e)) = M * ((n * e + m * d) * sd)
    BY <1>1, <1>2, <2>2, <2>3, <2>4
  <2> HIDE DEF M
  <2> QED
    BY <2>1, <2>5, Cancel
<1> QED
  BY <1>4, <1>5, <1>6 DEF s

LEMMA ProductOfValues ==
  ASSUME NEW p, NEW q, NEW n, NEW d, NEW m, NEW e, Is(p, n, d), Is(q, m, e)
  PROVE  Is(Times(p, q), n * m, d * e)
<1> DEFINE pn == p.num  pd == p.den  qn == q.num  qd == q.den
           s == Times(p, q)
           sn == s.num  sd == s.den
<1>1. /\ pn \in Int /\ pd \in Nat \ {0} /\ qn \in Int /\ qd \in Nat \ {0}
      /\ n \in Int /\ m \in Int /\ d \in Nat \ {0} /\ e \in Nat \ {0}
      /\ pn * d = n * pd /\ qn * e = m * qd
      /\ InLowestTerms(p) /\ InLowestTerms(q)
  BY DEF Is, InLowestTerms
<1>2. InLowestTerms(s) /\ sn * (pd * qd) = (pn * qn) * sd
  BY <1>1, TimesIsExact
<1>3. sn \in Int /\ sd \in Nat \ {0}
  BY <1>2 DEF InLowestTerms
<1>4. Is(s, n * m, d * e) <=>
        (n * m \in Int /\ d * e \in Nat \ {0} /\ sn * (d * e) = (n * m) * sd)
  BY <1>2 DEF Is
<1> HIDE DEF pn, pd, qn, qd, sn, sd, s
<1>5. n * m \in Int /\ d * e \in Nat \ {0}
  BY <1>1
<1>6. sn * (d * e) = (n * m) * sd
  <2> DEFINE M == pd * qd
  <2>1. M \in Int \ {0} /\ sn * (d * e) \in Int /\ (n * m) * sd \in Int
    BY <1>1, <1>3
  <2>2. M * (sn * (d * e)) = (sn * (pd * qd)) * (d * e)
    BY <1>1, <1>3
  <2>3. ((pn * qn) * sd) * (d * e) = ((pn * d) * (qn * e)) * sd
    BY <1>1, <1>3
  <2>4. ((n * pd) * (m * qd)) * sd = M * ((n * m) * sd)
    BY <1>1, <1>3
  <2>5. M * (sn * (d * e)) = M * ((n * m) * sd)
    BY <1>1, <1>2, <2>2, <2>3, <2>4
  <2> HIDE DEF M
  <2> QED
    BY <2>1, <2>5, Cancel
<1> QED
  BY <1>4, <1>5, <1>6 DEF s

LEMMA AtMostTotal ==
  ASSUME NEW p, NEW q, InLowestTerms(p), InLowestTerms(q)
  PROVE  AtMost(p, q) \/ AtMost(q, p)
<1>1. p.num * q.den \in Int /\ q.num * p.den \in Int
  BY DEF InLowestTerms
<1> QED
  BY <1>1 DEF AtMost

LEMMA AtMostTransitive ==
  ASSUME NEW p, NEW q, NEW r, InLowestTerms(p), InLowestTerms(q), InLowestTerms(r),
         AtMost(p, q), AtMost(q, r)
  PROVE  AtMost(p, r)
<1> DEFINE a == p.num  b == p.den  c == q.num  d == q.den  e == r.num  f == r.den
<1>1. /\ a \in Int /\ b \in Nat \ {0} /\ c \in Int /\ d \in Nat \ {0} /\ e \in Int /\ f \in Nat \ {0}
      /\ a * d <= c * b /\ c * f <= e * d
  BY DEF AtMost, InLowestTerms
<1>2. AtMost(p, r) <=> a * f <= e * b
  BY DEF AtMost
<1> HIDE DEF a, b, c, d, e, f
<1>3. (a * d) * f <= (c * b) * f
  <2>1. a * d \in Int /\ c * b \in Int
    BY <1>1
  <2> QED
    BY <1>1, <2>1, ScaledOrder
<1>4. (c * f) * b <= (e * d) * b
  <2>1. c * f \in Int /\ e * d \in Int
    BY <1>1
  <2> QED
    BY <1>1, <2>1, ScaledOrder
<1>5. (a * d) * f = (a * f) * d /\ (c * b) * f = (c * f) * b /\ (e * d) * b = (e * b) * d
  BY <1>1
<1>6. a * f \in Int /\ e * b \in Int /\ (c * f) * b \in Int
  BY <1>1
<1>7. (a * f) * d \in Int /\ (e * b) * d \in Int
  BY <1>1, <1>6
<1>8. (a * f) * d <= (e * b) * d
  BY <1>3, <1>4, <1>5, <1>6, <1>7
<1> QED
  BY <1>1, <1>2, <1>6, <1>8, ScaledOrder

LEMMA PlusMonotone ==
  ASSUME NEW p, NEW q, NEW r, NEW s, InLowestTerms(p), InLowestTerms(q), InLowestTerms(r),
         InLowestTerms(s), AtMost(p, q), AtMost(r, s)
  PROVE  AtMost(Plus(p, r), Plus(q, s))
<1> DEFINE a == p.num  b == p.den  c == q.num  d == q.den
           e == r.num  f == r.den  g == s.num  h == s.den
<1>1. /\ a \in Int /\ b \in Nat \ {0} /\ c \in Int /\ d \in Nat \ {0}
      /\ e \in Int /\ f \in Nat \ {0} /\ g \in Int /\ h \in Nat \ {0}
      /\ a * d <= c * b /\ e * h <= g * f
  BY DEF AtMost, InLowestTerms
<1>2. Is(Plus(p, r), a * f + e * b, b * f) /\ Is(Plus(q, s), c * h + g * d, d * h)
  BY IsItself, SumOfValues
<1> HIDE DEF a, b, c, d, e, f, g, h
<1>3. (a * d) * (f * h) <= (c * b) * (f * h)
  <2>1. a * d \in Int /\ c * b \in Int /\ f * h \in Nat \ {0}
    BY <1>1
  <2> QED
    BY <1>1, <2>1, ScaledOrder
<1>4. (e * h) * (b * d) <= (g * f) * (b * d)
  <2>1. e * h \in Int /\ g * f \in Int /\ b * d \in Nat \ {0}
    BY <1>1
  <2> QED
    BY <1>1, <2>1, ScaledOrder
<1>5. (a * f + e * b) * (d * h) = (a * d) * (f * h) + (e * h) * (b * d)
  BY <1>1
<1>6. (c * h + g * d) * (b * f) = (c * b) * (f * h) + (g * f) * (b * d)
  BY <1>1
<1>7. /\ (a * d) * (f * h) \in Int /\ (c * b) * (f * h) \in Int
      /\ (e * h) * (b * d) \in Int /\ (g * f) * (b * d) \in Int
  BY <1>1
<1>8. (a * f + e * b) * (d * h) <= (c * h + g * d) * (b * f)
  BY <1>3, <1>4, <1>5, <1>6, <1>7
<1> QED
  BY <1>2, <1>8, OrderOfValues

Positive(p) == InLowestTerms(p) /\ p.num > 0

LEMMA TimesMonotone ==
  ASSUME NEW p, NEW q, NEW w, InLowestTerms(p), InLowestTerms(q), Positive(w), AtMost(p, q)
  PROVE  AtMost(Times(p, w), Times(q, w))
<1> DEFINE a == p.num  b == p.den  c == q.num  d == q.den  e == w.num  f == w.den
<1>1. /\ a \in Int /\ b \in Nat \ {0} /\ c \in Int /\ d \in Nat \ {0}
      /\ e \in Nat \ {0} /\ f \in Nat \ {0} /\ a * d <= c * b
  BY DEF AtMost, InLowestTerms, Positive
<1>2. Is(Times(p, w), a * e, b * f) /\ Is(Times(q, w), c * e, d * f)
  BY IsItself, ProductOfValues DEF Positive
<1> HIDE DEF a, b, c, d, e, f
<1>3. (a * d) * (e * f) <= (c * b) * (e * f)
  <2>1. a * d \in Int /\ c * b \in Int /\ e * f \in Nat \ {0}
    BY <1>1
  <2> QED
    BY <1>1, <2>1, ScaledOrder
<1>4. (a * e) * (d * f) = (a * d) * (e * f) /\ (c * e) * (b * f) = (c * b) * (e * f)
  BY <1>1
<1> QED
  BY <1>2, <1>3, <1>4, OrderOfValues

LEMMA TimesDistributes ==
  ASSUME NEW p, NEW u, NEW v, InLowestTerms(p), InLowestTerms(u), InLowestTerms(v)
  PROVE  Times(p, Plus(u, v)) = Plus(Times(p, u), Times(p, v))
<1> DEFINE a == p.num  b == p.den  c == u.num  d == u.den  e == v.num  f == v.den
<1>1. /\ a \in Int /\ b \in Nat \ {0} /\ c \in Int /\ d \in Nat \ {0}
      /\ e \in Int /\ f \in Nat \ {0}
  BY DEF InLowestTerms
<1>2. Is(p, a, b) /\ Is(u, c, d) /\ Is(v, e, f)
  BY IsItself
<1> HIDE DEF a, b, c, d, e, f
<1>3. Is(Plus(u, v), c * f + e * d, d * f)
  BY <1>2, SumOfValues
<1>4. Is(Times(p, Plus(u, v)), a * (c * f + e * d), b * (d * f))
  BY <1>2, <1>3, ProductOfValues
<1>5. Is(Times(p, u), a * c, b * d) /\ Is(Times(p, v), a * e, b * f)
  BY <1>2, ProductOfValues
<1>6. Is(Plus(Times(p, u), Times(p, v)), (a * c) * (b * f) + (a * e) * (b * d), (b * d) * (b * f))
  BY <1>5, SumOfValues
<1>7. (a * (c * f + e * d)) * ((b * d) * (b * f))
        = ((a * c) * (b * f) + (a * e) * (b * d)) * (b * (d * f))
  BY <1>1
<1> QED
  BY <1>4, <1>6, <1>7, EqualValues

\* Dividing by a positive number.
LEMMA OverUndoesTimes ==
  ASSUME NEW r, NEW w, InLowestTerms(r), Positive(w)
  PROVE  Over(Times(r, w), w) = r
<1> DEFINE a == r.num  b == r.den  e == w.num  f == w.den
<1>1. a \in Int /\ b \in Nat \ {0} /\ e \in Nat \ {0} /\ f \in Nat \ {0} /\ f \in Int
  BY DEF InLowestTerms, Positive
<1>2. Is(r, a, b) /\ Is(w, e, f)
  BY IsItself DEF Positive
<1>3. Over(Times(r, w), w) = Times(Times(r, w), Fraction(f, e))
  BY DEF Over
<1> HIDE DEF a, b, e, f
<1>4. Is(Fraction(f, e), f, e) /\ Is(Times(r, w), a * e, b * f)
  BY <1>1, <1>2, IsFraction, ProductOfValues
<1>5. Is(Times(Times(r, w), Fraction(f, e)), (a * e) * f, (b * f) * e)
  BY <1>4, ProductOfValues
<1>6. ((a * e) * f) * b = a * ((b * f) * e)
  BY <1>1
<1> QED
  BY <1>2, <1>3, <1>5, <1>6, EqualValues

LEMMA PositiveFraction ==
  ASSUME NEW n \in Nat \ {0}, NEW d \in Nat \ {0}
  PROVE  Positive(Fraction(n, d))
<1> DEFINE p == Fraction(n, d)  a == p.num  b == p.den
<1>1. InLowestTerms(p) /\ a * d = n * b
  BY IsFraction DEF Is
<1>2. a \in Int /\ b \in Nat \ {0}
  BY <1>1 DEF InLowestTerms
<1>3. Positive(p) <=> a > 0
  BY <1>1 DEF Positive
<1> HIDE DEF a, b, p
<1>4. n * b > 0 /\ n * b \in Int
  BY <1>2
<1>5. a <= 0 => a * d <= 0
  BY <1>2
<1> QED
  BY <1>1, <1>2, <1>3, <1>4, <1>5 DEF p

LEMMA OverMonotone ==
  ASSUME NEW p, NEW q, NEW w, InLowestTerms(p), InLowestTerms(q), Positive(w), AtMost(p, q)
  PROVE  AtMost(Over(p, w), Over(q, w))
<1>1. w.num \in Nat \ {0} /\ w.den \in Nat \ {0}
  BY DEF Positive, InLowestTerms
<1>2. Positive(Fraction(w.den, w.num))
  BY <1>1, PositiveFraction
<1> QED
  BY <1>2, TimesMonotone DEF Over

LEMMA PositivePlus ==
  ASSUME NEW p, NEW q, Positive(p), Positive(q) \/ q = Zero
  PROVE  Positive(Plus(p, q)) /\ Positive(Plus(q, p))
<1> DEFINE a == p.num  b == p.den  c == q.num  d == q.den
<1>0. InLowestTerms(q) /\ c \in Nat /\ d \in Nat \ {0}
  <2>1. CASE Positive(q)
    BY <2>1 DEF Positive, InLowestTerms
  <2>2. CASE q = Zero
    <3>1. Coprime(0, 1)
      <4>1. 0 * 0 + 1 * 1 = 1 /\ 0 \in Int /\ 1 \in Int
        OBVIOUS
      <4> QED
        BY <4>1 DEF Coprime
    <3> QED
      BY <2>2, <3>1 DEF Zero, Whole, InLowestTerms
  <2> QED
    BY <2>1, <2>2
<1>1. a \in Nat \ {0} /\ b \in Nat \ {0}
  BY DEF Positive, InLowestTerms
<1>2. Is(p, a, b) /\ Is(q, c, d)
  BY <1>0, IsItself DEF Positive
<1> HIDE DEF a, b, c, d
<1>3. Is(Plus(p, q), a * d + c * b, b * d) /\ Is(Plus(q, p), c * b + a * d, d * b)
  BY <1>2, SumOfValues
<1>4. /\ a * d + c * b \in Nat \ {0} /\ c * b + a * d \in Nat \ {0}
      /\ b * d \in Nat \ {0} /\ d * b \in Nat \ {0}
  <2>1. a * d \in Nat \ {0} /\ c * b \in Nat
    BY <1>0, <1>1
  <2>2. b * d \in Nat \ {0} /\ d * b \in Nat \ {0}
    BY <1>0, <1>1
  <2> QED
    BY <2>1, <2>2
<1>5. ASSUME NEW s, NEW n \in Nat \ {0}, NEW e \in Nat \ {0}, Is(s, n, e) PROVE Positive(s)
  <2>1. InLowestTerms(s) /\ s.num \in Int /\ s.den \in Nat \ {0} /\ s.num * e = n * s.den
    BY <1>5 DEF Is, InLowestTerms
  <2>2. n * s.den > 0
    BY <2>1
  <2>3. s.num <= 0 => s.num * e <= 0
    BY <2>1
  <2> QED
    BY <2>1, <2>2, <2>3 DEF Positive
<1> QED
  BY <1>3, <1>4, <1>5

LEMMA ZeroPlus ==
  ASSUME NEW p, InLowestTerms(p)
  PROVE  Plus(Zero, p) = p
<1>1. Is(Zero, 0, 1)
  <2>1. 0 * 0 + 1 * 1 = 1
    OBVIOUS
  <2> QED
    BY <2>1 DEF Is, InLowestTerms, Coprime, Zero, Whole
<1> DEFINE a == p.num  b == p.den
<1>2. Is(p, a, b) /\ a \in Int /\ b \in Nat \ {0}
  BY IsItself DEF Is
<1> HIDE DEF a, b
<1>3. Is(Plus(Zero, p), 0 * b + a * 1, 1 * b)
  BY <1>1, <1>2, SumOfValues
<1>4. (0 * b + a * 1) * b = a * (1 * b)
  BY <1>2
<1> QED
  BY <1>2, <1>3, <1>4, EqualValues

\* A weighted sum lies between its weight at the least of its rates and at the greatest.
Between(S, W, rs) ==
  /\ Positive(W) /\ InLowestTerms(S)
  /\ \E r \in rs : AtMost(Times(r, W), S)
  /\ \E r \in rs : AtMost(S, Times(r, W))

LEMMA FirstTerm ==
  ASSUME NEW r, NEW w, InLowestTerms(r), Positive(w)
  PROVE  Between(Plus(Zero, Times(r, w)), Plus(Zero, w), {r})
<1>1. InLowestTerms(w) /\ InLowestTerms(Times(r, w))
  BY TimesIsExact DEF Positive
<1>2. Plus(Zero, w) = w /\ Plus(Zero, Times(r, w)) = Times(r, w)
  BY <1>1, ZeroPlus
<1>3. AtMost(Times(r, w), Times(r, w))
  BY <1>1, AtMostTotal
<1> QED
  BY <1>1, <1>2, <1>3 DEF Between

LEMMA AnotherTerm ==
  ASSUME NEW S, NEW W, NEW rs, NEW r, NEW w, Between(S, W, rs),
         \A q \in rs : InLowestTerms(q), InLowestTerms(r), Positive(w)
  PROVE  Between(Plus(S, Times(r, w)), Plus(W, w), rs \cup {r})
<1>1. /\ InLowestTerms(S) /\ InLowestTerms(W) /\ InLowestTerms(w) /\ InLowestTerms(Times(r, w))
      /\ Positive(W) /\ Positive(Plus(W, w))
      /\ InLowestTerms(Plus(S, Times(r, w)))
  <2>1. /\ InLowestTerms(S) /\ InLowestTerms(W) /\ InLowestTerms(w) /\ Positive(W)
    BY DEF Between, Positive
  <2>2. InLowestTerms(Times(r, w)) /\ Positive(Plus(W, w))
    BY <2>1, TimesIsExact, PositivePlus
  <2> QED
    BY <2>1, <2>2, FractionsAreExact
<1>2. ASSUME NEW q \in rs \cup {r} PROVE Times(q, Plus(W, w)) = Plus(Times(q, W), Times(q, w))
                                         /\ InLowestTerms(Times(q, W)) /\ InLowestTerms(Times(q, w))
  <2>1. InLowestTerms(q)
    OBVIOUS
  <2> QED
    BY <1>1, <2>1, TimesDistributes, TimesIsExact
<1>3. \E q \in rs \cup {r} : AtMost(Times(q, Plus(W, w)), Plus(S, Times(r, w)))
  <2>1. PICK q \in rs : AtMost(Times(q, W), S)
    BY DEF Between
  <2>2. InLowestTerms(q)
    OBVIOUS
  <2>3. CASE AtMost(q, r)
    <3>1. AtMost(Times(q, w), Times(r, w))
      BY <2>2, <2>3, TimesMonotone
    <3>2. AtMost(Plus(Times(q, W), Times(q, w)), Plus(S, Times(r, w)))
      BY <1>1, <1>2, <2>1, <3>1, PlusMonotone
    <3> QED
      BY <1>2, <3>2
  <2>4. CASE AtMost(r, q)
    <3>1. AtMost(Times(r, W), Times(q, W))
      BY <1>1, <2>2, <2>4, TimesMonotone
    <3>2. AtMost(Times(r, W), S)
      BY <1>1, <1>2, <2>1, <3>1, AtMostTransitive
    <3>3. AtMost(Times(r, w), Times(r, w))
      BY <1>1, AtMostTotal
    <3>4. AtMost(Plus(Times(r, W), Times(r, w)), Plus(S, Times(r, w)))
      BY <1>1, <1>2, <3>2, <3>3, PlusMonotone
    <3> QED
      BY <1>2, <3>4
  <2> QED
    BY <2>2, <2>3, <2>4, AtMostTotal
<1>4. \E q \in rs \cup {r} : AtMost(Plus(S, Times(r, w)), Times(q, Plus(W, w)))
  <2>1. PICK q \in rs : AtMost(S, Times(q, W))
    BY DEF Between
  <2>2. InLowestTerms(q)
    OBVIOUS
  <2>3. CASE AtMost(r, q)
    <3>1. AtMost(Times(r, w), Times(q, w))
      BY <2>2, <2>3, TimesMonotone
    <3>2. AtMost(Plus(S, Times(r, w)), Plus(Times(q, W), Times(q, w)))
      BY <1>1, <1>2, <2>1, <3>1, PlusMonotone
    <3> QED
      BY <1>2, <3>2
  <2>4. CASE AtMost(q, r)
    <3>1. AtMost(Times(q, W), Times(r, W))
      BY <1>1, <2>2, <2>4, TimesMonotone
    <3>2. AtMost(S, Times(r, W))
      BY <1>1, <1>2, <2>1, <3>1, AtMostTransitive
    <3>3. AtMost(Times(r, w), Times(r, w))
      BY <1>1, AtMostTotal
    <3>4. AtMost(Plus(S, Times(r, w)), Plus(Times(r, W), Times(r, w)))
      BY <1>1, <1>2, <3>2, <3>3, PlusMonotone
    <3> QED
      BY <1>2, <3>4
  <2> QED
    BY <2>2, <2>3, <2>4, AtMostTotal
<1> QED
  BY <1>1, <1>3, <1>4 DEF Between

\* Divided by its weight, it lies between the rates.
LEMMA MeanLiesBetween ==
  ASSUME NEW S, NEW W, NEW rs, Between(S, W, rs), \A q \in rs : InLowestTerms(q)
  PROVE  /\ \E r \in rs : AtMost(r, Over(S, W))
         /\ \E r \in rs : AtMost(Over(S, W), r)
<1>1. Positive(W) /\ InLowestTerms(W) /\ InLowestTerms(S)
  BY DEF Between, Positive
<1>2. ASSUME NEW q \in rs PROVE InLowestTerms(Times(q, W)) /\ Over(Times(q, W), W) = q
  <2>1. InLowestTerms(q)
    OBVIOUS
  <2> QED
    BY <1>1, <2>1, TimesIsExact, OverUndoesTimes
<1>3. PICK q \in rs : AtMost(Times(q, W), S)
  BY DEF Between
<1>4. AtMost(q, Over(S, W))
  <2>1. AtMost(Over(Times(q, W), W), Over(S, W))
    BY <1>1, <1>2, <1>3, OverMonotone
  <2> QED
    BY <1>2, <2>1
<1>5. PICK t \in rs : AtMost(S, Times(t, W))
  BY DEF Between
<1>6. AtMost(Over(S, W), t)
  <2>1. AtMost(Over(S, W), Over(Times(t, W), W))
    BY <1>1, <1>2, <1>5, OverMonotone
  <2> QED
    BY <1>2, <2>1
<1> QED
  BY <1>4, <1>6

-----------------------------------------------------------------------------
(***************************************************************************)
(* Gains weighted with shares of a total: what grew from v to u is n / d   *)
(* with n = u - v and d = v, and weighted with v / t it is (u - v) / t.    *)
(***************************************************************************)
\* A common factor may be left out of a value.
LEMMA IsReduced ==
  ASSUME NEW p, NEW n \in Int, NEW d \in Nat \ {0}, NEW k \in Nat \ {0}, Is(p, n * k, d * k)
  PROVE  Is(p, n, d)
<1> DEFINE a == p.num  b == p.den
<1>1. /\ InLowestTerms(p) /\ a \in Int /\ b \in Nat \ {0}
      /\ a * (d * k) = (n * k) * b
  BY DEF Is, InLowestTerms
<1>2. Is(p, n, d) <=> a * d = n * b
  BY <1>1 DEF Is
<1> HIDE DEF a, b
<1>3. k * (a * d) = k * (n * b)
  BY <1>1
<1>4. a * d \in Int /\ n * b \in Int /\ k \in Int \ {0}
  BY <1>1
<1>5. a * d = n * b
  BY <1>3, <1>4, Cancel
<1> QED
  BY <1>2, <1>5

LEMMA SumOverOne ==
  ASSUME NEW p, NEW q, NEW n, NEW m, NEW t, Is(p, n, t), Is(q, m, t)
  PROVE  Is(Plus(p, q), n + m, t)
<1>1. n \in Int /\ m \in Int /\ t \in Nat \ {0}
  BY DEF Is
<1>2. Is(Plus(p, q), n * t + m * t, t * t)
  BY SumOfValues
<1>3. n * t + m * t = (n + m) * t
  BY <1>1
<1> QED
  BY <1>1, <1>2, <1>3, IsReduced

\* The gain of something that grew from v to u.
LEMMA GainOfGrowth ==
  ASSUME NEW r, InLowestTerms(r), NEW u \in Int, NEW v \in Nat \ {0},
         Plus(Unity, r) = Fraction(u, v)
  PROVE  Is(r, u - v, v)
<1> DEFINE a == r.num  b == r.den
<1>1. a \in Int /\ b \in Nat \ {0} /\ Is(r, a, b)
  BY IsItself DEF InLowestTerms
<1>2. Is(Unity, 1, 1)
  BY UnityInLowestTerms DEF Is, Unity, Whole
<1>3. Is(r, u - v, v) <=> a * v = (u - v) * b
  BY DEF Is
<1> DEFINE s == Plus(Unity, r)
<1> HIDE DEF a, b, s
<1>4. Is(s, 1 * b + a * 1, 1 * b)
  BY <1>1, <1>2, SumOfValues DEF s
<1>5. Is(s, u, v)
  BY IsFraction DEF s
<1> DEFINE e == s.num  f == s.den
<1>6. e \in Int /\ f \in Nat \ {0} /\ e * (1 * b) = (1 * b + a * 1) * f /\ e * v = u * f
  BY <1>4, <1>5 DEF Is, InLowestTerms
<1> HIDE DEF e, f
<1>7. f * (a * v) = f * ((u - v) * b)
  <2>1. f * (a * v) = ((b + a) * f) * v - (b * f) * v
    BY <1>1, <1>6
  <2>2. ((b + a) * f) * v = (e * b) * v
    <3>1. e * b = (b + a) * f
      BY <1>1, <1>6
    <3> QED
      BY <3>1
  <2>3. (e * b) * v = (u * f) * b
    <3>1. (e * b) * v = (e * v) * b
      BY <1>1, <1>6
    <3> QED
      BY <1>6, <3>1
  <2>4. (u * f) * b - (b * f) * v = f * ((u - v) * b)
    BY <1>1, <1>6
  <2> QED
    BY <2>1, <2>2, <2>3, <2>4
<1>8. a * v \in Int /\ (u - v) * b \in Int /\ f \in Int \ {0}
  BY <1>1, <1>6
<1>9. a * v = (u - v) * b
  BY <1>7, <1>8, Cancel
<1> QED
  BY <1>3, <1>9 DEF a, b

\* Weighted with its share of t.
LEMMA WeightedGain ==
  ASSUME NEW r, NEW u \in Int, NEW v \in Nat \ {0}, NEW t \in Nat \ {0}, Is(r, u - v, v)
  PROVE  Is(Times(r, Fraction(v, t)), u - v, t)
<1>1. Is(Fraction(v, t), v, t)
  BY IsFraction
<1>2. Is(Times(r, Fraction(v, t)), (u - v) * v, v * t)
  BY <1>1, ProductOfValues
<1>3. v * t = t * v /\ u - v \in Int
  OBVIOUS
<1> QED
  BY <1>2, <1>3, IsReduced

LEMMA GrowthOfGain ==
  ASSUME NEW g, NEW w, NEW u \in Int, NEW v \in Nat \ {0}, NEW t \in Nat \ {0},
         Is(g, u - v, t), Is(w, v, t)
  PROVE  Plus(Unity, Over(g, w)) = Fraction(u, v)
<1> DEFINE e == w.num  f == w.den
<1>1. e \in Int /\ f \in Nat \ {0} /\ e * t = v * f
  BY DEF Is, InLowestTerms
<1>2. Over(g, w) = Times(g, Fraction(f, e))
  BY DEF Over
<1> HIDE DEF e, f
<1>3. e \in Nat \ {0}
  <2>1. e <= 0 => e * t <= 0
    BY <1>1
  <2>2. v * f > 0
    BY <1>1
  <2> QED
    BY <1>1, <2>1, <2>2
<1>4. Is(Fraction(f, e), t, v)
  <2>1. Is(Fraction(f, e), f, e)
    BY <1>1, <1>3, IsFraction
  <2> DEFINE x == Fraction(f, e)  a == x.num  b == x.den
  <2>2. InLowestTerms(x) /\ a \in Int /\ b \in Nat \ {0} /\ a * e = f * b
    BY <2>1 DEF Is, InLowestTerms
  <2>3. Is(x, t, v) <=> a * v = t * b
    BY <2>2 DEF Is
  <2> HIDE DEF a, b, x
  <2>4. f * (a * v) = f * (t * b)
    <3>1. f * (a * v) = a * (v * f)
      BY <1>1, <2>2
    <3>2. a * (e * t) = (a * e) * t
      BY <1>1, <2>2
    <3>3. (f * b) * t = f * (t * b)
      BY <1>1, <2>2
    <3> QED
      BY <1>1, <2>2, <3>1, <3>2, <3>3
  <2>5. a * v \in Int /\ t * b \in Int /\ f \in Int \ {0}
    BY <1>1, <2>2
  <2>6. a * v = t * b
    BY <2>4, <2>5, Cancel
  <2> QED
    BY <2>3, <2>6 DEF x
<1>5. Is(Over(g, w), u - v, v)
  <2>1. Is(Over(g, w), (u - v) * t, t * v)
    BY <1>2, <1>4, ProductOfValues
  <2>2. t * v = v * t /\ u - v \in Int
    OBVIOUS
  <2> QED
    BY <2>1, <2>2, IsReduced
<1>6. Is(Unity, 1, 1)
  BY UnityInLowestTerms DEF Is, Unity, Whole
<1>7. Is(Plus(Unity, Over(g, w)), u, v)
  <2>1. Is(Plus(Unity, Over(g, w)), 1 * v + (u - v) * 1, 1 * v)
    BY <1>5, <1>6, SumOfValues
  <2>2. 1 * v + (u - v) * 1 = u /\ 1 * v = v
    OBVIOUS
  <2> QED
    BY <2>1, <2>2
<1>8. Is(Fraction(u, v), u, v)
  BY IsFraction
<1>9. u * v = u * v
  OBVIOUS
<1> QED
  BY <1>7, <1>8, <1>9, EqualValues
=============================================================================
