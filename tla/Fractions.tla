------------------------------ MODULE Fractions ------------------------------
(***************************************************************************)
(* Exact rational numbers for the amounts that the program keeps in        *)
(* float64.  A fraction is a record in lowest terms with a positive        *)
(* denominator, so that equal numbers are equal records.  Rounding errors  *)
(* of float64 are abstracted away; rounding to two decimals, which the     *)
(* program does when it fills a table, is the operator Hundredths.         *)
(***************************************************************************)
EXTENDS Integers

Abs(n) == IF n < 0 THEN -n ELSE n

\* gcd[n][m] is the greatest common divisor of m and n.
gcd[n \in Nat] == [m \in Nat |-> IF n = 0 THEN m ELSE gcd[m % n][n]]

\* n / d in lowest terms, for d # 0.
Fraction(n, d) ==
  LET g == gcd[Abs(d)][Abs(n)]
      s == IF d < 0 THEN -1 ELSE 1
  IN  [num |-> (s * n) \div g, den |-> (s * d) \div g]

Whole(n) == [num |-> n, den |-> 1]

Zero  == Whole(0)
Unity == Whole(1)

Plus(p, q)  == Fraction(p.num * q.den + q.num * p.den, p.den * q.den)
Minus(p, q) == Fraction(p.num * q.den - q.num * p.den, p.den * q.den)
\* The factors are reduced crosswise first: TLC's integers have 32 bits.
Times(p, q) ==
  LET a == Fraction(p.num, q.den)
      b == Fraction(q.num, p.den)
  IN  [num |-> a.num * b.num, den |-> a.den * b.den]
Over(p, q)  == Times(p, Fraction(q.den, q.num))

AtMost(p, q) == p.num * q.den <= q.num * p.den

\* fmt.Sprintf("%.2f", p): the number of hundredths nearest to p.
Hundredths(p) == (200 * p.num + p.den) \div (2 * p.den)
=============================================================================
