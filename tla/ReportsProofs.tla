---------------------------- MODULE ReportsProofs ----------------------------
(***************************************************************************)
(* Proofs about Reports, for any books, ledgers, intervals and ranges: the *)
(* intervals that loop for ever, how returns tile the days, that they are  *)
(* the growth of what is held, and what the tables show of them.           *)
(*                                                                         *)
(* A fold over a sequence is a recursive function on the sets of its       *)
(* places.  The first lemmas turn it into one on places, which the rest go *)
(* through by induction.                                                   *)
(***************************************************************************)
EXTENDS Reports, NumberProofs, FiniteSetTheorems, TLAPS

\* Max of a set that has a greatest number.
LEMMA MaxIsGreatest ==
  ASSUME NEW s \in SUBSET Int, NEW x \in s, \A y \in s : y <= x
  PROVE  Max(s) = x
<1> DEFINE m == CHOOSE z \in s : \A y \in s : z >= y
<1>1. \E z \in s : \A y \in s : z >= y
  OBVIOUS
<1>2. m \in s /\ \A y \in s : m >= y
  BY <1>1
<1>3. Max(s) = m
  BY DEF Max
<1> HIDE DEF m
<1>4. m \in Int /\ x \in Int /\ m >= x /\ x >= m
  BY <1>2
<1> QED
  BY <1>3, <1>4

\* A nonempty set of positive numbers up to n has a greatest one.
LEMMA MaxExists ==
  ASSUME NEW n \in Nat, NEW s \in SUBSET (1 .. n), s # {}
  PROVE  Max(s) \in s /\ \A y \in s : y <= Max(s)
<1> DEFINE T == {k \in Nat : n - k \in s}
<1>1. PICK x : x \in s
  OBVIOUS
<1>2. x \in 1 .. n /\ n - x \in Nat /\ n - (n - x) = x
  BY <1>1
<1>3. n - x \in T
  BY <1>1, <1>2
<1>4. PICK k \in T : \A j \in T : k <= j
  BY <1>3, LeastNatural
<1>5. ASSUME NEW y \in s PROVE y <= n - k
  <2>1. y \in 1 .. n /\ n - y \in Nat /\ n - (n - y) = y
    OBVIOUS
  <2>2. n - y \in T
    BY <2>1
  <2> QED
    BY <1>4, <2>1, <2>2
<1>6. Max(s) = n - k
  BY <1>5, MaxIsGreatest
<1> QED
  BY <1>5, <1>6

\* What is left of a set of numbers up to n without its greatest.
LEMMA Shrinks ==
  ASSUME NEW n \in Nat, NEW s \in SUBSET (1 .. n + 1), s # {}
  PROVE  s \ {Max(s)} \in SUBSET (1 .. n)
<1>1. Max(s) \in s /\ \A y \in s : y <= Max(s)
  <2> DEFINE m == n + 1
  <2>1. m \in Nat /\ s \in SUBSET (1 .. m)
    OBVIOUS
  <2> HIDE DEF m
  <2> QED
    BY <2>1, MaxExists
<1>2. ASSUME NEW y \in s \ {Max(s)} PROVE y \in 1 .. n
  <2>1. y \in 1 .. n + 1 /\ Max(s) \in 1 .. n + 1 /\ y <= Max(s) /\ y # Max(s)
    BY <1>1
  <2> QED
    BY <2>1
<1> QED
  BY <1>2

\* Of the numbers up to n the greatest is n.
LEMMA PrefixMax ==
  ASSUME NEW n \in Nat \ {0}
  PROVE  Max(1 .. n) = n /\ (1 .. n) \ {n} = 1 .. n - 1
<1>1. n \in 1 .. n /\ 1 .. n \in SUBSET Int /\ \A y \in 1 .. n : y <= n
  OBVIOUS
<1>2. Max(1 .. n) = n
  BY <1>1, MaxIsGreatest
<1> QED
  BY <1>2

-----------------------------------------------------------------------------
(***************************************************************************)
(* Folds.  FoldLeft recurs over the sets of places of a sequence, taking   *)
(* out the greatest; that a function with such an equation exists takes an *)
(* induction.  next[i] is what the element at place i does.                *)
(***************************************************************************)
IsFold(iter, n, c, next) ==
  iter = [s \in SUBSET (1 .. n) |-> IF s = {} THEN c ELSE next[Max(s)][iter[s \ {Max(s)}]]]

LEMMA FoldExists ==
  ASSUME NEW S, NEW c \in S, NEW n \in Nat, NEW next \in [1 .. n -> [S -> S]]
  PROVE  \E iter \in [SUBSET (1 .. n) -> S] : IsFold(iter, n, c, next)
<1> DEFINE Folds(k) == \E iter \in [SUBSET (1 .. k) -> S] : IsFold(iter, k, c, next)
           T == {k \in Nat : k <= n => Folds(k)}
<1>1. Folds(0)
  <2> DEFINE f == [s \in SUBSET (1 .. 0) |-> c]
  <2>1. \A s \in SUBSET (1 .. 0) : s = {}
    OBVIOUS
  <2>2. f \in [SUBSET (1 .. 0) -> S]
    OBVIOUS
  <2>3. IsFold(f, 0, c, next)
    BY <2>1 DEF IsFold
  <2> QED
    BY <2>2, <2>3
<1>2. ASSUME NEW k \in Nat, k + 1 <= n, Folds(k) PROVE Folds(k + 1)
  <2>1. PICK f \in [SUBSET (1 .. k) -> S] : IsFold(f, k, c, next)
    BY <1>2
  <2> DEFINE step(h, s) == IF s = {} THEN c ELSE next[Max(s)][h[s \ {Max(s)}]]
             g == [s \in SUBSET (1 .. k + 1) |-> step(f, s)]
  <2>2. f = [s \in SUBSET (1 .. k) |-> step(f, s)]
    BY <2>1 DEF IsFold
  <2>3. ASSUME NEW s \in SUBSET (1 .. k + 1)
        PROVE  step(f, s) = step(g, s) /\ step(f, s) \in S
    <3>1. CASE s = {}
      BY <3>1
    <3>2. CASE s # {}
      <4> DEFINE t == s \ {Max(s)}
      <4>1. t \in SUBSET (1 .. k)
        BY <3>2, Shrinks
      <4>2. t \in SUBSET (1 .. k + 1)
        BY <4>1
      <4>3. f[t] = step(f, t)
        <5> HIDE DEF step, t
        <5> QED BY <2>2, <4>1
      <4>4. g[t] = step(f, t)
        <5> HIDE DEF step, t
        <5> QED BY <4>2
      <4>5. f[t] = g[t] /\ f[t] \in S
        BY <2>1, <4>1, <4>3, <4>4
      <4>6. Max(s) \in 1 .. n
        <5> DEFINE m == k + 1
        <5>1. m \in Nat /\ s \in SUBSET (1 .. m)
          OBVIOUS
        <5> HIDE DEF m
        <5>2. Max(s) \in s
          BY <3>2, <5>1, MaxExists
        <5>3. \A y \in 1 .. m : y \in 1 .. n
          BY <1>2 DEF m
        <5> QED
          BY <5>1, <5>2, <5>3
      <4>7. next[Max(s)] \in [S -> S]
        BY <4>6
      <4>8. next[Max(s)][f[t]] \in S
        BY <4>5, <4>7
      <4> HIDE DEF g
      <4>9. step(f, s) = next[Max(s)][f[t]] /\ step(g, s) = next[Max(s)][g[t]]
        BY <3>2
      <4> HIDE DEF step, t
      <4> QED
        BY <4>5, <4>8, <4>9
    <3> QED
      BY <3>1, <3>2
  <2>4. g = [s \in SUBSET (1 .. k + 1) |-> step(g, s)]
    <3> HIDE DEF step
    <3> QED BY <2>3
  <2>5. IsFold(g, k + 1, c, next)
    <3> HIDE DEF g
    <3> QED BY <2>4 DEF IsFold
  <2>6. g \in [SUBSET (1 .. k + 1) -> S]
    <3> HIDE DEF step
    <3> QED BY <2>3
  <2> HIDE DEF g
  <2> QED
    BY <2>5, <2>6
<1> HIDE DEF Folds
<1>3. \A k \in Nat : k \in T
  <2>1. 0 \in T /\ \A k \in Nat : k \in T => k + 1 \in T
    BY <1>1, <1>2
  <2> HIDE DEF T
  <2> QED
    BY <2>1, NatSetInduction
<1>4. Folds(n)
  BY <1>3
<1> QED
  BY <1>4 DEF Folds

-----------------------------------------------------------------------------
(***************************************************************************)
(* The number a row of digits stands for.                                  *)
(***************************************************************************)
IsFolded(iter, digits, n) ==
  iter = [s \in SUBSET (1 .. n) |->
           IF s = {} THEN 0 ELSE 10 * iter[s \ {Max(s)}] + digits[Max(s)]]

LEMMA NumberFolds ==
  ASSUME NEW digits, NEW n, DOMAIN digits = 1 .. n
  PROVE  Number(digits) = (CHOOSE iter : IsFolded(iter, digits, n))[1 .. n]
BY DEF Number, FoldLeft, MapThenFoldSet, IsFolded

LEMMA FoldedExists ==
  ASSUME NEW n \in Nat, NEW digits \in [1 .. n -> Nat]
  PROVE  \E iter : IsFolded(iter, digits, n)
<1> DEFINE next == [i \in 1 .. n |-> [x \in Nat |-> 10 * x + digits[i]]]
<1>1. 0 \in Nat /\ next \in [1 .. n -> [Nat -> Nat]]
  OBVIOUS
<1>2. \A i \in 1 .. n : \A x \in Nat : next[i][x] = 10 * x + digits[i]
  OBVIOUS
<1> HIDE DEF next
<1>3. PICK iter \in [SUBSET (1 .. n) -> Nat] : IsFold(iter, n, 0, next)
  BY <1>1, FoldExists
<1>4. \A s \in SUBSET (1 .. n) :
        s # {} => next[Max(s)][iter[s \ {Max(s)}]] = 10 * iter[s \ {Max(s)}] + digits[Max(s)]
  <2> SUFFICES ASSUME NEW s \in SUBSET (1 .. n), s # {}
               PROVE  next[Max(s)][iter[s \ {Max(s)}]] = 10 * iter[s \ {Max(s)}] + digits[Max(s)]
    OBVIOUS
  <2>1. Max(s) \in s
    BY MaxExists
  <2>2. Max(s) \in 1 .. n /\ iter[s \ {Max(s)}] \in Nat
    BY <1>3, <2>1
  <2> QED
    BY <1>2, <2>2
<1>5. iter = [s \in SUBSET (1 .. n) |->
               IF s = {} THEN 0 ELSE 10 * iter[s \ {Max(s)}] + digits[Max(s)]]
  BY <1>3, <1>4 DEF IsFold
<1> QED
  BY <1>5 DEF IsFolded

\* A digit more multiplies by ten.
LEMMA NumberByDigit ==
  ASSUME NEW digits \in Seq(0 .. 9)
  PROVE  \E value \in [0 .. Len(digits) -> Nat] :
           /\ value[0] = 0
           /\ \A k \in DOMAIN digits : value[k] = 10 * value[k - 1] + digits[k]
           /\ Number(digits) = value[Len(digits)]
<1> DEFINE n == Len(digits)
           iter == CHOOSE i : IsFolded(i, digits, n)
           value == [k \in 0 .. n |-> iter[1 .. k]]
<1>1. n \in Nat /\ DOMAIN digits = 1 .. n
  OBVIOUS
<1> HIDE DEF n
<1>2. IsFolded(iter, digits, n)
  <2>1. digits \in [1 .. n -> Nat]
    BY <1>1
  <2> QED
    BY <1>1, <2>1, FoldedExists
<1>3. Number(digits) = iter[1 .. n]
  BY <1>1, NumberFolds
<1> HIDE DEF iter
<1>4. value[0] = 0
  <2>1. 1 .. 0 = {} /\ {} \in SUBSET (1 .. n) /\ 0 \in 0 .. n
    BY <1>1
  <2>2. iter[{}] = 0
    BY <1>2, <2>1 DEF IsFolded
  <2> QED
    BY <2>1, <2>2
<1>5. ASSUME NEW k \in 1 .. n PROVE value[k] = 10 * value[k - 1] + digits[k]
  <2>1. /\ k \in Nat \ {0} /\ k \in 0 .. n /\ k - 1 \in 0 .. n
        /\ 1 .. k \in SUBSET (1 .. n) /\ 1 .. k # {}
    <3>1. k \in Nat /\ 1 <= k /\ k <= n
      BY <1>1
    <3>2. k \in 1 .. k /\ \A j \in 1 .. k : j \in 1 .. n
      BY <1>1, <3>1
    <3>3. 1 .. k # {}
      BY <3>2
    <3>4. 1 .. k \in SUBSET (1 .. n)
      BY <3>2
    <3>5. k \in Nat \ {0} /\ k \in 0 .. n /\ k - 1 \in 0 .. n
      BY <1>1, <3>1
    <3> QED
      BY <3>3, <3>4, <3>5
  <2>2. Max(1 .. k) = k /\ (1 .. k) \ {k} = 1 .. k - 1
    BY <2>1, PrefixMax
  <2> DEFINE s == 1 .. k
  <2>3. iter[s] = 10 * iter[s \ {Max(s)}] + digits[Max(s)]
    <3>1. s \in SUBSET (1 .. n) /\ s # {}
      BY <2>1
    <3> HIDE DEF s
    <3> QED
      BY <1>2, <3>1 DEF IsFolded
  <2>4. iter[1 .. k] = 10 * iter[1 .. k - 1] + digits[k]
    BY <2>2, <2>3
  <2> QED
    BY <2>1, <2>4
<1> DEFINE S == {k \in Nat : k <= n => value[k] \in Nat}
<1>6. 0 \in S
  BY <1>4
<1> HIDE DEF value
<1>7. ASSUME NEW k \in Nat, k \in S PROVE k + 1 \in S
  <2> SUFFICES ASSUME k + 1 <= n PROVE value[k + 1] \in Nat
    OBVIOUS
  <2>1. value[k] \in Nat /\ k + 1 \in 1 .. n /\ (k + 1) - 1 = k
    BY <1>1, <1>7
  <2>2. value[k + 1] = 10 * value[k] + digits[k + 1]
    BY <1>5, <2>1
  <2>3. digits[k + 1] \in Nat
    BY <1>1, <2>1
  <2> QED
    BY <2>1, <2>2, <2>3
<1>8. \A k \in Nat : k \in S
  <2> HIDE DEF S
  <2> QED
    BY <1>6, <1>7, NatSetInduction
<1>9. \A k \in 0 .. n : value[k] \in Nat
  BY <1>1, <1>8
<1>10. value \in [0 .. n -> Nat] /\ Number(digits) = value[n]
  BY <1>1, <1>3, <1>9 DEF value
<1> QED
  BY <1>1, <1>4, <1>5, <1>10 DEF n

\* A row of digits is a number, and zero only if every digit is.
LEMMA NumberIsPositive ==
  ASSUME NEW digits \in Seq(0 .. 9)
  PROVE  /\ Number(digits) \in Nat
         /\ \A i \in DOMAIN digits : digits[i] > 0 => Number(digits) > 0
<1> DEFINE n == Len(digits)
<1>1. n \in Nat /\ DOMAIN digits = 1 .. n /\ \A i \in 1 .. n : digits[i] \in Nat
  OBVIOUS
<1>2. PICK value \in [0 .. n -> Nat] :
        /\ \A k \in 1 .. n : value[k] = 10 * value[k - 1] + digits[k]
        /\ Number(digits) = value[n]
  BY <1>1, NumberByDigit
<1> HIDE DEF n
<1>3. ASSUME NEW i \in 1 .. n, digits[i] > 0 PROVE value[n] > 0
  <2> DEFINE S == {k \in Int : k \in i .. n => value[k] > 0}
  <2>1. i \in S
    <3>1. i \in 0 .. n /\ i - 1 \in 0 .. n /\ value[i - 1] \in Nat
      BY <1>1, <1>2
    <3> QED
      BY <1>1, <1>2, <1>3, <3>1
  <2>2. ASSUME NEW d \in i + 1 .. n, d - 1 \in S PROVE d \in S
    <3>1. d \in 1 .. n /\ d - 1 \in i .. n /\ d - 1 \in 0 .. n
      BY <1>1
    <3>2. value[d - 1] > 0 /\ value[d - 1] \in Nat
      BY <1>2, <2>2, <3>1
    <3> QED
      BY <1>1, <1>2, <3>1, <3>2
  <2>4. \A d \in i + 1 .. n : d \in S
    <3> DEFINE from == i + 1
    <3>1. from - 1 \in S /\ from \in Int /\ n \in Int
      BY <1>1, <2>1
    <3>2. \A d \in from .. n : d - 1 \in S => d \in S
      BY <2>2
    <3> HIDE DEF S, from
    <3>3. \A d \in from .. n : d \in S
      BY <3>1, <3>2, DayInduction
    <3> QED
      BY <3>3 DEF from
  <2>5. n = i \/ n \in i + 1 .. n
    BY <1>1
  <2>6. n \in S /\ n \in i .. n
    BY <1>1, <2>1, <2>4, <2>5
  <2> QED
    BY <2>6
<1>4. value[n] \in Nat
  BY <1>1, <1>2
<1> QED
  BY <1>1, <1>2, <1>3, <1>4

-----------------------------------------------------------------------------
(***************************************************************************)
(* Endless requests.                                                       *)
(***************************************************************************)
\* An interval that keeps its digits is of some days, unless all of them are zero.
LEMMA WellFormedIsPositive ==
  ASSUME query \in Queries, ~LosesDigit(query.interval), ~OfNoDays(query.interval)
  PROVE  Interval > 0
<1> DEFINE weeks == query.interval.weeks
           days  == query.interval.days
<1>1. weeks \in Seq(0 .. 9) /\ days \in Seq(0 .. 9)
  BY QueriesAssumption DEF IntervalText
<1>2. query.interval.colon \/ days = <<>>
  BY DEF LosesDigit
<1>3. \E part \in {weeks, days} : \E i \in DOMAIN part : part[i] # 0
  BY DEF OfNoDays
<1>4. Interval = 7 * Number(weeks) + Number(days)
  BY <1>2 DEF Interval, ParseTimeInterval
<1> HIDE DEF weeks, days
<1>5. \/ \E j \in DOMAIN weeks : weeks[j] > 0
      \/ \E j \in DOMAIN days : days[j] > 0
  <2>1. PICK part \in {weeks, days} : \E i \in DOMAIN part : part[i] # 0
    BY <1>3
  <2>2. PICK i \in DOMAIN part : part[i] # 0
    BY <2>1
  <2>3. part \in Seq(0 .. 9)
    BY <1>1, <2>1
  <2>4. part[i] \in 0 .. 9
    BY <2>2, <2>3
  <2>5. part[i] > 0
    BY <2>2, <2>4
  <2> QED
    BY <2>1, <2>5
<1>6. /\ Number(weeks) \in Nat /\ Number(days) \in Nat
      /\ Number(weeks) > 0 \/ Number(days) > 0
  BY <1>1, <1>5, NumberIsPositive
<1> QED
  BY <1>4, <1>6

LEMMA IntervalIsNatural ==
  ASSUME query \in Queries
  PROVE  Interval \in Nat
<1> DEFINE text == query.interval
           days == IF text.colon \/ text.days = <<>> THEN text.days ELSE Tail(text.days)
<1>1. text.weeks \in Seq(0 .. 9) /\ text.days \in Seq(0 .. 9)
  BY QueriesAssumption DEF IntervalText
<1>2. days \in Seq(0 .. 9)
  BY <1>1
<1>3. Interval = 7 * Number(text.weeks) + Number(days)
  BY DEF Interval, ParseTimeInterval
<1> HIDE DEF days
<1>4. Number(text.weeks) \in Nat /\ Number(days) \in Nat
  BY <1>1, <1>2, NumberIsPositive
<1> QED
  BY <1>3, <1>4

RequestInv == query \in Queries /\ (stage = "looping" => Endless)

(***************************************************************************)
(* A request goes round for ever only for an interval whose days lack      *)
(* their colon, or that is all zeros, or of more days than a duration      *)
(* holds: for all queries, of any number of digits, and all books.         *)
(***************************************************************************)
THEOREM EndlessNeedsBadInterval == Spec => []WellFormedRequestsEnd
<1>1. Init => RequestInv
  BY DEF Init, RequestInv
<1>2. RequestInv /\ [Next]_vars => RequestInv'
  <2> SUFFICES ASSUME RequestInv, [Next]_vars PROVE RequestInv'
    OBVIOUS
  <2>1. query' = query /\ (Endless' <=> Endless)
    BY DEF Next, vars, ReadAccounts, LoopForever, GetReport, RangeRefused, GenerateDataframes,
           GenerateFile, Ended, Endless, Backward, Interval
  <2>2. stage' = "looping" => Endless
    BY DEF RequestInv, Next, vars, ReadAccounts, LoopForever, GetReport, RangeRefused,
           GenerateDataframes, GenerateFile, Ended
  <2> QED
    BY <2>1, <2>2 DEF RequestInv
<1>3. RequestInv => WellFormedRequestsEnd
  BY WellFormedIsPositive DEF RequestInv, WellFormedRequestsEnd, Endless
<1> QED
  BY <1>1, <1>2, <1>3, PTL DEF Spec

-----------------------------------------------------------------------------
(***************************************************************************)
(* The intervals of a return.  The fold over the daily returns, as above.  *)
(***************************************************************************)
IsCollapsed(iter, daily, interval, n) ==
  iter = [s \in SUBSET (1 .. n) |->
           IF s = {} THEN FirstInterval(daily[1], interval)
           ELSE AddReturn(iter[s \ {Max(s)}], daily[Max(s)], interval)]

LEMMA ReturnsCollapse ==
  ASSUME NEW daily, NEW interval, NEW n, DOMAIN daily = 1 .. n, daily # <<>>
  PROVE  CollapseReturnsByInterval(daily, interval)
           = CloseInterval((CHOOSE iter : IsCollapsed(iter, daily, interval, n))[1 .. n])
BY DEF CollapseReturnsByInterval, FoldLeft, MapThenFoldSet, IsCollapsed

LEMMA CollapsedExists ==
  ASSUME NEW daily, NEW interval
  PROVE  \A n \in Nat : \E iter : IsCollapsed(iter, daily, interval, n)
<1> DEFINE S == {n \in Nat : \E iter : IsCollapsed(iter, daily, interval, n)}
           base == FirstInterval(daily[1], interval)
           op(a, i) == AddReturn(a, daily[i], interval)
<1>1. 0 \in S
  <2> DEFINE f == [s \in SUBSET (1 .. 0) |-> base]
  <2>1. \A s \in SUBSET (1 .. 0) : s = {}
    OBVIOUS
  <2>2. IsCollapsed(f, daily, interval, 0)
    BY <2>1 DEF IsCollapsed
  <2> QED
    BY <2>2
<1>2. ASSUME NEW n \in Nat, n \in S PROVE n + 1 \in S
  <2>1. PICK f : IsCollapsed(f, daily, interval, n)
    BY <1>2
  <2> DEFINE step(h, s) == IF s = {} THEN base ELSE op(h[s \ {Max(s)}], Max(s))
             g == [s \in SUBSET (1 .. n + 1) |-> step(f, s)]
  <2>2. f = [s \in SUBSET (1 .. n) |-> step(f, s)]
    BY <2>1 DEF IsCollapsed
  <2>3. ASSUME NEW s \in SUBSET (1 .. n + 1) PROVE step(f, s) = step(g, s)
    <3>1. CASE s = {}
      BY <3>1
    <3>2. CASE s # {}
      <4>1. s \ {Max(s)} \in SUBSET (1 .. n)
        BY <3>2, Shrinks
      <4>2. s \ {Max(s)} \in SUBSET (1 .. n + 1)
        BY <4>1
      <4> DEFINE t == s \ {Max(s)}
      <4>3. f[t] = step(f, t)
        <5> HIDE DEF step, t
        <5> QED BY <2>2, <4>1 DEF t
      <4>4. g[t] = step(f, t)
        <5> HIDE DEF step
        <5> QED BY <4>2
      <4>5. f[t] = g[t]
        BY <4>3, <4>4
      <4> HIDE DEF op, g, base
      <4> QED
        BY <3>2, <4>5
    <3> QED
      BY <3>1, <3>2
  <2>4. g = [s \in SUBSET (1 .. n + 1) |-> step(g, s)]
    <3> HIDE DEF step
    <3> QED BY <2>3
  <2>5. IsCollapsed(g, daily, interval, n + 1)
    <3> HIDE DEF g
    <3> QED BY <2>4 DEF IsCollapsed
  <2> QED
    BY <2>5
<1>3. \A n \in Nat : n \in S
  <2> HIDE DEF S
  <2> QED
    BY <1>1, <1>2, NatSetInduction
<1> QED
  BY <1>3

\* One return for each day from the first on.
Daily(daily, first, n) ==
  /\ DOMAIN daily = 1 .. n
  /\ \A i \in 1 .. n : daily[i].from = first + i - 1

\* What is collapsed up to a day in the open interval: closed intervals that
\* tile the days from the first on.
TilesTo(acc, first, day, interval) ==
  /\ acc = [closed |-> acc.closed, from |-> acc.from, to |-> acc.to, compound |-> acc.compound]
  /\ acc.from \in Int /\ acc.to = acc.from + interval
  /\ day \in acc.from .. acc.to - 1
  /\ \E T : acc.closed \in Seq(T)
  /\ \A j \in 1 .. Len(acc.closed) : acc.closed[j].to = acc.closed[j].from + interval
  /\ \A j \in 2 .. Len(acc.closed) : acc.closed[j].from = acc.closed[j - 1].to
  /\ IF Len(acc.closed) = 0 THEN acc.from = first
     ELSE /\ acc.closed[1].from = first
          /\ acc.closed[Len(acc.closed)].to = acc.from

\* Closing the open interval adds a tile.
LEMMA CloseTiles ==
  ASSUME NEW acc, NEW first \in Int, NEW day \in Int, NEW interval \in Nat \ {0},
         TilesTo(acc, first, day, interval)
  PROVE  /\ CloseInterval(acc) # <<>>
         /\ \E T : CloseInterval(acc) \in Seq(T)
         /\ Len(CloseInterval(acc)) = Len(acc.closed) + 1
         /\ Len(acc.closed) \in Nat
         /\ CloseInterval(acc)[Len(acc.closed) + 1].to = acc.to
         /\ Tile(CloseInterval(acc), first, day, interval)
<1> DEFINE m == Len(acc.closed)
           rs == CloseInterval(acc)
           r  == [from |-> acc.from, to |-> acc.to, rate |-> Minus(acc.compound, Unity)]
<1>1. PICK T : acc.closed \in Seq(T)
  BY DEF TilesTo
<1>2. rs = Append(acc.closed, r)
  BY DEF CloseInterval
<1>3. r.from = acc.from /\ r.to = acc.to
  OBVIOUS
<1> HIDE DEF r
<1>4. acc.closed \in Seq(T \cup {r}) /\ r \in T \cup {r}
  BY <1>1
<1>5. /\ m \in Nat /\ Len(rs) = m + 1 /\ DOMAIN rs = 1 .. m + 1
      /\ rs \in Seq(T \cup {r})
      /\ rs[m + 1] = r /\ \A j \in 1 .. m : rs[j] = acc.closed[j]
  BY <1>2, <1>4
<1> HIDE DEF rs, m
<1>6. rs[1].from = first
  <2>1. CASE m = 0
    BY <1>3, <1>5, <2>1 DEF TilesTo, m
  <2>2. CASE m # 0
    BY <1>5, <2>2 DEF TilesTo, m
  <2> QED
    BY <2>1, <2>2
<1>7. ASSUME NEW j \in 1 .. m + 1 PROVE rs[j].to = rs[j].from + interval
  <2>1. CASE j = m + 1
    BY <1>3, <1>5, <2>1 DEF TilesTo
  <2>2. CASE j # m + 1
    <3>1. j \in 1 .. m
      BY <1>5, <2>2
    <3> QED
      BY <1>5, <3>1 DEF TilesTo, m
  <2> QED
    BY <2>1, <2>2
<1>8. ASSUME NEW j \in 2 .. m + 1 PROVE rs[j].from = rs[j - 1].to
  <2>0. j - 1 \in 1 .. m /\ rs[j - 1] = acc.closed[j - 1]
    BY <1>5
  <2>1. CASE j = m + 1
    <3>1. m # 0 /\ rs[j] = r /\ j - 1 = m
      BY <1>5, <2>1
    <3> QED
      BY <1>3, <2>0, <3>1 DEF TilesTo, m
  <2>2. CASE j # m + 1
    <3>1. j \in 2 .. m /\ rs[j] = acc.closed[j]
      BY <1>5, <2>2
    <3> QED
      BY <2>0, <3>1 DEF TilesTo, m
  <2> QED
    BY <2>1, <2>2
<1>9. Last(rs) = r
  BY <1>5 DEF Last
<1>10. Tile(rs, first, day, interval)
  BY <1>3, <1>5, <1>6, <1>7, <1>8, <1>9 DEF Tile, TilesTo
<1>11. rs # <<>>
  BY <1>5
<1> QED
  BY <1>3, <1>5, <1>10, <1>11 DEF m, rs

\* The next day extends the open interval or opens the one that follows it.
LEMMA AddTiles ==
  ASSUME NEW acc, NEW first \in Int, NEW day \in Int, NEW interval \in Nat \ {0},
         TilesTo(acc, first, day, interval), NEW r, r.from = day + 1
  PROVE  TilesTo(AddReturn(acc, r, interval), first, day + 1, interval)
<1>1. CASE Within(r, acc.to)
  <2> DEFINE new == [acc EXCEPT !.compound = Compound(@, r)]
  <2>1. /\ new = [closed |-> acc.closed, from |-> acc.from, to |-> acc.to,
                  compound |-> Compound(acc.compound, r)]
    BY DEF TilesTo
  <2>2. day + 1 \in acc.from .. acc.to - 1
    BY <1>1 DEF TilesTo, Within
  <2> HIDE DEF new
  <2>3. /\ new.closed = acc.closed /\ new.from = acc.from /\ new.to = acc.to
        /\ new = [closed |-> new.closed, from |-> new.from, to |-> new.to,
                  compound |-> new.compound]
    BY <2>1
  <2>4. TilesTo(new, first, day + 1, interval)
    BY <2>2, <2>3 DEF TilesTo
  <2> QED
    BY <1>1, <2>4 DEF AddReturn, new
<1>2. CASE ~ Within(r, acc.to)
  <2> DEFINE rs  == CloseInterval(acc)
             new == [closed |-> rs, from |-> acc.to, to |-> acc.to + interval,
                     compound |-> Compound(acc.compound, r)]
  <2>1. /\ rs # <<>>
        /\ \E T : rs \in Seq(T)
        /\ Len(rs) = Len(acc.closed) + 1 /\ Len(acc.closed) \in Nat
        /\ rs[Len(acc.closed) + 1].to = acc.to
        /\ Tile(rs, first, day, interval)
    BY CloseTiles
  <2> HIDE DEF rs
  <2>2. /\ new.closed = rs /\ new.from = acc.to /\ new.to = acc.to + interval
        /\ new = [closed |-> new.closed, from |-> new.from, to |-> new.to,
                  compound |-> new.compound]
    OBVIOUS
  <2>3. day + 1 = acc.to /\ acc.to \in Int
    BY <1>2 DEF TilesTo, Within
  <2> HIDE DEF new
  <2>4. PICK T : rs \in Seq(T)
    BY <2>1
  <2>5. DOMAIN rs = 1 .. Len(rs) /\ Len(rs) \in Nat /\ Len(rs) # 0
    BY <2>1, <2>4
  <2>6. day + 1 \in new.from .. new.to - 1 /\ new.from \in Int
    BY <2>2, <2>3
  <2>7. rs[1].from = first /\ rs[Len(rs)].to = new.from
    BY <2>1, <2>2 DEF Tile
  <2>8. /\ \A j \in 1 .. Len(rs) : rs[j].to = rs[j].from + interval
        /\ \A j \in 2 .. Len(rs) : rs[j].from = rs[j - 1].to
    BY <2>1, <2>5 DEF Tile
  <2>9. TilesTo(new, first, day + 1, interval)
    BY <2>2, <2>4, <2>5, <2>6, <2>7, <2>8 DEF TilesTo
  <2> QED
    BY <1>2, <2>9 DEF AddReturn, new, rs
<1> QED
  BY <1>1, <1>2

(***************************************************************************)
(* The fold, day by day: what is collapsed up to each day tiles the days   *)
(* up to it, and in the end the open interval is closed.                   *)
(***************************************************************************)
CollapsesByDay(accs, daily, first, n, interval) ==
  /\ accs[1] = AddReturn(FirstInterval(daily[1], interval), daily[1], interval)
  /\ \A k \in 2 .. n : accs[k] = AddReturn(accs[k - 1], daily[k], interval)
  /\ \A k \in 1 .. n : TilesTo(accs[k], first, first + k - 1, interval)
  /\ CollapseReturnsByInterval(daily, interval) = CloseInterval(accs[n])

LEMMA CollapsedByDay ==
  ASSUME NEW daily, NEW first \in Int, NEW n \in Nat \ {0}, NEW interval \in Nat \ {0},
         Daily(daily, first, n)
  PROVE  \E accs : CollapsesByDay(accs, daily, first, n, interval)
<1> DEFINE iter == CHOOSE i : IsCollapsed(i, daily, interval, n)
           accs == [k \in 0 .. n |-> iter[1 .. k]]
<1>1. DOMAIN daily = 1 .. n /\ daily # <<>> /\ daily[1].from = first
  BY DEF Daily
<1>2. CollapseReturnsByInterval(daily, interval) = CloseInterval(iter[1 .. n])
  BY <1>1, ReturnsCollapse
<1>3. IsCollapsed(iter, daily, interval, n)
  BY CollapsedExists
<1> HIDE DEF iter
<1>4. ASSUME NEW k \in 1 .. n
      PROVE  accs[k] = AddReturn(accs[k - 1], daily[k], interval)
  <2> DEFINE s == 1 .. k
  <2>1. k \in Nat \ {0} /\ k \in s /\ \A j \in s : j \in 1 .. n
    OBVIOUS
  <2>2. Max(s) = k /\ s \ {k} = 1 .. k - 1
    BY <2>1, PrefixMax
  <2> HIDE DEF s
  <2>3. s \in SUBSET (1 .. n) /\ s # {}
    BY <2>1
  <2>4. iter[s] = AddReturn(iter[s \ {Max(s)}], daily[Max(s)], interval)
    BY <1>3, <2>3 DEF IsCollapsed
  <2>5. iter[s] = AddReturn(iter[1 .. k - 1], daily[k], interval)
    BY <2>2, <2>4
  <2>6. k \in 0 .. n /\ k - 1 \in 0 .. n
    OBVIOUS
  <2> QED
    BY <2>5, <2>6 DEF s
<1>5. accs[0] = FirstInterval(daily[1], interval)
  <2>1. 1 .. 0 = {} /\ {} \in SUBSET (1 .. n)
    OBVIOUS
  <2>2. iter[{}] = FirstInterval(daily[1], interval)
    BY <1>3, <2>1 DEF IsCollapsed
  <2> QED
    BY <2>1, <2>2
<1>6. accs[n] = iter[1 .. n]
  OBVIOUS
<1> HIDE DEF accs
<1> DEFINE base == FirstInterval(daily[1], interval)
<1>7. accs[1] = AddReturn(base, daily[1], interval)
  <2>1. 1 \in 1 .. n /\ 1 - 1 = 0
    OBVIOUS
  <2> HIDE DEF base
  <2> QED
    BY <1>4, <1>5, <2>1 DEF base
<1> DEFINE S == {k \in Int : TilesTo(accs[k], first, first + k - 1, interval)}
<1>8. 1 \in S
  <2> DEFINE new == [base EXCEPT !.compound = Compound(@, daily[1])]
  <2>1. base = [closed |-> <<>>, from |-> first, to |-> first + interval, compound |-> Unity]
    BY <1>1 DEF FirstInterval
  <2>4. Within(daily[1], base.to)
    BY <1>1, <2>1 DEF Within
  <2>5. accs[1] = new
    BY <1>7, <2>4 DEF AddReturn
  <2>6. new = [closed |-> <<>>, from |-> first, to |-> first + interval,
               compound |-> Compound(Unity, daily[1])]
    BY <2>1
  <2> HIDE DEF new, base
  <2>7. /\ new.closed = <<>> /\ new.from = first /\ new.to = first + interval
        /\ new = [closed |-> new.closed, from |-> new.from, to |-> new.to,
                  compound |-> new.compound]
    BY <2>6
  <2>8. new.closed \in Seq({}) /\ Len(new.closed) = 0 /\ first \in new.from .. new.to - 1
    BY <2>7
  <2>9. TilesTo(new, first, first, interval)
    BY <2>7, <2>8 DEF TilesTo
  <2> QED
    BY <2>5, <2>9
<1> HIDE DEF base
<1>9. ASSUME NEW d \in 2 .. n, d - 1 \in S PROVE d \in S
  <2>1. d \in 1 .. n /\ d - 1 \in Int /\ daily[d].from = first + d - 1
    BY DEF Daily
  <2> DEFINE acc == accs[d - 1]
             day == first + (d - 1) - 1
  <2>2. day \in Int /\ daily[d].from = day + 1 /\ TilesTo(acc, first, day, interval)
    BY <1>9, <2>1
  <2> HIDE DEF acc, day
  <2>3. TilesTo(AddReturn(acc, daily[d], interval), first, day + 1, interval)
    BY <2>2, AddTiles
  <2>4. accs[d] = AddReturn(acc, daily[d], interval)
    BY <1>4, <2>1 DEF acc
  <2>5. day + 1 = first + d - 1
    BY <2>1, <2>2
  <2> QED
    BY <2>3, <2>4, <2>5
<1>10. \A k \in 1 .. n : k \in S
  <2> DEFINE from == 2
  <2>1. from - 1 \in S /\ from \in Int /\ n \in Int
    BY <1>8
  <2>2. \A d \in from .. n : d - 1 \in S => d \in S
    BY <1>9
  <2> HIDE DEF S, from
  <2>3. \A d \in from .. n : d \in S
    BY <2>1, <2>2, DayInduction
  <2> QED
    BY <1>8, <2>3 DEF from
<1>11. \A k \in 1 .. n : TilesTo(accs[k], first, first + k - 1, interval)
  BY <1>10
<1> HIDE DEF S
<1>12. \A k \in 2 .. n : accs[k] = AddReturn(accs[k - 1], daily[k], interval)
  <2>1. \A k \in 2 .. n : k \in 1 .. n
    OBVIOUS
  <2> QED
    BY <1>4, <2>1
<1>13. CollapseReturnsByInterval(daily, interval) = CloseInterval(accs[n])
  BY <1>2, <1>6
<1>14. CollapsesByDay(accs, daily, first, n, interval)
  BY <1>7, <1>11, <1>12, <1>13 DEF CollapsesByDay, base
<1> QED
  BY <1>14

LEMMA CollapsedTile ==
  ASSUME NEW daily, NEW first \in Int, NEW n \in Nat \ {0}, NEW interval \in Nat \ {0},
         Daily(daily, first, n)
  PROVE  /\ CollapseReturnsByInterval(daily, interval) # <<>>
         /\ \E T : CollapseReturnsByInterval(daily, interval) \in Seq(T)
         /\ Tile(CollapseReturnsByInterval(daily, interval), first, first + n - 1, interval)
<1>1. PICK accs : CollapsesByDay(accs, daily, first, n, interval)
  BY CollapsedByDay
<1> DEFINE last == first + n - 1
<1>2. last \in Int /\ TilesTo(accs[n], first, last, interval)
  BY <1>1 DEF CollapsesByDay
<1> HIDE DEF last
<1>3. /\ CloseInterval(accs[n]) # <<>> /\ Tile(CloseInterval(accs[n]), first, last, interval)
      /\ \E T : CloseInterval(accs[n]) \in Seq(T)
  BY <1>2, CloseTiles
<1> QED
  BY <1>1, <1>3 DEF CollapsesByDay, last

-----------------------------------------------------------------------------
(***************************************************************************)
(* What is collapsed of daily returns that are the growth of a worth W is  *)
(* the growth of W since the first day.                                    *)
(***************************************************************************)
Since(W, first, d) == Minus(Fraction(W[d], W[first]), Unity)

UpTo(d, end) == IF d <= end THEN d ELSE end

\* The growth of W up to the end of a day, and that of the closed intervals.
Grows(acc, W, first, day) ==
  /\ acc.compound = Fraction(W[day + 1], W[first])
  /\ \A j \in 1 .. Len(acc.closed) :
       /\ acc.closed[j].to \in first .. day
       /\ acc.closed[j].rate = Since(W, first, acc.closed[j].to)

LEMMA CloseGrows ==
  ASSUME NEW acc, NEW first \in Int, NEW day \in Int, NEW interval \in Nat \ {0},
         TilesTo(acc, first, day, interval), NEW W, Grows(acc, W, first, day)
  PROVE  \A j \in DOMAIN CloseInterval(acc) :
           \/ /\ CloseInterval(acc)[j].to \in first .. day
              /\ CloseInterval(acc)[j].rate = Since(W, first, CloseInterval(acc)[j].to)
           \/ /\ CloseInterval(acc)[j].to = acc.to
              /\ CloseInterval(acc)[j].rate = Since(W, first, day + 1)
<1> DEFINE m == Len(acc.closed)
           rs == CloseInterval(acc)
           r  == [from |-> acc.from, to |-> acc.to, rate |-> Minus(acc.compound, Unity)]
<1>1. PICK T : acc.closed \in Seq(T)
  BY DEF TilesTo
<1>2. rs = Append(acc.closed, r)
  BY DEF CloseInterval
<1>3. r.to = acc.to /\ r.rate = Since(W, first, day + 1)
  BY DEF Grows, Since
<1> HIDE DEF r
<1>4. acc.closed \in Seq(T \cup {r}) /\ r \in T \cup {r}
  BY <1>1
<1>5. /\ m \in Nat /\ DOMAIN rs = 1 .. m + 1
      /\ rs[m + 1] = r /\ \A j \in 1 .. m : rs[j] = acc.closed[j]
  BY <1>2, <1>4
<1> HIDE DEF rs, m
<1>6. ASSUME NEW j \in 1 .. m + 1
      PROVE  \/ rs[j].to \in first .. day /\ rs[j].rate = Since(W, first, rs[j].to)
             \/ rs[j].to = acc.to /\ rs[j].rate = Since(W, first, day + 1)
  <2>1. CASE j = m + 1
    BY <1>3, <1>5, <2>1
  <2>2. CASE j # m + 1
    <3>1. j \in 1 .. m
      BY <1>5, <2>2
    <3> QED
      BY <1>5, <3>1 DEF Grows, m
  <2> QED
    BY <2>1, <2>2
<1> QED
  BY <1>5, <1>6 DEF rs

LEMMA AddGrows ==
  ASSUME NEW acc, NEW first \in Int, NEW day \in Int, NEW interval \in Nat \ {0}, first <= day,
         TilesTo(acc, first, day, interval), NEW W, Grows(acc, W, first, day),
         NEW r, r.from = day + 1,
         W[first] \in Nat \ {0}, W[day + 1] \in Nat \ {0}, W[day + 2] \in Nat \ {0},
         Plus(Unity, r.rate) = Fraction(W[day + 2], W[day + 1])
  PROVE  Grows(AddReturn(acc, r, interval), W, first, day + 1)
<1>1. Compound(acc.compound, r) = Fraction(W[day + 2], W[first])
  <2>1. Times(Fraction(W[day + 1], W[first]), Fraction(W[day + 2], W[day + 1]))
          = Fraction(W[day + 2], W[first])
    BY GrowthsMultiply
  <2> QED
    BY <2>1 DEF Compound, Grows
<1>2. (day + 1) + 1 = day + 2
  OBVIOUS
<1>3. CASE Within(r, acc.to)
  <2> DEFINE new == [acc EXCEPT !.compound = Compound(@, r)]
  <2>1. new.closed = acc.closed /\ new.compound = Compound(acc.compound, r)
    BY DEF TilesTo
  <2> HIDE DEF new
  <2>2. Grows(new, W, first, day + 1)
    BY <1>1, <1>2, <2>1 DEF Grows
  <2> QED
    BY <1>3, <2>2 DEF AddReturn, new
<1>4. CASE ~ Within(r, acc.to)
  <2> DEFINE rs  == CloseInterval(acc)
             new == [closed |-> rs, from |-> acc.to, to |-> acc.to + interval,
                     compound |-> Compound(acc.compound, r)]
  <2>1. acc.to = day + 1
    BY <1>4 DEF TilesTo, Within
  <2>2. \A j \in DOMAIN rs :
          \/ rs[j].to \in first .. day /\ rs[j].rate = Since(W, first, rs[j].to)
          \/ rs[j].to = acc.to /\ rs[j].rate = Since(W, first, day + 1)
    BY CloseGrows
  <2>3. (\E T : rs \in Seq(T)) /\ Len(rs) = Len(acc.closed) + 1
    BY CloseTiles
  <2> HIDE DEF rs
  <2>4. DOMAIN rs = 1 .. Len(rs)
    BY <2>3
  <2>5. \A j \in 1 .. Len(rs) : /\ rs[j].to \in first .. day + 1
                               /\ rs[j].rate = Since(W, first, rs[j].to)
    BY <2>1, <2>2, <2>4
  <2>6. new.closed = rs /\ new.compound = Compound(acc.compound, r)
    OBVIOUS
  <2> HIDE DEF new
  <2>7. Grows(new, W, first, day + 1)
    BY <1>1, <1>2, <2>5, <2>6 DEF Grows
  <2> QED
    BY <1>4, <2>7 DEF AddReturn, new, rs
<1> QED
  BY <1>3, <1>4

\* W is a worth on every day, and the daily returns are its growth.
GrowsDaily(daily, first, n, W) ==
  /\ W \in [first .. first + n -> Nat \ {0}]
  /\ \A k \in 1 .. n :
       Plus(Unity, daily[k].rate) = Fraction(W[first + k], W[first + k - 1])

LEMMA CollapsedGrow ==
  ASSUME NEW daily, NEW first \in Int, NEW n \in Nat \ {0}, NEW interval \in Nat \ {0},
         Daily(daily, first, n), NEW W, GrowsDaily(daily, first, n, W),
         NEW j \in DOMAIN CollapseReturnsByInterval(daily, interval)
  PROVE  LET r == CollapseReturnsByInterval(daily, interval)[j] IN
         /\ r.to \in Int /\ first <= r.to
         /\ r.rate = Since(W, first, UpTo(r.to, first + n))
<1>1. PICK accs : CollapsesByDay(accs, daily, first, n, interval)
  BY CollapsedByDay
<1>2. \A k \in 1 .. n : TilesTo(accs[k], first, first + k - 1, interval)
  BY <1>1 DEF CollapsesByDay
<1>3. \A d \in first .. first + n : W[d] \in Nat \ {0}
  BY DEF GrowsDaily
<1> DEFINE S == {k \in Int : Grows(accs[k], W, first, first + k - 1)}
<1>4. 1 \in S
  <2> DEFINE base == FirstInterval(daily[1], interval)
             new  == [base EXCEPT !.compound = Compound(@, daily[1])]
  <2>1. /\ daily[1].from = first /\ first \in first .. first + n /\ first + 1 \in first .. first + n
        /\ 1 \in 1 .. n
    BY DEF Daily
  <2>2. base = [closed |-> <<>>, from |-> first, to |-> first + interval, compound |-> Unity]
    BY <2>1 DEF FirstInterval
  <2>3. Within(daily[1], base.to)
    BY <2>1, <2>2 DEF Within
  <2>4. accs[1] = new
    BY <1>1, <2>3 DEF CollapsesByDay, AddReturn
  <2>5. new = [closed |-> <<>>, from |-> first, to |-> first + interval,
               compound |-> Compound(Unity, daily[1])]
    BY <2>2
  <2> HIDE DEF new, base
  <2>6. Compound(Unity, daily[1]) = Fraction(W[first + 1], W[first])
    <3>1. Plus(Unity, daily[1].rate) = Fraction(W[first + 1], W[first])
      <4>1. first + 1 - 1 = first
        OBVIOUS
      <4> QED
        BY <2>1, <4>1 DEF GrowsDaily
    <3>2. W[first] \in Nat \ {0} /\ W[first + 1] \in Nat \ {0}
      BY <1>3, <2>1
    <3>3. Fraction(W[first], W[first]) = Unity
      BY <3>2, FractionOfEquals
    <3>4. Times(Fraction(W[first], W[first]), Fraction(W[first + 1], W[first]))
            = Fraction(W[first + 1], W[first])
      BY <3>2, GrowthsMultiply
    <3> QED
      BY <3>1, <3>3, <3>4 DEF Compound
  <2>7. new.closed = <<>> /\ Len(new.closed) = 0 /\ new.compound = Compound(Unity, daily[1])
    BY <2>5
  <2>8. Grows(new, W, first, first)
    BY <2>6, <2>7 DEF Grows
  <2> QED
    BY <2>4, <2>8
<1>5. ASSUME NEW d \in 2 .. n, d - 1 \in S PROVE d \in S
  <2> DEFINE acc == accs[d - 1]
             day == first + (d - 1) - 1
  <2>1. d \in 1 .. n /\ d - 1 \in 1 .. n /\ daily[d].from = first + d - 1
    BY DEF Daily
  <2>2. /\ day \in Int /\ first <= day /\ daily[d].from = day + 1
        /\ TilesTo(acc, first, day, interval) /\ Grows(acc, W, first, day)
    BY <1>2, <1>5, <2>1
  <2>3. first + d = day + 2 /\ first + d - 1 = day + 1
    OBVIOUS
  <2>4. Plus(Unity, daily[d].rate) = Fraction(W[day + 2], W[day + 1])
    <3>1. Plus(Unity, daily[d].rate) = Fraction(W[first + d], W[first + d - 1])
      BY <2>1 DEF GrowsDaily
    <3> HIDE DEF day
    <3> QED
      BY <2>3, <3>1
  <2>5. /\ W[first] \in Nat \ {0} /\ W[day + 1] \in Nat \ {0} /\ W[day + 2] \in Nat \ {0}
    <3>1. first \in first .. first + n /\ day + 1 \in first .. first + n
          /\ day + 2 \in first .. first + n
      BY <2>1
    <3> HIDE DEF day
    <3> QED
      BY <1>3, <3>1
  <2> HIDE DEF acc, day
  <2>6. Grows(AddReturn(acc, daily[d], interval), W, first, day + 1)
    BY <2>2, <2>4, <2>5, AddGrows
  <2>7. accs[d] = AddReturn(acc, daily[d], interval)
    BY <1>1 DEF CollapsesByDay, acc
  <2> QED
    BY <2>3, <2>6, <2>7
<1>6. n \in S
  <2> DEFINE from == 2
  <2>1. from - 1 \in S /\ from \in Int /\ n \in Int
    BY <1>4
  <2>2. \A d \in from .. n : d - 1 \in S => d \in S
    BY <1>5
  <2> HIDE DEF S, from
  <2>3. \A d \in from .. n : d \in S
    BY <2>1, <2>2, DayInduction
  <2> QED
    BY <1>4, <2>3 DEF from
<1> DEFINE acc == accs[n]
           last == first + n - 1
<1>7. /\ last \in Int /\ TilesTo(acc, first, last, interval) /\ Grows(acc, W, first, last)
      /\ last + 1 = first + n
  BY <1>2, <1>6
<1>8. CollapseReturnsByInterval(daily, interval) = CloseInterval(acc)
  BY <1>1 DEF CollapsesByDay
<1> HIDE DEF acc, last
<1> DEFINE r == CloseInterval(acc)[j]
<1>9. \/ r.to \in first .. last /\ r.rate = Since(W, first, r.to)
      \/ r.to = acc.to /\ r.rate = Since(W, first, last + 1)
  BY <1>7, <1>8, CloseGrows
<1>10. acc.to \in Int /\ acc.to >= last + 1
  BY <1>7 DEF TilesTo
<1> HIDE DEF r
<1>11. r.rate = Since(W, first, UpTo(r.to, first + n))
  <2>1. CASE r.to \in first .. last /\ r.rate = Since(W, first, r.to)
    BY <1>7, <2>1 DEF UpTo
  <2>2. CASE r.to = acc.to /\ r.rate = Since(W, first, last + 1)
    <3>1. UpTo(r.to, first + n) = last + 1
      BY <1>7, <1>10, <2>2 DEF UpTo
    <3> QED
      BY <2>2, <3>1
  <2> QED
    BY <1>9, <2>1, <2>2
<1>12. r.to \in Int /\ first <= r.to
  <2>1. first <= last
    BY DEF last
  <2> QED
    BY <1>7, <1>9, <1>10, <2>1
<1> QED
  BY <1>8, <1>11, <1>12 DEF r

-----------------------------------------------------------------------------
(***************************************************************************)
(* A day's return.                                                         *)
(***************************************************************************)
Rationals == {p \in [num : Int, den : Nat \ {0}] : InLowestTerms(p)}

\* The end value is reduced transaction by transaction.
NetsByPlace(net, ending, transactions, d, n) ==
  /\ net[0] = Whole(ending.value)
  /\ \A k \in 1 .. n :
       net[k] = IF transactions[k].date = d
                THEN Minus(net[k - 1], TransactionValue(transactions[k], ending))
                ELSE net[k - 1]
  /\ \A k \in 0 .. n : InLowestTerms(net[k])
  /\ NetEndValue(ending, transactions, d) = net[n]

IsNet(iter, ending, transactions, d, n) ==
  iter = [s \in SUBSET (1 .. n) |->
           IF s = {} THEN Whole(ending.value)
           ELSE IF transactions[Max(s)].date = d
                THEN Minus(iter[s \ {Max(s)}], TransactionValue(transactions[Max(s)], ending))
                ELSE iter[s \ {Max(s)}]]

LEMMA NetFolds ==
  ASSUME NEW ending, NEW transactions, NEW d, NEW n, DOMAIN transactions = 1 .. n
  PROVE  NetEndValue(ending, transactions, d)
           = (CHOOSE iter : IsNet(iter, ending, transactions, d, n))[1 .. n]
BY DEF NetEndValue, FoldLeft, MapThenFoldSet, IsNet

LEMMA WholeInLowestTerms == \A v \in Int : InLowestTerms(Whole(v))
<1> SUFFICES ASSUME NEW v \in Int PROVE InLowestTerms(Whole(v))
  OBVIOUS
<1>1. v * 0 + 1 * 1 = 1
  OBVIOUS
<1> QED
  BY <1>1 DEF InLowestTerms, Whole, Coprime

LEMMA NetExists ==
  ASSUME NEW ending, ending.value \in Int, NEW transactions, NEW d, NEW n \in Nat,
         \A i \in 1 .. n : InLowestTerms(TransactionValue(transactions[i], ending))
  PROVE  \E iter : IsNet(iter, ending, transactions, d, n)
<1> DEFINE worth(i) == TransactionValue(transactions[i], ending)
           on(i)    == transactions[i].date = d
           base     == Whole(ending.value)
           next     == [i \in 1 .. n |-> [x \in Rationals |-> IF on(i) THEN Minus(x, worth(i)) ELSE x]]
<1>1. base \in Rationals
  BY WholeInLowestTerms DEF Rationals, InLowestTerms
<1>2. \A i \in 1 .. n : \A x \in Rationals : (IF on(i) THEN Minus(x, worth(i)) ELSE x) \in Rationals
  <2> SUFFICES ASSUME NEW i \in 1 .. n, NEW x \in Rationals PROVE Minus(x, worth(i)) \in Rationals
    OBVIOUS
  <2>1. InLowestTerms(x) /\ InLowestTerms(worth(i))
    BY DEF Rationals
  <2> HIDE DEF worth
  <2>2. InLowestTerms(Minus(x, worth(i)))
    BY <2>1, FractionsAreExact
  <2> QED
    BY <2>2 DEF Rationals, InLowestTerms
<1> HIDE DEF worth, on, base
<1>3. next \in [1 .. n -> [Rationals -> Rationals]]
  BY <1>2
<1>4. \A i \in 1 .. n : \A x \in Rationals : next[i][x] = IF on(i) THEN Minus(x, worth(i)) ELSE x
  OBVIOUS
<1> HIDE DEF next
<1>5. PICK iter \in [SUBSET (1 .. n) -> Rationals] : IsFold(iter, n, base, next)
  BY <1>1, <1>3, FoldExists
<1>6. ASSUME NEW s \in SUBSET (1 .. n), s # {}
      PROVE  next[Max(s)][iter[s \ {Max(s)}]]
               = IF on(Max(s)) THEN Minus(iter[s \ {Max(s)}], worth(Max(s))) ELSE iter[s \ {Max(s)}]
  <2>1. Max(s) \in s
    BY <1>6, MaxExists
  <2>2. Max(s) \in 1 .. n /\ iter[s \ {Max(s)}] \in Rationals
    BY <1>5, <2>1
  <2> QED
    BY <1>4, <2>2
<1>7. iter = [s \in SUBSET (1 .. n) |->
               IF s = {} THEN base
               ELSE IF on(Max(s)) THEN Minus(iter[s \ {Max(s)}], worth(Max(s)))
                    ELSE iter[s \ {Max(s)}]]
  BY <1>5, <1>6 DEF IsFold
<1> QED
  BY <1>7 DEF IsNet, base, on, worth

LEMMA NetByTransaction ==
  ASSUME NEW ending, ending.value \in Int, NEW transactions, NEW d, NEW n \in Nat,
         DOMAIN transactions = 1 .. n,
         \A i \in 1 .. n : InLowestTerms(TransactionValue(transactions[i], ending))
  PROVE  \E net : NetsByPlace(net, ending, transactions, d, n)
<1> DEFINE worth(i) == TransactionValue(transactions[i], ending)
           iter == CHOOSE i : IsNet(i, ending, transactions, d, n)
           net  == [k \in 0 .. n |-> iter[1 .. k]]
<1>1. IsNet(iter, ending, transactions, d, n)
  BY NetExists
<1>2. NetEndValue(ending, transactions, d) = iter[1 .. n]
  BY NetFolds
<1> HIDE DEF iter
<1>3. net[0] = Whole(ending.value)
  <2>1. 1 .. 0 = {} /\ {} \in SUBSET (1 .. n) /\ 0 \in 0 .. n
    OBVIOUS
  <2>2. iter[{}] = Whole(ending.value)
    BY <1>1, <2>1 DEF IsNet
  <2> QED
    BY <2>1, <2>2
<1>4. ASSUME NEW k \in 1 .. n
      PROVE  net[k] = IF transactions[k].date = d THEN Minus(net[k - 1], worth(k)) ELSE net[k - 1]
  <2> DEFINE s == 1 .. k
  <2>1. k \in Nat \ {0} /\ k \in s /\ \A j \in s : j \in 1 .. n
    OBVIOUS
  <2>2. Max(s) = k /\ s \ {k} = 1 .. k - 1
    BY <2>1, PrefixMax
  <2> HIDE DEF s
  <2>3. s \in SUBSET (1 .. n) /\ s # {}
    BY <2>1
  <2>4. iter[s] = IF transactions[Max(s)].date = d
                  THEN Minus(iter[s \ {Max(s)}], worth(Max(s))) ELSE iter[s \ {Max(s)}]
    BY <1>1, <2>3 DEF IsNet
  <2> HIDE DEF worth
  <2>5. iter[s] = IF transactions[k].date = d
                  THEN Minus(iter[1 .. k - 1], worth(k)) ELSE iter[1 .. k - 1]
    BY <2>2, <2>4
  <2>6. k \in 0 .. n /\ k - 1 \in 0 .. n
    OBVIOUS
  <2> QED
    BY <2>5, <2>6 DEF s
<1>5. NetEndValue(ending, transactions, d) = net[n]
  BY <1>2
<1> HIDE DEF net
<1> DEFINE S == {k \in Nat : k <= n => InLowestTerms(net[k])}
<1>6. 0 \in S
  BY <1>3, WholeInLowestTerms
<1>7. ASSUME NEW k \in Nat, k \in S PROVE k + 1 \in S
  <2> SUFFICES ASSUME k + 1 <= n PROVE InLowestTerms(net[k + 1])
    OBVIOUS
  <2>1. k + 1 \in 1 .. n /\ (k + 1) - 1 = k /\ InLowestTerms(net[k])
    BY <1>7
  <2>2. InLowestTerms(worth(k + 1))
    BY <2>1
  <2> HIDE DEF worth
  <2>3. net[k + 1] = IF transactions[k + 1].date = d THEN Minus(net[k], worth(k + 1)) ELSE net[k]
    BY <1>4, <2>1
  <2>4. InLowestTerms(Minus(net[k], worth(k + 1)))
    BY <2>1, <2>2, FractionsAreExact
  <2> QED
    BY <2>1, <2>3, <2>4
<1>8. \A k \in Nat : k \in S
  <2> HIDE DEF S
  <2> QED
    BY <1>6, <1>7, NatSetInduction
<1>9. \A k \in 0 .. n : InLowestTerms(net[k])
  BY <1>8
<1> QED
  BY <1>3, <1>4, <1>5, <1>9 DEF NetsByPlace

\* Without transactions the end value stays.
LEMMA NetOfNothing ==
  ASSUME NEW ending, ending.value \in Int, NEW d
  PROVE  NetEndValue(ending, <<>>, d) = Whole(ending.value)
<1>1. DOMAIN <<>> = 1 .. 0 /\ 0 \in Nat
  OBVIOUS
<1>2. \A i \in 1 .. 0 : FALSE
  OBVIOUS
<1>3. PICK net : NetsByPlace(net, ending, <<>>, d, 0)
  BY <1>1, <1>2, NetByTransaction
<1> QED
  BY <1>3 DEF NetsByPlace

\* The return of a day that starts and ends with at least a peso.
LEMMA RateIsGrowth ==
  ASSUME NEW holdings, NEW transactions, NEW d, NEW a \in Int, NEW b \in Int, One <= a, One <= b,
         HoldingOn(holdings, d).value = a,
         NetEndValue(HoldingOn(holdings, d + 1), transactions, d + 1) = Whole(b)
  PROVE  Plus(Unity, DailyRate(holdings, transactions, d)) = Fraction(b, a)
<1>1. One \in Nat \ {0} /\ a \in Nat \ {0}
  BY AccountAssumption
<1>2. ~ Small(Whole(a)) /\ ~ Small(Whole(b))
  BY <1>1 DEF Small, AtMost, Whole
<1>3. DailyRate(holdings, transactions, d) = Over(Minus(Whole(b), Whole(a)), Whole(a))
  BY <1>2 DEF DailyRate
<1> QED
  BY <1>1, <1>3, UnityPlusGain

\* A day that ends without the asset has no return.
LEMMA RateOfNothing ==
  ASSUME NEW holdings, NEW transactions, NEW d,
         NetEndValue(HoldingOn(holdings, d + 1), transactions, d + 1) = Whole(0)
  PROVE  Plus(Unity, DailyRate(holdings, transactions, d)) = Unity
<1>1. Small(Whole(0))
  BY AccountAssumption DEF Small, AtMost, Whole
<1>2. DailyRate(holdings, transactions, d) = Zero
  BY <1>1 DEF DailyRate
<1> QED
  BY <1>2, UnityPlusZero

-----------------------------------------------------------------------------
LEMMA HoldingsReturnTiles ==
  ASSUME NEW holdings, NEW transactions, NEW interval \in Nat \ {0},
         Head(holdings).date \in Int, Last(holdings).date \in Int,
         \/ Head(holdings).date <= Last(holdings).date
         \/ CalculateHoldingsReturn(holdings, transactions, interval) # <<>>
  PROVE  /\ CalculateHoldingsReturn(holdings, transactions, interval) # <<>>
         /\ \E T : CalculateHoldingsReturn(holdings, transactions, interval) \in Seq(T)
         /\ Tile(CalculateHoldingsReturn(holdings, transactions, interval),
                 Head(holdings).date, Last(holdings).date, interval)
<1> DEFINE first == Head(holdings).date
           last  == Last(holdings).date
           n     == last - first + 1
           daily == [i \in 1 .. n |->
                      [from |-> first + i - 1, to |-> first + i,
                       rate |-> DailyRate(holdings, transactions, first + i - 1)]]
<1>1. CalculateHoldingsReturn(holdings, transactions, interval)
        = CollapseReturnsByInterval(daily, interval)
  BY DEF CalculateHoldingsReturn
<1>2. Daily(daily, first, n)
  BY DEF Daily
<1>3. n \in Int /\ first \in Int /\ last = first + n - 1
  OBVIOUS
<1>4. first <= last \/ daily # <<>>
  BY <1>1 DEF CollapseReturnsByInterval
<1>5. n \in Nat \ {0}
  <2>1. CASE first <= last
    BY <1>3, <2>1
  <2>2. CASE daily # <<>>
    <3> SUFFICES ASSUME n <= 0 PROVE daily = <<>>
      BY <1>3, <2>2
    <3>1. 1 .. n = {}
      BY <1>3
    <3> QED
      BY <3>1
  <2> QED
    BY <1>4, <2>1, <2>2
<1> HIDE DEF daily, n
<1>6. /\ CollapseReturnsByInterval(daily, interval) # <<>>
      /\ \E T : CollapseReturnsByInterval(daily, interval) \in Seq(T)
      /\ Tile(CollapseReturnsByInterval(daily, interval), first, first + n - 1, interval)
  BY <1>2, <1>3, <1>5, CollapsedTile
<1> QED
  BY <1>1, <1>3, <1>6

-----------------------------------------------------------------------------
(***************************************************************************)
(* Sequences: the members of a set in their order, the items a test keeps, *)
(* and one sequence after the other.                                       *)
(***************************************************************************)
\* The rank of a member: how many are smaller.
LEMMA RanksDiffer ==
  ASSUME NEW S \in SUBSET Int, IsFiniteSet(S), NEW x \in S, NEW z \in S, x < z
  PROVE  /\ Cardinality({y \in S : y < x}) \in Nat
         /\ Cardinality({y \in S : y < z}) \in Nat
         /\ Cardinality({y \in S : y < x}) < Cardinality({y \in S : y < z})
         /\ Cardinality({y \in S : y < z}) < Cardinality(S)
<1> DEFINE A == {y \in S : y < x}
           B == {y \in S : y < z}
<1>1. A \in SUBSET B /\ A # B /\ B \in SUBSET S /\ B # S
  <2>1. x \in B /\ x \notin A /\ z \notin B
    OBVIOUS
  <2>2. \A y \in A : y \in B
    OBVIOUS
  <2>3. QED
    BY <2>1, <2>2
<1> HIDE DEF A, B
<1>2. IsFiniteSet(B) /\ Cardinality(B) <= Cardinality(S) /\ Cardinality(B) # Cardinality(S)
  BY <1>1, FS_Subset
<1>3. IsFiniteSet(A) /\ Cardinality(A) <= Cardinality(B) /\ Cardinality(A) # Cardinality(B)
  BY <1>1, <1>2, FS_Subset
<1>4. Cardinality(A) \in Nat /\ Cardinality(B) \in Nat /\ Cardinality(S) \in Nat
  BY <1>2, <1>3, FS_CardinalityType
<1>5. Cardinality(A) < Cardinality(B) /\ Cardinality(B) < Cardinality(S)
  BY <1>2, <1>3, <1>4
<1>6. QED
  BY <1>4, <1>5 DEF A, B

LEMMA RankBelow ==
  ASSUME NEW S \in SUBSET Int, IsFiniteSet(S), NEW x \in S
  PROVE  /\ Cardinality({y \in S : y < x}) \in Nat
         /\ Cardinality({y \in S : y < x}) < Cardinality(S)
<1> DEFINE A == {y \in S : y < x}
<1>1. A \in SUBSET S /\ A # S
  <2>1. x \notin A
    OBVIOUS
  <2>2. QED
    BY <2>1
<1> HIDE DEF A
<1>2. IsFiniteSet(A) /\ Cardinality(A) <= Cardinality(S) /\ Cardinality(A) # Cardinality(S)
  BY <1>1, FS_Subset
<1>3. Cardinality(A) \in Nat /\ Cardinality(S) \in Nat
  BY <1>2, FS_CardinalityType
<1>4. Cardinality(A) < Cardinality(S)
  BY <1>2, <1>3
<1>5. QED
  BY <1>3, <1>4 DEF A

\* InOrder is the members of a finite set of integers, each once, in order.
Sorts(s, S) ==
  /\ Cardinality(S) \in Nat
  /\ s \in [1 .. Cardinality(S) -> S]
  /\ \A i, j \in 1 .. Cardinality(S) : i < j => s[i] < s[j]
  /\ \A x \in S : \E i \in 1 .. Cardinality(S) : s[i] = x

LEMMA InOrderSorts ==
  ASSUME NEW S \in SUBSET Int, IsFiniteSet(S)
  PROVE  Sorts(InOrder(S), S)
<1> DEFINE n == Cardinality(S)
           rank(x) == Cardinality({y \in S : y < x})
           s == InOrder(S)
           f == [x \in S |-> rank(x) + 1]
<1>0. \A x \in S : x \in Int
  OBVIOUS
<1>1. n \in Nat
  BY FS_CardinalityType
<1>2. \A x \in S : rank(x) \in Nat /\ rank(x) < n
  BY RankBelow
<1>3. \A x, z \in S : x < z => rank(x) < rank(z)
  BY RanksDiffer
<1>4. s = [i \in 1 .. n |-> CHOOSE x \in S : rank(x) = i - 1]
  BY DEF InOrder
<1> HIDE DEF rank, n, s
<1>5. f \in Injection(S, 1 .. n)
  <2>1. f \in [S -> 1 .. n]
    <3> SUFFICES ASSUME NEW x \in S PROVE rank(x) + 1 \in 1 .. n
      OBVIOUS
    <3> QED
      BY <1>1, <1>2
  <2>2. ASSUME NEW x \in S, NEW z \in S, f[x] = f[z] PROVE x = z
    <3>1. rank(x) = rank(z)
      BY <1>2, <2>2
    <3>2. ~(x < z) /\ ~(z < x) /\ x \in Int /\ z \in Int
      BY <1>2, <1>3, <3>1
    <3>3. QED
      BY <3>2
  <2>3. QED
    BY <2>1, <2>2 DEF Injection, IsInjective
<1>6. f \in Surjection(S, 1 .. n)
  <2>1. IsFiniteSet(1 .. n) /\ Cardinality(1 .. n) = n
    <3>1. IsFiniteSet(1 .. n) /\ Cardinality(1 .. n) = IF 1 > n THEN 0 ELSE n - 1 + 1
      BY <1>1, FS_Interval
    <3>2. QED
      BY <1>1, <3>1
  <2>2. Cardinality(S) = Cardinality(1 .. n)
    BY <2>1 DEF n
  <2> HIDE DEF f
  <2>3. QED
    BY <1>5, <2>1, <2>2, FS_Injection
<1>7. \A i \in 1 .. n : \E x \in S : rank(x) = i - 1
  <2> SUFFICES ASSUME NEW i \in 1 .. n PROVE \E x \in S : rank(x) = i - 1
    OBVIOUS
  <2>1. PICK x \in S : f[x] = i
    BY <1>6 DEF Surjection
  <2>2. rank(x) + 1 = i
    BY <2>1
  <2>3. QED
    BY <1>2, <2>2
<1> HIDE DEF f
<1>8. \A i \in 1 .. n : s[i] \in S /\ rank(s[i]) = i - 1
  BY <1>4, <1>7
<1>9. s \in [1 .. n -> S]
  BY <1>4, <1>8
<1>10. ASSUME NEW i \in 1 .. n, NEW j \in 1 .. n, i < j PROVE s[i] < s[j]
  <2>1. s[i] \in S /\ s[j] \in S /\ rank(s[i]) = i - 1 /\ rank(s[j]) = j - 1
    BY <1>8
  <2>2. /\ s[i] \in Int /\ s[j] \in Int
        /\ i \in Int /\ j \in Int
    <3>1. s[i] \in S /\ s[j] \in S
      BY <2>1
    <3>2. s[i] \in Int /\ s[j] \in Int
      BY <1>0, <3>1
    <3>3. QED
      BY <1>1, <3>2
  <2>3. s[j] < s[i] => rank(s[j]) < rank(s[i])
    BY <1>3, <2>1
  <2>4. rank(s[i]) < rank(s[j])
    BY <1>10, <2>1, <2>2
  <2>5. rank(s[i]) \in Nat /\ rank(s[j]) \in Nat
    BY <1>2, <2>1
  <2>6. ~(s[j] < s[i])
    BY <2>3, <2>4, <2>5
  <2>7. s[i] # s[j]
    BY <2>4, <2>5
  <2>8. QED
    BY <2>2, <2>6, <2>7
<1>11. ASSUME NEW x \in S PROVE \E i \in 1 .. n : s[i] = x
  <2>1. rank(x) \in Nat /\ rank(x) < n
    BY <1>2
  <2> DEFINE i == rank(x) + 1
  <2>2. i \in 1 .. n /\ i - 1 = rank(x)
    BY <1>1, <2>1
  <2>3. s[i] \in S /\ rank(s[i]) = rank(x)
    BY <1>8, <2>2
  <2>4. s[i] < x => rank(s[i]) < rank(x)
    BY <1>3, <2>3
  <2>5. x < s[i] => rank(x) < rank(s[i])
    BY <1>3, <2>3
  <2>6. ~(s[i] < x) /\ ~(x < s[i])
    BY <2>1, <2>3, <2>4, <2>5
  <2>7. s[i] = x
    <3>1. s[i] \in S
      BY <2>3
    <3>2. s[i] \in Int /\ x \in Int
      BY <1>0, <3>1
    <3>3. QED
      BY <2>6, <3>2
  <2> HIDE DEF i
  <2>8. QED
    BY <2>2, <2>7
<1>12. QED
  BY <1>1, <1>9, <1>10, <1>11 DEF Sorts, n, s
\* The items at some places of a sequence.
LEMMA ItemsAreTaken ==
  ASSUME NEW T, NEW items \in Seq(T), NEW places \in SUBSET (DOMAIN items)
  PROVE  /\ ItemsAt(items, places) \in Seq({items[i] : i \in places})
         /\ places # {} => ItemsAt(items, places) # <<>>
<1>1. Len(items) \in Nat /\ DOMAIN items = 1 .. Len(items)
  OBVIOUS
<1>2. places \in SUBSET Int /\ IsFiniteSet(places)
  <2>1. IsFiniteSet(1 .. Len(items))
    BY <1>1, FS_Interval
  <2>2. places \in SUBSET (1 .. Len(items))
    BY <1>1
  <2>3. places \in SUBSET Int
    BY <2>2
  <2>4. QED
    BY <2>1, <2>2, <2>3, FS_Subset
<1> DEFINE kept == InOrder(places)
           n == Cardinality(places)
<1>3. n \in Nat /\ kept \in [1 .. n -> places] /\ \A x \in places : \E i \in 1 .. n : kept[i] = x
  BY <1>2, InOrderSorts DEF Sorts
<1>4. ItemsAt(items, places) = [j \in 1 .. n |-> items[kept[j]]]
  BY <1>3 DEF ItemsAt
<1> HIDE DEF kept, n
<1>5. ItemsAt(items, places) \in [1 .. n -> {items[i] : i \in places}]
  BY <1>3, <1>4
<1>6. ASSUME places # {} PROVE ItemsAt(items, places) # <<>>
  <2>1. 1 \in DOMAIN ItemsAt(items, places)
    BY <1>3, <1>4, <1>6
  <2>2. DOMAIN <<>> = {}
    OBVIOUS
  <2>3. QED
    BY <2>1, <2>2
<1>7. ItemsAt(items, places) \in Seq({items[i] : i \in places})
  <2> DEFINE U == {items[i] : i \in places}
  <2>1. ItemsAt(items, places) \in [1 .. n -> U]
    BY <1>5
  <2> HIDE DEF U
  <2>2. ItemsAt(items, places) \in Seq(U)
    BY <1>3, <2>1
  <2>3. QED
    BY <2>2 DEF U
<1>8. QED
  BY <1>6, <1>7

\* The members of a finite set, each once, in some order.
LEMMA SetToSeqLists ==
  ASSUME NEW S, IsFiniteSet(S)
  PROVE  /\ Cardinality(S) \in Nat
         /\ SetToSeq(S) \in [1 .. Cardinality(S) -> S]
<1>1. Cardinality(S) \in Nat /\ ExistsBijection(1 .. Cardinality(S), S)
  BY FS_CardinalityType
<1>2. \E f \in [1 .. Cardinality(S) -> S] : IsInjective(f)
  BY <1>1 DEF ExistsBijection, Bijection, Injection
<1>3. QED
  BY <1>1, <1>2 DEF SetToSeq

\* How FlattenSeq appends one sequence after the other.
Flattens(f, seqs, n) ==
  f = [i \in 1 .. n |-> IF i = 1 THEN seqs[i] ELSE f[i - 1] \o seqs[i]]

FlattensByPlace(seqs, n, T) ==
  \E f \in [1 .. n -> Seq(T)] :
    /\ FlattenSeq(seqs) = f[n]
    /\ f[1] = seqs[1]
    /\ \A i \in 2 .. n : f[i] = f[i - 1] \o seqs[i]

LEMMA Concatenation ==
  ASSUME NEW T, NEW a \in Seq(T), NEW b \in Seq(T)
  PROVE  /\ a \o b \in Seq(T)
         /\ Len(a \o b) = Len(a) + Len(b)
         /\ \A j \in 1 .. Len(a) : (a \o b)[j] = a[j]
         /\ \A j \in 1 .. Len(b) : (a \o b)[Len(a) + j] = b[j]
OBVIOUS

LEMMA FlattenByPlace ==
  ASSUME NEW n \in Nat \ {0}, NEW T, NEW seqs \in [1 .. n -> Seq(T)]
  PROVE  FlattensByPlace(seqs, n, T)
<1>1. \E g \in [1 .. n -> Seq(T)] : g[1] = seqs[1] /\ \A i \in 2 .. n : g[i] = g[i - 1] \o seqs[i]
  <2>1. CASE n = 1
    <3> DEFINE g == [i \in 1 .. n |-> seqs[1]]
    <3>1. g \in [1 .. n -> Seq(T)] /\ g[1] = seqs[1] /\ \A i \in 2 .. n : g[i] = g[i - 1] \o seqs[i]
      BY <2>1
    <3>2. QED
      BY <3>1
  <2>2. CASE n # 1
    <3> DEFINE from == 2
               c == seqs[1]
               next == [i \in from .. n |-> [x \in Seq(T) |-> x \o seqs[i]]]
    <3>1. from \in Int /\ n \in Int /\ from <= n /\ c \in Seq(T) /\ next \in [from .. n -> [Seq(T) -> Seq(T)]]
      BY <2>2
    <3>2. Recursion(from, n, Seq(T), c, next)
      <4> HIDE DEF from, c, next
      <4> QED
        BY <3>1, DayRecursion
    <3>3. PICK g \in [from - 1 .. n -> Seq(T)] :
            g[from - 1] = c /\ \A i \in from .. n : g[i] = next[i][g[i - 1]]
      BY <3>2 DEF Recursion
    <3>4. g \in [1 .. n -> Seq(T)] /\ g[1] = seqs[1]
      BY <3>3
    <3>5. ASSUME NEW i \in 2 .. n PROVE g[i] = g[i - 1] \o seqs[i]
      <4>1. i - 1 \in 1 .. n /\ g[i - 1] \in Seq(T)
        BY <3>4
      <4>2. QED
        BY <3>3, <4>1
    <3>6. QED
      BY <3>4, <3>5
  <2>3. QED
    BY <2>1, <2>2
<1>2. PICK g \in [1 .. n -> Seq(T)] : g[1] = seqs[1] /\ \A i \in 2 .. n : g[i] = g[i - 1] \o seqs[i]
  BY <1>1
<1>3. Flattens(g, seqs, n)
  <2>1. ASSUME NEW i \in 1 .. n
        PROVE  g[i] = IF i = 1 THEN seqs[i] ELSE g[i - 1] \o seqs[i]
    <3>1. i = 1 \/ i \in 2 .. n
      OBVIOUS
    <3>2. QED
      BY <1>2, <3>1
  <2>2. QED
    BY <2>1 DEF Flattens
<1> DEFINE f == CHOOSE h : Flattens(h, seqs, n)
<1>4. Flattens(f, seqs, n)
  BY <1>3
<1>5. FlattenSeq(seqs) = f[n]
  <2>1. Len(seqs) = n /\ n # 0
    OBVIOUS
  <2>2. QED
    BY <2>1 DEF FlattenSeq, Flattens
<1> HIDE DEF f
<1>6. /\ DOMAIN f = 1 .. n
      /\ f[1] = seqs[1]
      /\ \A i \in 2 .. n : f[i] = f[i - 1] \o seqs[i]
  <2>1. DOMAIN f = 1 .. n
    BY <1>4 DEF Flattens
  <2>2. \A i \in 1 .. n : f[i] = IF i = 1 THEN seqs[i] ELSE f[i - 1] \o seqs[i]
    BY <1>4 DEF Flattens
  <2>3. f[1] = seqs[1]
    BY <2>2
  <2>4. ASSUME NEW i \in 2 .. n PROVE f[i] = f[i - 1] \o seqs[i]
    <3>1. i \in 1 .. n /\ i # 1
      OBVIOUS
    <3>2. QED
      BY <2>2, <3>1
  <2>5. QED
    BY <2>1, <2>3, <2>4
<1>7. \A i \in 1 .. n : f[i] \in Seq(T)
  <2> DEFINE S == {i \in 1 .. n : f[i] \in Seq(T)}
             from == 2
  <2>1. from \in Int /\ n \in Int /\ from - 1 \in S
    BY <1>6
  <2>2. ASSUME NEW i \in from .. n, i - 1 \in S PROVE i \in S
    <3>1. i \in 2 .. n /\ i \in 1 .. n
      OBVIOUS
    <3>2. f[i - 1] \in Seq(T) /\ seqs[i] \in Seq(T) /\ f[i] = f[i - 1] \o seqs[i]
      BY <1>6, <2>2, <3>1
    <3>3. f[i] \in Seq(T)
      BY <3>2, Concatenation
    <3>4. QED
      BY <3>1, <3>3
  <2>3. \A i \in from .. n : i \in S
    <3> HIDE DEF S, from
    <3> QED
      BY <2>1, <2>2, DayInduction
  <2>4. QED
    BY <1>6, <2>3
<1>8. f \in [1 .. n -> Seq(T)]
  BY <1>4, <1>7 DEF Flattens
<1>9. QED
  BY <1>5, <1>6, <1>8 DEF FlattensByPlace

LEMMA FlattenIsSeq ==
  ASSUME NEW n \in Nat, NEW T, NEW seqs \in [1 .. n -> Seq(T)]
  PROVE  FlattenSeq(seqs) \in Seq(T)
<1>1. CASE n = 0
  <2>1. Len(seqs) = 0 /\ seqs \in Seq(T)
    BY <1>1
  <2>2. QED
    BY <2>1 DEF FlattenSeq
<1>2. CASE n # 0
  <2>1. n \in Nat \ {0}
    BY <1>2
  <2>2. FlattensByPlace(seqs, n, T)
    BY <2>1, FlattenByPlace
  <2>3. PICK f \in [1 .. n -> Seq(T)] : FlattenSeq(seqs) = f[n]
    BY <2>2 DEF FlattensByPlace
  <2>4. QED
    BY <2>1, <2>3
<1>3. QED
  BY <1>1, <1>2

\* Sequences of one item each.
LEMMA FlattenOfSingles ==
  ASSUME NEW n \in Nat, NEW T, NEW seqs \in [1 .. n -> Seq(T)],
         \A i \in 1 .. n : Len(seqs[i]) = 1
  PROVE  /\ FlattenSeq(seqs) \in [1 .. n -> T]
         /\ \A i \in 1 .. n : FlattenSeq(seqs)[i] = seqs[i][1]
<1>1. CASE n = 0
  <2>1. Len(seqs) = 0 /\ seqs \in [1 .. n -> T]
    BY <1>1
  <2>2. QED
    BY <1>1, <2>1 DEF FlattenSeq
<1>2. CASE n # 0
  <2>0. n \in Nat \ {0}
    BY <1>2
  <2>b. FlattensByPlace(seqs, n, T)
    BY <2>0, FlattenByPlace
  <2>1. PICK f \in [1 .. n -> Seq(T)] :
          /\ FlattenSeq(seqs) = f[n]
          /\ f[1] = seqs[1]
          /\ \A i \in 2 .. n : f[i] = f[i - 1] \o seqs[i]
    BY <2>b DEF FlattensByPlace
  <2> DEFINE S == {i \in 1 .. n : Len(f[i]) = i /\ \A j \in 1 .. i : f[i][j] = seqs[j][1]}
             from == 2
  <2>2. from \in Int /\ n \in Int /\ from - 1 \in S
    BY <1>2, <2>1
  <2>3. ASSUME NEW i \in from .. n, i - 1 \in S PROVE i \in S
    <3>0. i \in 2 .. n
      OBVIOUS
    <3>a. i \in 1 .. n /\ i - 1 \in 1 .. n /\ i \in Nat /\ i # 1
      BY <3>0
    <3> DEFINE a == f[i - 1]  b == seqs[i]
    <3>1. f[i] = a \o b
      BY <2>1, <3>0
    <3>2. a \in Seq(T) /\ b \in Seq(T) /\ Len(a) = i - 1 /\ Len(b) = 1
      BY <2>3, <3>a
    <3>e. a \in Seq(T) /\ b \in Seq(T)
      BY <3>2
    <3>c. \A j \in 1 .. i - 1 : a[j] = seqs[j][1]
      BY <2>3
    <3>d. b[1] = seqs[i][1]
      OBVIOUS
    <3> HIDE DEF a, b
    <3>f. /\ Len(a \o b) = Len(a) + Len(b)
          /\ \A j \in 1 .. Len(a) : (a \o b)[j] = a[j]
          /\ \A j \in 1 .. Len(b) : (a \o b)[Len(a) + j] = b[j]
      BY <3>e, Concatenation
    <3>3. Len(f[i]) = i
      <4>1. Len(f[i]) = Len(a) + Len(b)
        BY <3>1, <3>f
      <4>2. QED
        BY <3>a, <3>2, <4>1
    <3>4. ASSUME NEW j \in 1 .. i PROVE f[i][j] = seqs[j][1]
      <4>1. CASE j = i
        <5>1. f[i][Len(a) + 1] = b[1]
          BY <3>1, <3>2, <3>f
        <5>2. QED
          BY <3>a, <3>d, <3>2, <4>1, <5>1
      <4>2. CASE j # i
        <5>1. j \in 1 .. i - 1
          BY <3>a, <4>2
        <5>2. f[i][j] = a[j]
          BY <3>1, <3>2, <3>f, <5>1
        <5>3. QED
          BY <3>c, <5>1, <5>2
      <4>3. QED
        BY <4>1, <4>2
    <3>5. QED
      BY <3>a, <3>3, <3>4
  <2>4. n \in S
    <3>1. \A i \in from .. n : i \in S
      <4> HIDE DEF S, from
      <4> QED
        BY <2>2, <2>3, DayInduction
    <3>2. CASE n = 1
      BY <2>2, <3>2
    <3>3. CASE n # 1
      BY <1>2, <3>1, <3>3
    <3>4. QED
      BY <3>2, <3>3
  <2>5. Len(f[n]) = n /\ f[n] \in Seq(T) /\ \A j \in 1 .. n : f[n][j] = seqs[j][1]
    BY <1>2, <2>4
  <2>6. QED
    BY <2>1, <2>5
<1>3. QED
  BY <1>1, <1>2

-----------------------------------------------------------------------------
(***************************************************************************)
(* The way of an account through parsing and the tables.                   *)
(***************************************************************************)
Item == [date : Int, value : Int, units : Int]

LEMMA ParsedHoldings ==
  ASSUME NEW rows \in Seq(AnswerRow), NEW day \in Int,
         NEW a \in DOMAIN parseEstadoToAccountState(rows, day)
  PROVE  parseEstadoToAccountState(rows, day)[a].holdings \in Seq(Item)
<1> DEFINE places == {i \in DOMAIN rows : rows[i].asset = a}
           lots == ItemsAt(rows, places)
<1>1. lots \in Seq({rows[i] : i \in places})
  <2> HIDE DEF places
  <2>1. places \in SUBSET (DOMAIN rows)
    BY DEF places
  <2>2. QED
    BY <2>1, ItemsAreTaken
<1>2. {rows[i] : i \in places} \subseteq AnswerRow
  OBVIOUS
<1>3. DOMAIN lots = 1 .. Len(lots) /\ Len(lots) \in Nat /\ \A i \in DOMAIN lots : lots[i] \in AnswerRow
  <2> DEFINE U == {rows[i] : i \in places}
  <2>1. lots \in Seq(U) /\ U \subseteq AnswerRow
    BY <1>1, <1>2
  <2> HIDE DEF U, lots
  <2>2. QED
    BY <2>1
<1>4. parseEstadoToAccountState(rows, day)[a].holdings
        = [i \in DOMAIN lots |-> [date |-> day, value |-> lots[i].value, units |-> lots[i].units]]
  BY DEF parseEstadoToAccountState, Select
<1> HIDE DEF lots, places
<1>5. \A i \in DOMAIN lots : [date |-> day, value |-> lots[i].value, units |-> lots[i].units] \in Item
  BY <1>3 DEF AnswerRow, Item
<1>6. [i \in DOMAIN lots |-> [date |-> day, value |-> lots[i].value, units |-> lots[i].units]]
        \in [1 .. Len(lots) -> Item]
  BY <1>3, <1>5
<1>7. QED
  BY <1>3, <1>4, <1>6

LEMMA ParsedMovements ==
  ASSUME NEW ledger \in Seq(LedgerRow), NEW a
  PROVE  parseInstrumentosRecoveries(ledger, a) \in Seq(Item)
<1> DEFINE places == {i \in DOMAIN ledger : IsMovement(ledger[i]) /\ ledger[i].asset = a}
           mine == ItemsAt(ledger, places)
           item(i) == IF mine[i].kind = "Interest payment"
                      THEN [date |-> mine[i].day, value |-> 0, units |-> mine[i].value]
                      ELSE [date |-> mine[i].day, value |-> mine[i].value, units |-> mine[i].units]
<1>1. mine \in Seq({ledger[i] : i \in places})
  <2> HIDE DEF places
  <2>1. places \in SUBSET (DOMAIN ledger)
    BY DEF places
  <2>2. QED
    BY <2>1, ItemsAreTaken
<1>2. {ledger[i] : i \in places} \subseteq LedgerRow
  OBVIOUS
<1>3. DOMAIN mine = 1 .. Len(mine) /\ Len(mine) \in Nat /\ \A i \in DOMAIN mine : mine[i] \in LedgerRow
  <2> DEFINE U == {ledger[i] : i \in places}
  <2>1. mine \in Seq(U) /\ U \subseteq LedgerRow
    BY <1>1, <1>2
  <2> HIDE DEF U, mine
  <2>2. QED
    BY <2>1
<1>4. parseInstrumentosRecoveries(ledger, a) = [i \in DOMAIN mine |-> item(i)]
  BY DEF parseInstrumentosRecoveries, Select
<1>5. ASSUME NEW i \in DOMAIN mine PROVE item(i) \in Item
  <2> HIDE DEF mine
  <2>1. mine[i].day \in Int /\ mine[i].value \in Int /\ mine[i].units \in Int
    BY <1>3 DEF LedgerRow
  <2>2. CASE mine[i].kind = "Interest payment"
    <3>1. item(i) = [date |-> mine[i].day, value |-> 0, units |-> mine[i].value]
      BY <2>2
    <3>2. [date |-> mine[i].day, value |-> 0, units |-> mine[i].value] \in Item
      BY <2>1 DEF Item
    <3>3. QED
      BY <3>1, <3>2
  <2>3. CASE mine[i].kind # "Interest payment"
    BY <2>1, <2>3 DEF Item
  <2>4. QED
    BY <2>2, <2>3
<1> HIDE DEF mine, places, item
<1>6. [i \in DOMAIN mine |-> item(i)] \in [1 .. Len(mine) -> Item]
  BY <1>3, <1>5
<1>7. QED
  BY <1>3, <1>4, <1>6

\* What the broker has of a client.
Book(b) ==
  /\ b.ledger \in Seq(LedgerRow)
  /\ IsFiniteSet(DOMAIN b.answers) /\ DOMAIN b.answers \subseteq Int
  /\ \A d \in DOMAIN b.answers : b.answers[d] \in Seq(AnswerRow)

LEMMA AccountStateTyped ==
  ASSUME NEW b, Book(b), NEW a \in DOMAIN GetAccountState(b.answers, b.ledger)
  PROVE  LET asset == GetAccountState(b.answers, b.ledger)[a] IN
         asset.id = a /\ asset.holdings \in Seq(Item) /\ asset.transactions \in Seq(Item)
<1> DEFINE answers == b.answers
           days == InOrder(DOMAIN answers)
           n == Cardinality(DOMAIN answers)
           st(d) == parseEstadoToAccountState(answers[d], d)
           lots == [i \in DOMAIN days |-> IF a \in DOMAIN st(days[i]) THEN st(days[i])[a].holdings
                                          ELSE <<>>]
           asset == GetAccountState(b.answers, b.ledger)[a]
<1>1. n \in Nat /\ days \in [1 .. n -> DOMAIN answers]
  <2>1. DOMAIN answers \in SUBSET Int /\ IsFiniteSet(DOMAIN answers)
    BY DEF Book
  <2>2. Sorts(days, DOMAIN answers)
    BY <2>1, InOrderSorts
  <2>3. QED
    BY <2>2 DEF Sorts
<1>2. asset.id = a /\ asset.holdings = FlattenSeq(lots)
      /\ asset.transactions = parseInstrumentosRecoveries(b.ledger, a)
  BY DEF GetAccountState
<1> HIDE DEF asset
<1>3. asset.transactions \in Seq(Item)
  BY <1>2, ParsedMovements DEF Book
<1>4. ASSUME NEW i \in 1 .. n PROVE lots[i] \in Seq(Item)
  <2> DEFINE d == days[i]
  <2>1. d \in DOMAIN answers /\ d \in Int /\ answers[d] \in Seq(AnswerRow) /\ i \in DOMAIN days
    BY <1>1 DEF Book
  <2>2. lots[i] = IF a \in DOMAIN st(d) THEN st(d)[a].holdings ELSE <<>>
    BY <2>1
  <2> HIDE DEF d, lots
  <2>3. a \in DOMAIN st(d) => st(d)[a].holdings \in Seq(Item)
    BY <2>1, ParsedHoldings
  <2>4. QED
    BY <2>2, <2>3
<1>5. DOMAIN lots = 1 .. n
  BY <1>1
<1>6. lots \in [1 .. n -> Seq(Item)]
  <2>1. lots = [i \in 1 .. n |-> lots[i]]
    BY <1>1
  <2> HIDE DEF lots
  <2>2. QED
    BY <1>4, <2>1
<1>7. asset.holdings \in Seq(Item)
  <2> HIDE DEF lots, n
  <2>1. FlattenSeq(lots) \in Seq(Item)
    BY <1>1, <1>6, FlattenIsSeq
  <2>2. QED
    BY <1>2, <2>1
<1>8. QED
  BY <1>2, <1>3, <1>7 DEF asset

LEMMA FiniteImage ==
  ASSUME NEW S, IsFiniteSet(S), NEW f, DOMAIN f = S
  PROVE  IsFiniteSet({f[x] : x \in S})
<1> DEFINE T == {f[x] : x \in S}
           g == [x \in S |-> f[x]]
<1>1. g \in Surjection(S, T)
  BY DEF Surjection
<1> HIDE DEF g, T
<1>2. IsFiniteSet(T)
  BY <1>1, FS_Surjection
<1>3. QED
  BY <1>2 DEF T
\* Rows of one asset of one client: of finitely many dates, and in number.
Rows(R) ==
  /\ IsFiniteSet(R)
  /\ \A r \in R : r.date \in Int /\ r.value \in Int /\ r.units \in Int

OnePerDate(R) == \A r, q \in R : r.date = q.date => r = q

LEMMA RowsOfSubset ==
  ASSUME NEW R, Rows(R), NEW Q \in SUBSET R
  PROVE  Rows(Q) /\ (OnePerDate(R) => OnePerDate(Q))
<1>1. IsFiniteSet(Q)
  BY FS_Subset DEF Rows
<1>2. QED
  BY <1>1 DEF Rows, OnePerDate

LEMMA HoldingsStored ==
  ASSUME NEW c, NEW asset, asset.holdings \in Seq(Item)
  PROVE  Rows(storeHoldings(c, asset)) /\ OnePerDate(storeHoldings(c, asset))
<1> DEFINE hs == asset.holdings
           last(d) == Last(Dated(hs, d))
           row(d) == [client |-> c, asset |-> asset.id, date |-> d,
                      value |-> last(d).value, units |-> last(d).units]
           D == Dates(hs)
           R == storeHoldings(c, asset)
<1>1. R = {row(d) : d \in D}
  BY DEF storeHoldings
<1>2. DOMAIN hs = 1 .. Len(hs) /\ Len(hs) \in Nat /\ \A i \in DOMAIN hs : hs[i] \in Item
  OBVIOUS
<1>3. D \subseteq Int /\ IsFiniteSet(D)
  <2>1. IsFiniteSet(DOMAIN hs)
    BY <1>2, FS_Interval
  <2>2. IsFiniteSet({hs[i].date : i \in DOMAIN hs})
    <3> DEFINE f == [i \in DOMAIN hs |-> hs[i].date]
    <3>1. IsFiniteSet({f[i] : i \in DOMAIN hs})
      <4> HIDE DEF f, hs
      <4> QED
        BY <2>1, FiniteImage DEF f
    <3>2. {f[i] : i \in DOMAIN hs} = {hs[i].date : i \in DOMAIN hs}
      OBVIOUS
    <3>3. QED
      BY <3>1, <3>2
  <2>3. QED
    BY <1>2, <2>2 DEF Dates, Item
<1>4. ASSUME NEW d \in D PROVE last(d) \in Item
  <2> DEFINE places == {i \in DOMAIN hs : hs[i].date = d}
             U == {hs[i] : i \in places}
  <2>1. places \in SUBSET (DOMAIN hs) /\ places # {}
    BY DEF Dates
  <2>2. U \subseteq Item
    BY <1>2
  <2>3. Dated(hs, d) = ItemsAt(hs, places)
    BY DEF Dated, Select
  <2>4. ItemsAt(hs, places) \in Seq(U) /\ ItemsAt(hs, places) # <<>>
    <3> HIDE DEF places
    <3> QED
      BY <2>1, ItemsAreTaken
  <2> HIDE DEF places, U, hs
  <2>5. Dated(hs, d) \in Seq(U) /\ Dated(hs, d) # <<>>
    BY <2>3, <2>4
  <2>6. Last(Dated(hs, d)) \in U
    BY <2>5 DEF Last
  <2>7. QED
    BY <2>2, <2>6
<1> HIDE DEF D, last, hs
<1>5. \A r \in R : r.date \in Int /\ r.value \in Int /\ r.units \in Int
  BY <1>1, <1>3, <1>4 DEF Item
<1>6. OnePerDate(R)
  BY <1>1 DEF OnePerDate
<1>7. IsFiniteSet(R)
  <2> DEFINE f == [d \in D |-> row(d)]
  <2>1. IsFiniteSet({f[d] : d \in D})
    <3> HIDE DEF f, row
    <3> QED
      BY <1>3, FiniteImage DEF f
  <2>2. {f[d] : d \in D} = {row(d) : d \in D}
    OBVIOUS
  <2>3. QED
    BY <1>1, <2>1, <2>2
<1>8. QED
  BY <1>5, <1>6, <1>7 DEF Rows

LEMMA TransactionsStored ==
  ASSUME NEW c, NEW asset, asset.transactions \in Seq(Item)
  PROVE  /\ Rows(storeTransactions(c, asset))
         /\ \A r \in storeTransactions(c, asset) : r.value = 0
<1> DEFINE ts == asset.transactions
           row(i) == [client |-> c, asset |-> asset.id, row |-> i, date |-> ts[i].date,
                      value |-> 0, units |-> ts[i].units]
           R == storeTransactions(c, asset)
<1>1. R = {row(i) : i \in DOMAIN ts}
  BY DEF storeTransactions
<1>2. DOMAIN ts = 1 .. Len(ts) /\ Len(ts) \in Nat /\ \A i \in DOMAIN ts : ts[i] \in Item
  OBVIOUS
<1>3. \A i \in DOMAIN ts : ts[i].date \in Int /\ ts[i].units \in Int
  <2> HIDE DEF ts
  <2> QED
    BY <1>2 DEF Item
<1> HIDE DEF ts
<1>4. \A r \in R : r.date \in Int /\ r.value = 0 /\ r.units \in Int
  BY <1>1, <1>3
<1>5. IsFiniteSet(R)
  <2> DEFINE f == [i \in DOMAIN ts |-> row(i)]
  <2>1. IsFiniteSet(DOMAIN ts)
    BY <1>2, FS_Interval
  <2>2. IsFiniteSet({f[i] : i \in DOMAIN ts})
    <3> HIDE DEF f, row
    <3> QED
      BY <2>1, FiniteImage DEF f
  <2>3. {f[i] : i \in DOMAIN ts} = {row(i) : i \in DOMAIN ts}
    OBVIOUS
  <2>4. QED
    BY <1>1, <2>2, <2>3
<1>6. QED
  BY <1>4, <1>5 DEF Rows

\* Sorting rows keeps them; with one per date, the dates rise.
LEMMA SortKeepsRows ==
  ASSUME NEW R, Rows(R)
  PROVE  /\ SortedByDate(R) \in Seq(R)
         /\ OnePerDate(R) => \A j \in 2 .. Len(SortedByDate(R)) :
                               SortedByDate(R)[j - 1].date < SortedByDate(R)[j].date
<1> DEFINE D == {r.date : r \in R}
           days == InOrder(D)
           n == Cardinality(D)
           on(d) == {r \in R : r.date = d}
           pieces == [i \in DOMAIN days |-> SetToSeq(on(days[i]))]
<1>1. D \in SUBSET Int /\ IsFiniteSet(D)
  <2> DEFINE f == [r \in R |-> r.date]
  <2>1. IsFiniteSet({f[r] : r \in R})
    <3> HIDE DEF f
    <3> QED
      BY FiniteImage DEF f, Rows
  <2>2. {f[r] : r \in R} = D
    OBVIOUS
  <2>3. QED
    BY <2>1, <2>2 DEF Rows
<1>2. n \in Nat /\ days \in [1 .. n -> D] /\ \A i, j \in 1 .. n : i < j => days[i] < days[j]
  <2> HIDE DEF D
  <2> QED
    BY <1>1, InOrderSorts DEF Sorts
<1>3. SortedByDate(R) = FlattenSeq(pieces)
  BY DEF SortedByDate
<1>4. ASSUME NEW d
      PROVE  /\ IsFiniteSet(on(d)) /\ Cardinality(on(d)) \in Nat
             /\ SetToSeq(on(d)) \in [1 .. Cardinality(on(d)) -> on(d)]
             /\ SetToSeq(on(d)) \in Seq(R)
  <2>1. on(d) \in SUBSET R
    OBVIOUS
  <2> HIDE DEF on
  <2>2. IsFiniteSet(on(d))
    BY <2>1, FS_Subset DEF Rows
  <2>3. Cardinality(on(d)) \in Nat /\ SetToSeq(on(d)) \in [1 .. Cardinality(on(d)) -> on(d)]
    BY <2>2, SetToSeqLists
  <2>4. SetToSeq(on(d)) \in [1 .. Cardinality(on(d)) -> R]
    BY <2>1, <2>3
  <2>5. SetToSeq(on(d)) \in Seq(R)
    BY <2>3, <2>4
  <2>6. QED
    BY <2>2, <2>3, <2>5
<1> HIDE DEF D, days, n
<1>5. pieces \in [1 .. n -> Seq(R)]
  <2> HIDE DEF on
  <2> QED
    BY <1>2, <1>4
<1>6. SortedByDate(R) \in Seq(R)
  <2> HIDE DEF pieces
  <2> QED
    BY <1>2, <1>3, <1>5, FlattenIsSeq
<1>7. ASSUME OnePerDate(R), NEW i \in 1 .. n
      PROVE  Len(pieces[i]) = 1 /\ pieces[i][1].date = days[i]
  <2> DEFINE d == days[i]
  <2>1. pieces[i] = SetToSeq(on(d)) /\ d \in D
    BY <1>2
  <2> HIDE DEF d, pieces
  <2>2. PICK r \in R : r.date = d
    BY <2>1 DEF D
  <2>3. on(d) = {r}
    BY <1>7, <2>2 DEF OnePerDate
  <2>4. Cardinality(on(d)) = 1
    BY <2>3, FS_Singleton
  <2>5. SetToSeq(on(d)) \in [1 .. 1 -> {r}]
    BY <1>4, <2>3, <2>4
  <2>6. Len(SetToSeq(on(d))) = 1 /\ SetToSeq(on(d))[1] = r
    BY <2>5
  <2>7. QED
    BY <2>1, <2>2, <2>6 DEF d
<1>8. ASSUME OnePerDate(R), NEW j \in 2 .. Len(SortedByDate(R))
      PROVE  SortedByDate(R)[j - 1].date < SortedByDate(R)[j].date
  <2>1. \A i \in 1 .. n : Len(pieces[i]) = 1
    BY <1>7, <1>8
  <2>2. SortedByDate(R) \in [1 .. n -> R] /\ \A i \in 1 .. n : SortedByDate(R)[i] = pieces[i][1]
    <3> HIDE DEF pieces
    <3> QED
      BY <1>2, <1>3, <1>5, <2>1, FlattenOfSingles
  <2>3. Len(SortedByDate(R)) = n
    BY <1>2, <2>2
  <2>4. j \in 1 .. n /\ j - 1 \in 1 .. n /\ j - 1 < j
    BY <1>2, <2>3
  <2>5. \A i \in 1 .. n : SortedByDate(R)[i].date = days[i]
    BY <1>7, <1>8, <2>2
  <2>6. days[j - 1] < days[j]
    BY <1>2, <2>4
  <2>7. QED
    BY <2>4, <2>5, <2>6
<1>9. QED
  BY <1>6, <1>8
LEMMA TablesHaveRows ==
  ASSUME books \in Books, NEW c \in Clients, NEW a
  PROVE  LET tables == StoreAccountStates(StatesOf(books))
             hs == {r \in tables.holdings : r.client = c /\ r.asset = a}
             ts == {r \in tables.transactions : r.client = c /\ r.asset = a}
         IN  Rows(hs) /\ OnePerDate(hs) /\ Rows(ts) /\ \A r \in ts : r.value = 0
<1> DEFINE states == StatesOf(books)
           tables == StoreAccountStates(states)
           hs == {r \in tables.holdings : r.client = c /\ r.asset = a}
           ts == {r \in tables.transactions : r.client = c /\ r.asset = a}
           stored == {ca \in Clients \X ToSet(AssetIds) : ca[2] \in DOMAIN states[ca[1]]}
<1>1. \A x \in Clients : \A y \in DOMAIN states[x] :
        states[x][y].id = y /\ states[x][y].holdings \in Seq(Item)
        /\ states[x][y].transactions \in Seq(Item)
  <2> SUFFICES ASSUME NEW x \in Clients, NEW y \in DOMAIN states[x]
               PROVE  states[x][y].id = y /\ states[x][y].holdings \in Seq(Item)
                      /\ states[x][y].transactions \in Seq(Item)
    OBVIOUS
  <2>1. states[x] = GetAccountState(books[x].answers, books[x].ledger)
    BY DEF StatesOf
  <2>2. Book(books[x])
    BY BooksAssumption DEF Book
  <2> HIDE DEF states
  <2>3. QED
    BY <2>1, <2>2, AccountStateTyped
<1>2. /\ tables.holdings = UNION {storeHoldings(ca[1], states[ca[1]][ca[2]]) : ca \in stored}
      /\ tables.transactions = UNION {storeTransactions(ca[1], states[ca[1]][ca[2]]) : ca \in stored}
  BY DEF StoreAccountStates
<1> HIDE DEF states, tables
<1>3. ASSUME NEW r \in hs
      PROVE  a \in DOMAIN states[c] /\ r \in storeHoldings(c, states[c][a])
  <2>1. PICK ca \in stored : r \in storeHoldings(ca[1], states[ca[1]][ca[2]])
    BY <1>2
  <2>2. r.client = ca[1] /\ r.asset = states[ca[1]][ca[2]].id
    BY <2>1 DEF storeHoldings
  <2>3. r.asset = ca[2]
    BY <1>1, <2>2
  <2>4. QED
    BY <2>1, <2>2, <2>3
<1>4. ASSUME NEW r \in ts
      PROVE  a \in DOMAIN states[c] /\ r \in storeTransactions(c, states[c][a])
  <2>1. PICK ca \in stored : r \in storeTransactions(ca[1], states[ca[1]][ca[2]])
    BY <1>2
  <2>2. r.client = ca[1] /\ r.asset = states[ca[1]][ca[2]].id
    BY <2>1 DEF storeTransactions
  <2>3. r.asset = ca[2]
    BY <1>1, <2>2
  <2>4. QED
    BY <2>1, <2>2, <2>3
<1> HIDE DEF hs, ts
<1>5. Rows({}) /\ OnePerDate({})
  BY FS_EmptySet DEF Rows, OnePerDate
<1>6. Rows(hs) /\ OnePerDate(hs)
  <2>1. CASE a \in DOMAIN states[c]
    <3> DEFINE R == storeHoldings(c, states[c][a])
    <3>1. Rows(R) /\ OnePerDate(R)
      BY <1>1, <2>1, HoldingsStored
    <3>2. hs \in SUBSET R
      BY <1>3
    <3> HIDE DEF R
    <3>3. QED
      BY <3>1, <3>2, RowsOfSubset
  <2>2. CASE a \notin DOMAIN states[c]
    <3>1. hs = {}
      BY <1>3, <2>2
    <3>2. QED
      BY <1>5, <3>1
  <2>3. QED
    BY <2>1, <2>2
<1>7. Rows(ts) /\ \A r \in ts : r.value = 0
  <2>1. CASE a \in DOMAIN states[c]
    <3> DEFINE R == storeTransactions(c, states[c][a])
    <3>1. Rows(R) /\ \A r \in R : r.value = 0
      BY <1>1, <2>1, TransactionsStored
    <3>2. ts \in SUBSET R
      BY <1>4
    <3> HIDE DEF R
    <3>3. QED
      BY <3>1, <3>2, RowsOfSubset
  <2>2. CASE a \notin DOMAIN states[c]
    <3>1. ts = {}
      BY <1>4, <2>2
    <3>2. QED
      BY <1>5, <3>1
  <2>3. QED
    BY <2>1, <2>2
<1>8. QED
  BY <1>6, <1>7 DEF hs, ts, tables, states

(***************************************************************************)
(* Sums over finite sets, one value after another.                         *)
(***************************************************************************)
\* The member a sum takes next.
picked(s) == CHOOSE r \in s : TRUE

IsSummed(iter, v, R) ==
  iter = [s \in SUBSET R |-> IF s = {} THEN 0 ELSE v[picked(s)] + iter[s \ {picked(s)}]]

LEMMA RowsAreSummed ==
  ASSUME NEW R
  PROVE  MapThenSumSet(LAMBDA r : r.value, R) = (CHOOSE iter : IsSummed(iter, [r \in R |-> r.value], R))[R]
<1> DEFINE v == [r \in R |-> r.value]
           byRow(iter) == iter = [s \in SUBSET R |->
                                   IF s = {} THEN 0 ELSE picked(s).value + iter[s \ {picked(s)}]]
<1>1. MapThenSumSet(LAMBDA r : r.value, R) = (CHOOSE iter : byRow(iter))[R]
  BY DEF MapThenSumSet, MapThenFoldSet, picked
<1>2. ASSUME NEW iter PROVE byRow(iter) <=> IsSummed(iter, v, R)
  <2>1. \A s \in SUBSET R : s # {} => v[picked(s)] = picked(s).value
    BY DEF picked
  <2> HIDE DEF v
  <2> QED
    BY <2>1 DEF IsSummed
<1> HIDE DEF v, byRow
<1>3. (CHOOSE iter : byRow(iter)) = (CHOOSE iter : IsSummed(iter, v, R))
  BY <1>2
<1> QED
  BY <1>1, <1>3 DEF v

LEMMA PickedShrinks ==
  ASSUME NEW R, IsFiniteSet(R), NEW s \in SUBSET R
  PROVE  /\ Cardinality(s) \in Nat /\ Cardinality(s) <= Cardinality(R)
         /\ Cardinality(s) <= 0 => s = {}
         /\ s # {} => /\ picked(s) \in s /\ s \ {picked(s)} \in SUBSET R
                       /\ Cardinality(s \ {picked(s)}) = Cardinality(s) - 1
<1>1. IsFiniteSet(s) /\ Cardinality(s) <= Cardinality(R)
  BY FS_Subset
<1>2. Cardinality(s) \in Nat
  BY <1>1, FS_CardinalityType
<1>3. s # {} => picked(s) \in s
  BY DEF picked
<1>4. picked(s) \in s => Cardinality(s \ {picked(s)}) = Cardinality(s) - 1
  BY <1>1, FS_RemoveElement
<1>5. Cardinality(s) <= 0 => Cardinality(s) = 0
  BY <1>2
<1>6. Cardinality(s) = 0 => s = {}
  BY <1>1, FS_EmptySet
<1> QED
  BY <1>1, <1>2, <1>3, <1>4, <1>5, <1>6

LEMMA SummedExists ==
  ASSUME NEW R, IsFiniteSet(R), NEW v
  PROVE  \E iter : IsSummed(iter, v, R)
<1> DEFINE more(g, s) == IF s = {} THEN 0 ELSE v[picked(s)] + g[s \ {picked(s)}]
           T == {k \in Nat : \E g : \A s \in SUBSET R : Cardinality(s) <= k => g[s] = more(g, s)}
<1>1. 0 \in T
  <2> DEFINE g == [s \in SUBSET R |-> 0]
  <2>1. ASSUME NEW s \in SUBSET R, Cardinality(s) <= 0 PROVE g[s] = more(g, s)
    <3>1. s = {}
      BY <2>1, PickedShrinks
    <3> QED
      BY <3>1
  <2> HIDE DEF g, more
  <2> QED
    BY <2>1
<1>2. ASSUME NEW k \in Nat, k \in T PROVE k + 1 \in T
  <2>1. PICK g : \A s \in SUBSET R : Cardinality(s) <= k => g[s] = more(g, s)
    BY <1>2
  <2> DEFINE h == [s \in SUBSET R |-> more(g, s)]
  <2>2. ASSUME NEW s \in SUBSET R, Cardinality(s) <= k + 1 PROVE h[s] = more(h, s)
    <3>1. CASE s = {}
      BY <3>1
    <3>2. CASE s # {}
      <4> DEFINE t == s \ {picked(s)}
      <4>1. t \in SUBSET R /\ Cardinality(t) <= k
        BY <2>2, <3>2, PickedShrinks
      <4>2. h[t] = g[t]
        <5> HIDE DEF more, t
        <5> QED BY <2>1, <4>1
      <4>3. h[s] = v[picked(s)] + g[t]
        BY <3>2
      <4>4. more(h, s) = v[picked(s)] + h[t]
        BY <3>2
      <4> HIDE DEF h, more, t
      <4> QED
        BY <4>2, <4>3, <4>4
    <3> QED
      BY <3>1, <3>2
  <2> HIDE DEF h, more
  <2> QED
    BY <2>2
<1>3. Cardinality(R) \in T
  <2>1. \A k \in Nat : k \in T
    <3> HIDE DEF T
    <3> QED BY <1>1, <1>2, NatSetInduction
  <2> QED
    BY <2>1, FS_CardinalityType
<1>4. PICK g : \A s \in SUBSET R : Cardinality(s) <= Cardinality(R) => g[s] = more(g, s)
  BY <1>3
<1> DEFINE iter == [s \in SUBSET R |-> more(g, s)]
<1>5. \A s \in SUBSET R : g[s] = more(g, s)
  <2> HIDE DEF more
  <2> QED BY <1>4, PickedShrinks
<1>6. \A s \in SUBSET R : iter[s] = g[s]
  <2> HIDE DEF more
  <2> QED BY <1>5
<1>7. ASSUME NEW s \in SUBSET R PROVE more(g, s) = more(iter, s)
  <2>1. CASE s = {}
    BY <2>1
  <2>2. CASE s # {}
    <3> DEFINE t == s \ {picked(s)}
    <3>1. t \in SUBSET R
      OBVIOUS
    <3> HIDE DEF iter
    <3>2. iter[t] = g[t]
      BY <1>6, <3>1
    <3> QED
      BY <2>2, <3>2
  <2> QED
    BY <2>1, <2>2
<1>8. iter = [s \in SUBSET R |-> more(iter, s)]
  <2>1. [s \in SUBSET R |-> more(g, s)] = [s \in SUBSET R |-> more(iter, s)]
    <3> HIDE DEF more, iter
    <3> QED BY <1>7
  <2> QED
    BY <2>1
<1>9. IsSummed(iter, v, R)
  <2> HIDE DEF iter
  <2> QED BY <1>8 DEF IsSummed
<1> QED
  BY <1>9

LEMMA SummedTyped ==
  ASSUME NEW R, IsFiniteSet(R), NEW v \in [R -> Int], NEW iter, IsSummed(iter, v, R)
  PROVE  \A s \in SUBSET R : iter[s] \in Int
<1> DEFINE T == {k \in Nat : \A s \in SUBSET R : Cardinality(s) <= k => iter[s] \in Int}
<1>0. iter[{}] = 0
  BY DEF IsSummed
<1>1. \A s \in SUBSET R : s # {} => iter[s] = v[picked(s)] + iter[s \ {picked(s)}]
  BY DEF IsSummed
<1>2. 0 \in T
  <2>1. ASSUME NEW s \in SUBSET R, Cardinality(s) <= 0 PROVE iter[s] \in Int
    <3>1. s = {}
      BY <2>1, PickedShrinks
    <3> QED
      BY <1>0, <3>1
  <2> QED
    BY <2>1
<1>3. ASSUME NEW k \in Nat, k \in T PROVE k + 1 \in T
  <2>1. ASSUME NEW s \in SUBSET R, Cardinality(s) <= k + 1 PROVE iter[s] \in Int
    <3>1. CASE s = {}
      BY <1>0, <3>1
    <3>2. CASE s # {}
      <4> DEFINE t == s \ {picked(s)}
      <4>1. t \in SUBSET R /\ Cardinality(t) <= k /\ v[picked(s)] \in Int
        BY <2>1, <3>2, PickedShrinks
      <4>2. iter[t] \in Int
        <5> HIDE DEF t
        <5> QED BY <1>3, <4>1
      <4>3. iter[s] = v[picked(s)] + iter[t]
        BY <1>1, <3>2
      <4> HIDE DEF t
      <4> QED
        BY <4>1, <4>2, <4>3
    <3> QED
      BY <3>1, <3>2
  <2> QED
    BY <2>1
<1>4. \A k \in Nat : k \in T
  <2> HIDE DEF T
  <2> QED BY <1>2, <1>3, NatSetInduction
<1>5. \A s \in SUBSET R : Cardinality(s) \in Nat /\ Cardinality(s) <= Cardinality(s)
  <2>1. \A s \in SUBSET R : Cardinality(s) \in Nat
    BY PickedShrinks
  <2> QED
    BY <2>1
<1> QED
  BY <1>4, <1>5

\* The order of the terms does not matter: any member may come last.
AnyOrder(iter, v, R) ==
  \A s \in SUBSET R : \A x \in s : iter[s] = v[x] + iter[s \ {x}]

LEMMA SummedAnyOrder ==
  ASSUME NEW R, IsFiniteSet(R), NEW v \in [R -> Int], NEW iter, IsSummed(iter, v, R)
  PROVE  iter[{}] = 0 /\ AnyOrder(iter, v, R)
<1> DEFINE taken(s) == \A x \in s : iter[s] = v[x] + iter[s \ {x}]
           T == {k \in Nat : \A s \in SUBSET R : Cardinality(s) <= k => taken(s)}
<1>1. iter[{}] = 0 /\ \A s \in SUBSET R : s # {} => iter[s] = v[picked(s)] + iter[s \ {picked(s)}]
  BY DEF IsSummed
<1>2. \A s \in SUBSET R : iter[s] \in Int
  BY SummedTyped
<1>3. 0 \in T
  <2>1. ASSUME NEW s \in SUBSET R, Cardinality(s) <= 0 PROVE taken(s)
    <3>1. s = {}
      BY <2>1, PickedShrinks
    <3> QED
      BY <3>1
  <2> HIDE DEF taken
  <2> QED
    BY <2>1
<1>4. ASSUME NEW k \in Nat, k \in T PROVE k + 1 \in T
  <2>1. ASSUME NEW s \in SUBSET R, Cardinality(s) <= k + 1, NEW x \in s
        PROVE  iter[s] = v[x] + iter[s \ {x}]
    <3> DEFINE p == picked(s)
    <3>0. p \in s /\ iter[s] = v[p] + iter[s \ {p}]
      BY <1>1 DEF picked
    <3> HIDE DEF p
    <3>1. CASE x = p
      BY <3>0, <3>1
    <3>2. CASE x # p
      <4> DEFINE t == s \ {p}  u == s \ {x}  w == t \ {x}
      <4>1. /\ t \in SUBSET R /\ u \in SUBSET R /\ w \in SUBSET R
            /\ x \in t /\ p \in u /\ u \ {p} = w /\ x \in R /\ p \in R
        BY <3>0, <3>2
      <4>2. Cardinality(t) <= k /\ Cardinality(u) <= k
        <5>1. IsFiniteSet(s) /\ Cardinality(s) \in Nat
          BY FS_Subset, PickedShrinks
        <5>2. Cardinality(t) = Cardinality(s) - 1 /\ Cardinality(u) = Cardinality(s) - 1
          BY <3>0, <5>1, FS_RemoveElement
        <5> HIDE DEF t, u
        <5> QED
          BY <2>1, <5>1, <5>2
      <4>3. iter[s] = v[p] + iter[t]
        BY <3>0
      <4> HIDE DEF t, u, w
      <4>4. taken(t) /\ taken(u)
        <5> HIDE DEF taken
        <5> QED BY <1>4, <4>1, <4>2
      <4>5. iter[t] = v[x] + iter[w] /\ iter[u] = v[p] + iter[w]
        BY <4>1, <4>4 DEF w
      <4>6. v[x] \in Int /\ v[p] \in Int /\ iter[w] \in Int
        BY <1>2, <4>1
      <4>7. iter[s] = v[x] + iter[u]
        BY <4>3, <4>5, <4>6
      <4> QED
        BY <4>7 DEF u
    <3> QED
      BY <3>1, <3>2
  <2>2. \A s \in SUBSET R : Cardinality(s) <= k + 1 => taken(s)
    BY <2>1
  <2> HIDE DEF taken
  <2> QED
    BY <2>2
<1>5. \A k \in Nat : k \in T
  <2> HIDE DEF T
  <2> QED BY <1>3, <1>4, NatSetInduction
<1>6. ASSUME NEW s \in SUBSET R PROVE taken(s)
  <2>1. Cardinality(s) \in Nat
    BY PickedShrinks
  <2>2. Cardinality(s) \in T /\ Cardinality(s) <= Cardinality(s)
    BY <1>5, <2>1
  <2> HIDE DEF taken
  <2> QED
    BY <2>2
<1> QED
  BY <1>1, <1>6 DEF AnyOrder

\* Along a list of the set's members.
SumsAlong(W, v, place, n, total) ==
  /\ W \in [0 .. n -> Int]
  /\ W[0] = 0 /\ W[n] = total
  /\ \A k \in 1 .. n : W[k] = W[k - 1] + v[place[k]]

LEMMA SummedAlong ==
  ASSUME NEW R, IsFiniteSet(R), NEW v \in [R -> Int], NEW iter, IsSummed(iter, v, R),
         NEW n \in Nat, NEW place \in [1 .. n -> R],
         \A i, j \in 1 .. n : place[i] = place[j] => i = j,
         \A x \in R : \E i \in 1 .. n : place[i] = x
  PROVE  \E W : SumsAlong(W, v, place, n, iter[R])
<1> DEFINE upTo(k) == {place[i] : i \in 1 .. k}
           W == [k \in 0 .. n |-> iter[upTo(k)]]
<1>0. iter[{}] = 0 /\ AnyOrder(iter, v, R)
  BY SummedAnyOrder
<1>1. \A k \in 0 .. n : upTo(k) \in SUBSET R
  OBVIOUS
<1>2. W \in [0 .. n -> Int]
  <2> HIDE DEF upTo
  <2> QED BY <1>1, SummedTyped
<1>3. W[0] = 0
  <2>1. upTo(0) = {} /\ 0 \in 0 .. n
    OBVIOUS
  <2>2. iter[{}] = 0
    BY <1>0
  <2> HIDE DEF upTo
  <2> QED
    BY <2>1, <2>2
<1>4. W[n] = iter[R]
  <2>1. upTo(n) = R /\ n \in 0 .. n
    OBVIOUS
  <2> HIDE DEF upTo
  <2> QED
    BY <2>1
<1>5. ASSUME NEW k \in 1 .. n PROVE W[k] = W[k - 1] + v[place[k]]
  <2> DEFINE s == upTo(k)  x == place[k]
  <2>1. k \in 0 .. n /\ k - 1 \in 0 .. n /\ s \in SUBSET R /\ x \in R
    OBVIOUS
  <2>2. x \in s /\ s \ {x} = upTo(k - 1)
    <3>1. 1 .. k = (1 .. k - 1) \cup {k} /\ k \notin 1 .. k - 1
      OBVIOUS
    <3>2. \A i \in 1 .. k - 1 : place[i] # place[k]
      <4>1. \A i \in 1 .. k - 1 : i \in 1 .. n /\ i # k
        OBVIOUS
      <4> QED
        BY <4>1
    <3>3. s = upTo(k - 1) \cup {x}
      BY <3>1
    <3>4. x \notin upTo(k - 1)
      BY <3>2
    <3> HIDE DEF s, x, upTo
    <3> QED
      BY <3>3, <3>4
  <2> HIDE DEF s, x
  <2>3. iter[s] = v[x] + iter[s \ {x}]
    BY <1>0, <2>1, <2>2 DEF AnyOrder
  <2>4. v[x] \in Int /\ iter[s \ {x}] \in Int
    BY <2>1, SummedTyped
  <2>5. W[k] = iter[s] /\ W[k - 1] = iter[s \ {x}]
    <3>1. W[k - 1] = iter[upTo(k - 1)] /\ W[k] = iter[upTo(k)]
      <4> HIDE DEF upTo
      <4> QED BY <2>1
    <3> HIDE DEF W, upTo
    <3> QED
      BY <2>2, <3>1 DEF s
  <2> HIDE DEF W
  <2> QED
    BY <2>3, <2>4, <2>5 DEF x
<1> HIDE DEF W
<1> QED
  BY <1>2, <1>3, <1>4, <1>5 DEF SumsAlong

\* The totals of rows are whole, and there is one for the date of every row.
LEMMA TotalsByDate ==
  ASSUME NEW R, Rows(R)
  PROVE  /\ DOMAIN GetTotalByDate(R) = {r.date : r \in R}
         /\ \A d \in DOMAIN GetTotalByDate(R) : GetTotalByDate(R)[d] \in Int
<1> DEFINE on(d) == {r \in R : r.date = d}
           totals == GetTotalByDate(R)
<1>1. /\ DOMAIN totals = {r.date : r \in R}
      /\ \A d \in DOMAIN totals : totals[d] = MapThenSumSet(LAMBDA r : r.value, on(d))
  BY DEF GetTotalByDate
<1> HIDE DEF totals
<1>2. ASSUME NEW d PROVE MapThenSumSet(LAMBDA r : r.value, on(d)) \in Int
  <2> DEFINE S == on(d)
  <2>1. S \in SUBSET R
    OBVIOUS
  <2> HIDE DEF S
  <2>2. Rows(S)
    BY <2>1, RowsOfSubset
  <2> DEFINE v == [r \in S |-> r.value]
             sums == CHOOSE iter : IsSummed(iter, v, S)
  <2>3. v \in [S -> Int] /\ IsFiniteSet(S)
    BY <2>2 DEF Rows
  <2>4. MapThenSumSet(LAMBDA r : r.value, S) = sums[S]
    BY RowsAreSummed
  <2> HIDE DEF v
  <2>5. IsSummed(sums, v, S)
    BY <2>3, SummedExists
  <2> HIDE DEF sums
  <2>6. sums[S] \in Int
    BY <2>3, <2>5, SummedTyped
  <2> QED
    BY <2>4, <2>6 DEF S
<1> QED
  BY <1>1, <1>2 DEF totals

\* What ReadInOrder says of one entry.
Listed(hs, ts, from, to) ==
  /\ hs \in Seq(ToSet(hs)) /\ ts \in Seq(ToSet(ts))
  /\ \A h \in ToSet(hs) : h.date \in from .. to /\ h.value \in Int /\ h.units \in Int
  /\ \A j \in 2 .. Len(hs) : hs[j - 1].date < hs[j].date
  /\ \A t \in ToSet(ts) : t.date \in Int /\ t.value = 0 /\ t.units \in Int

LEMMA SequenceOfItself ==
  ASSUME NEW S, NEW s \in Seq(S)
  PROVE  s \in Seq(ToSet(s)) /\ ToSet(s) \subseteq S
<1>1. DOMAIN s = 1 .. Len(s) /\ Len(s) \in Nat /\ \A i \in DOMAIN s : s[i] \in ToSet(s) /\ s[i] \in S
  BY DEF ToSet
<1>2. s \in [1 .. Len(s) -> ToSet(s)]
  BY <1>1
<1>3. s \in Seq(ToSet(s))
  BY <1>1, <1>2
<1>4. ToSet(s) \subseteq S
  BY <1>1 DEF ToSet
<1>5. QED
  BY <1>3, <1>4

LEMMA QueriedEntryListed ==
  ASSUME books \in Books, NEW c \in Clients, NEW clients, c \in clients,
         NEW from \in Int, NEW to \in Int
  PROVE  LET tables == StoreAccountStates(StatesOf(books))
             own(rows) == {r \in GetByClientIDs(rows, clients, from, to) : r.client = c}
             s == buildAccountState(own(tables.holdings), own(tables.transactions))
         IN  \A a \in DOMAIN s :
               /\ Listed(s[a].holdings, s[a].transactions, from, to)
               /\ ToSet(s[a].holdings) \subseteq GetByClientIDs(tables.holdings, clients, from, to)
<1> DEFINE tables == StoreAccountStates(StatesOf(books))
           own(rows) == {r \in GetByClientIDs(rows, clients, from, to) : r.client = c}
           s == buildAccountState(own(tables.holdings), own(tables.transactions))
<1> SUFFICES ASSUME NEW a \in DOMAIN s
             PROVE  /\ Listed(s[a].holdings, s[a].transactions, from, to)
                    /\ ToSet(s[a].holdings) \subseteq GetByClientIDs(tables.holdings, clients, from, to)
  OBVIOUS
<1> DEFINE hs == {r \in tables.holdings : r.client = c /\ r.asset = a}
           ts == {r \in tables.transactions : r.client = c /\ r.asset = a}
           H == {r \in own(tables.holdings) : r.asset = a}
           T == {r \in own(tables.transactions) : r.asset = a}
<1>1. s[a].holdings = SortedByDate(H) /\ s[a].transactions = SortedByDate(T)
  BY DEF buildAccountState
<1>2. Rows(hs) /\ OnePerDate(hs) /\ Rows(ts) /\ \A r \in ts : r.value = 0
  BY TablesHaveRows
<1>11. H \subseteq GetByClientIDs(tables.holdings, clients, from, to)
  OBVIOUS
<1> HIDE DEF s, tables
<1>3. H \in SUBSET hs /\ T \in SUBSET ts /\ \A r \in H : from <= r.date /\ r.date <= to
  BY DEF GetByClientIDs
<1> HIDE DEF H, T, hs, ts
<1>4. Rows(H) /\ OnePerDate(H) /\ Rows(T)
  BY <1>2, <1>3, RowsOfSubset
<1>5. /\ SortedByDate(H) \in Seq(H)
      /\ \A j \in 2 .. Len(SortedByDate(H)) : SortedByDate(H)[j - 1].date < SortedByDate(H)[j].date
  BY <1>4, SortKeepsRows
<1>6. SortedByDate(T) \in Seq(T)
  BY <1>4, SortKeepsRows
<1>7. /\ SortedByDate(H) \in Seq(ToSet(SortedByDate(H))) /\ ToSet(SortedByDate(H)) \subseteq H
      /\ SortedByDate(T) \in Seq(ToSet(SortedByDate(T))) /\ ToSet(SortedByDate(T)) \subseteq T
  BY <1>5, <1>6, SequenceOfItself
<1>8. \A r \in H : r.date \in from .. to /\ r.value \in Int /\ r.units \in Int
  BY <1>3, <1>4 DEF Rows
<1>9. \A r \in T : r.date \in Int /\ r.value = 0 /\ r.units \in Int
  BY <1>2, <1>3, <1>4 DEF Rows
<1>10. Listed(SortedByDate(H), SortedByDate(T), from, to)
  BY <1>5, <1>7, <1>8, <1>9 DEF Listed
<1> QED
  BY <1>1, <1>7, <1>10, <1>11

\* An entry of a category, with the history of an asset a.
HasHistory(e, k, a, asset) ==
  e = [id |-> a, category |-> k, holdings |-> asset.holdings, transactions |-> asset.transactions]

\* Every entry of a report is an asset of one of the clients.
EntriesFrom(s, states, C) ==
  \A k \in DOMAIN s.assetsByCategory : \A i \in DOMAIN s.assetsByCategory[k] :
    \E c \in C : \E a \in DOMAIN states[c] :
      HasHistory(s.assetsByCategory[k][i], k, a, states[c][a])

\* Each entry of the state by category is an asset of the state of some client;
\* there are finitely many categories, and a sequence of entries in each.
LEMMA EntriesAreAssets ==
  ASSUME NEW C, NEW order \in Seq(C), NEW states, NEW assets, NEW ch, NEW ct, NEW totals,
         NEW s, s = buildAccountStateByCategory(states, order, assets, ch, ct, totals)
  PROVE  /\ IsFiniteSet(DOMAIN s.assetsByCategory)
         /\ \E T : \A k \in DOMAIN s.assetsByCategory : s.assetsByCategory[k] \in Seq(T)
         /\ EntriesFrom(s, states, C)
<1> DEFINE category(a) == IF a \in DOMAIN assets THEN assets[a] ELSE "S / C"
           entry(c, a) == [id |-> a, category |-> category(a),
                           holdings |-> states[c][a].holdings,
                           transactions |-> states[c][a].transactions]
           held(a) == {j \in DOMAIN order : a \in DOMAIN states[order[j]]}
           cs(a) == ItemsAt(order, held(a))
           entries(a) == [j \in DOMAIN cs(a) |-> entry(cs(a)[j], a)]
           all == FlattenSeq([j \in DOMAIN AssetIds |-> entries(AssetIds[j])])
           places(k) == {j \in DOMAIN all : all[j].category = k}
           Owned == {ca \in C \X ToSet(AssetIds) : ca[2] \in DOMAIN states[ca[1]]}
           U == {entry(ca[1], ca[2]) : ca \in Owned}
<1>1. /\ DOMAIN s.assetsByCategory = {all[i].category : i \in DOMAIN all}
      /\ \A k \in DOMAIN s.assetsByCategory : s.assetsByCategory[k] = ItemsAt(all, places(k))
  BY DEF buildAccountStateByCategory, Select
<1> HIDE DEF entry, held
<1>2. ASSUME NEW a \in ToSet(AssetIds) PROVE entries(a) \in Seq(U)
  <2> DEFINE V == {order[j] : j \in held(a)}
  <2>1. held(a) \in SUBSET (DOMAIN order)
    BY DEF held
  <2>2. cs(a) \in Seq(V)
    BY <2>1, ItemsAreTaken
  <2>3. \A c \in V : entry(c, a) \in U
    <3> SUFFICES ASSUME NEW j \in held(a) PROVE entry(order[j], a) \in U
      OBVIOUS
    <3>1. order[j] \in C /\ a \in DOMAIN states[order[j]]
      BY DEF held
    <3>2. <<order[j], a>> \in Owned
      BY <3>1
    <3> HIDE DEF Owned
    <3>3. QED
      BY <3>2
  <2> HIDE DEF V, U, cs
  <2>4. DOMAIN cs(a) = 1 .. Len(cs(a)) /\ Len(cs(a)) \in Nat /\ \A j \in DOMAIN cs(a) : cs(a)[j] \in V
    BY <2>2
  <2>5. entries(a) \in [1 .. Len(cs(a)) -> U]
    BY <2>3, <2>4
  <2> HIDE DEF entries
  <2>6. QED
    BY <2>4, <2>5
<1> HIDE DEF entries, U
<1>3. all \in Seq(U)
  <2> DEFINE n == Len(AssetIds)
             pieces == [j \in DOMAIN AssetIds |-> entries(AssetIds[j])]
  <2>1. n \in Nat /\ DOMAIN AssetIds = 1 .. n /\ \A j \in DOMAIN AssetIds : AssetIds[j] \in ToSet(AssetIds)
    BY AccountAssumption DEF ToSet
  <2> HIDE DEF n
  <2>2. pieces \in [1 .. n -> Seq(U)]
    BY <1>2, <2>1
  <2> HIDE DEF pieces
  <2>3. FlattenSeq(pieces) \in Seq(U)
    BY <2>1, <2>2, FlattenIsSeq
  <2>4. QED
    BY <2>3 DEF pieces
<1> HIDE DEF all
<1>4. ASSUME NEW k \in DOMAIN s.assetsByCategory
      PROVE  /\ s.assetsByCategory[k] \in Seq(U)
             /\ \A i \in DOMAIN s.assetsByCategory[k] : s.assetsByCategory[k][i].category = k
  <2> DEFINE at == places(k)
             V  == {all[j] : j \in at}
  <2>1. at \in SUBSET (DOMAIN all)
    OBVIOUS
  <2>2. ItemsAt(all, at) \in Seq(V)
    <3> HIDE DEF at
    <3> QED BY <1>3, <2>1, ItemsAreTaken
  <2>3. V \subseteq U /\ \A e \in V : e.category = k
    BY <1>3
  <2> HIDE DEF V
  <2>4. ItemsAt(all, at) \in Seq(U) /\ \A i \in DOMAIN ItemsAt(all, at) : ItemsAt(all, at)[i].category = k
    <3> HIDE DEF at
    <3> QED BY <2>2, <2>3
  <2> HIDE DEF at
  <2> QED
    BY <1>1, <2>4 DEF at
<1>5. IsFiniteSet(DOMAIN s.assetsByCategory)
  <2> DEFINE f == [j \in DOMAIN all |-> all[j].category]
  <2>1. DOMAIN all = 1 .. Len(all) /\ Len(all) \in Nat
    BY <1>3
  <2>2. IsFiniteSet(DOMAIN all)
    BY <2>1, FS_Interval
  <2>3. IsFiniteSet({f[j] : j \in DOMAIN all})
    <3> HIDE DEF f
    <3> QED BY <2>2, FiniteImage DEF f
  <2>4. {f[j] : j \in DOMAIN all} = {all[j].category : j \in DOMAIN all}
    OBVIOUS
  <2> QED
    BY <1>1, <2>3, <2>4
<1>6. ASSUME NEW k \in DOMAIN s.assetsByCategory, NEW i \in DOMAIN s.assetsByCategory[k]
      PROVE  \E c \in C : \E a \in DOMAIN states[c] :
               HasHistory(s.assetsByCategory[k][i], k, a, states[c][a])
  <2>1. s.assetsByCategory[k][i] \in U /\ s.assetsByCategory[k][i].category = k
    BY <1>4
  <2>2. PICK ca \in Owned : s.assetsByCategory[k][i] = entry(ca[1], ca[2])
    BY <2>1 DEF U
  <2>3. HasHistory(s.assetsByCategory[k][i], k, ca[2], states[ca[1]][ca[2]])
    <3> HIDE DEF category
    <3>1. \A x, y : entry(x, y) = [id |-> y, category |-> entry(x, y).category,
                                  holdings |-> states[x][y].holdings,
                                  transactions |-> states[x][y].transactions]
      BY DEF entry
    <3> QED
      BY <2>1, <2>2, <3>1 DEF HasHistory
  <2>4. ca[1] \in C /\ ca[2] \in DOMAIN states[ca[1]]
    OBVIOUS
  <2> QED
    BY <2>3, <2>4
<1>7. EntriesFrom(s, states, C)
  BY <1>6 DEF EntriesFrom
<1> HIDE DEF places
<1> QED
  BY <1>4, <1>5, <1>7

LEMMA AssetsAreFinite == IsFiniteSet(ToSet(AssetIds))
<1>1. DOMAIN AssetIds = 1 .. Len(AssetIds) /\ Len(AssetIds) \in Nat
  BY AccountAssumption
<1>2. IsFiniteSet(DOMAIN AssetIds)
  BY <1>1, FS_Interval
<1>3. IsFiniteSet({AssetIds[i] : i \in DOMAIN AssetIds})
  BY <1>2, FiniteImage
<1> QED
  BY <1>3 DEF ToSet

LEMMA HoldingsOfAssets ==
  ASSUME books \in Books
  PROVE  \A r \in StoreAccountStates(StatesOf(books)).holdings : r.asset \in ToSet(AssetIds)
<1> DEFINE states == StatesOf(books)
           tables == StoreAccountStates(states)
           stored == {ca \in Clients \X ToSet(AssetIds) : ca[2] \in DOMAIN states[ca[1]]}
<1>1. \A c \in Clients : \A a \in DOMAIN states[c] : states[c][a].id = a
  <2> SUFFICES ASSUME NEW c \in Clients, NEW a \in DOMAIN states[c] PROVE states[c][a].id = a
    OBVIOUS
  <2>1. states[c] = GetAccountState(books[c].answers, books[c].ledger)
    BY DEF StatesOf
  <2> HIDE DEF states, tables, stored
  <2>2. ASSUME NEW answers, NEW ledger, NEW id \in DOMAIN GetAccountState(answers, ledger)
        PROVE  GetAccountState(answers, ledger)[id].id = id
    BY <2>2 DEF GetAccountState
  <2> QED
    BY <2>1, <2>2
<1>2. tables.holdings = UNION {storeHoldings(ca[1], states[ca[1]][ca[2]]) : ca \in stored}
  BY DEF StoreAccountStates
<1> HIDE DEF states, tables
<1>3. ASSUME NEW r \in tables.holdings PROVE r.asset \in ToSet(AssetIds)
  <2>1. PICK ca \in stored : r \in storeHoldings(ca[1], states[ca[1]][ca[2]])
    BY <1>2
  <2>2. r.asset = states[ca[1]][ca[2]].id
    BY <2>1 DEF storeHoldings
  <2> QED
    BY <1>1, <2>1, <2>2
<1> QED
  BY <1>3 DEF tables, states

\* The holdings a report is read from are in number, and have whole amounts.
LEMMA QueriedRows ==
  ASSUME books \in Books, NEW clients \in SUBSET Clients, IsFiniteSet(clients), NEW from, NEW to
  PROVE  Rows(GetByClientIDs(StoreAccountStates(StatesOf(books)).holdings, clients, from, to))
<1> DEFINE tables == StoreAccountStates(StatesOf(books))
           R == GetByClientIDs(tables.holdings, clients, from, to)
           of(ca) == {r \in tables.holdings : r.client = ca[1] /\ r.asset = ca[2]}
           Owned == clients \X ToSet(AssetIds)
           U == UNION {of(ca) : ca \in Owned}
<1>1. \A ca \in Owned : Rows(of(ca))
  <2> SUFFICES ASSUME NEW c \in clients, NEW a \in ToSet(AssetIds) PROVE Rows(of(<<c, a>>))
    OBVIOUS
  <2>1. c \in Clients
    OBVIOUS
  <2>2. Rows({r \in tables.holdings : r.client = c /\ r.asset = a})
    BY <2>1, TablesHaveRows
  <2> HIDE DEF tables
  <2> QED
    BY <2>2
<1>2. \A r \in tables.holdings : r.asset \in ToSet(AssetIds)
  BY HoldingsOfAssets
<1> HIDE DEF tables
<1>3. R \in SUBSET U
  <2> SUFFICES ASSUME NEW r \in R PROVE r \in U
    OBVIOUS
  <2>1. r \in tables.holdings /\ r.client \in clients
    BY DEF GetByClientIDs
  <2>2. <<r.client, r.asset>> \in Owned /\ r \in of(<<r.client, r.asset>>)
    BY <1>2, <2>1
  <2> HIDE DEF of, Owned
  <2> QED
    BY <2>2
<1>4. IsFiniteSet(Owned)
  <2>1. IsFiniteSet(ToSet(AssetIds))
    BY AssetsAreFinite
  <2> QED
    BY <2>1, FS_Product
<1> HIDE DEF of, Owned, R
<1>5. IsFiniteSet(U)
  <2> DEFINE f == [ca \in Owned |-> of(ca)]
  <2>1. IsFiniteSet({f[ca] : ca \in Owned})
    <3> HIDE DEF f
    <3> QED BY <1>4, FiniteImage DEF f
  <2>2. {f[ca] : ca \in Owned} = {of(ca) : ca \in Owned}
    OBVIOUS
  <2>3. \A S \in {of(ca) : ca \in Owned} : IsFiniteSet(S)
    BY <1>1 DEF Rows
  <2> QED
    BY <2>1, <2>2, <2>3, FS_UNION
<1>6. Rows(U)
  BY <1>1, <1>5 DEF Rows
<1> HIDE DEF U
<1> QED
  BY <1>3, <1>6, RowsOfSubset DEF R, tables

\* What the totals of a report are computed from: sequences of entries in
\* finitely many categories, and a whole total for each date of a holding.
ReadTotals ==
  /\ IsFiniteSet(DOMAIN state.assetsByCategory)
  /\ \E T : \A k \in DOMAIN state.assetsByCategory : state.assetsByCategory[k] \in Seq(T)
  /\ \A d \in DOMAIN state.totalHoldings : state.totalHoldings[d] \in Int
  /\ \A k \in DOMAIN state.assetsByCategory : \A i \in DOMAIN state.assetsByCategory[k] :
       \A h \in ToSet(EntryAt(<<k, i>>).holdings) : h.date \in DOMAIN state.totalHoldings

LEMMA ReadsInOrder ==
  ASSUME books \in Books, query \in Queries, ReadAccounts
  PROVE  ReadInOrder' /\ ReadTotals'
<1> DEFINE tables == StoreAccountStates(StatesOf(books))
           from == query.from
           to == query.to
<1>1. PICK order \in SetToSeqs(query.ids) :
        state' = GetMultiAccountStateByCategory(tables, order, from, to)
  BY DEF ReadAccounts
<1> DEFINE clients == ToSet(order)
           own(rows, c) == {r \in GetByClientIDs(rows, clients, from, to) : r.client = c}
           states == [c \in clients |-> buildAccountState(own(tables.holdings, c),
                                                          own(tables.transactions, c))]
           holdings == GetByClientIDs(tables.holdings, clients, from, to)
           transactions == GetByClientIDs(tables.transactions, clients, from, to)
<1>2. order \in Seq(clients) /\ clients \subseteq Clients
  <2>1. query.ids \subseteq Clients /\ IsFiniteSet(query.ids)
    BY QueriesAssumption
  <2>2. Cardinality(query.ids) \in Nat
    BY <2>1, FS_CardinalityType
  <2>3. order \in [1 .. Cardinality(query.ids) -> query.ids]
    BY <1>1 DEF SetToSeqs
  <2>4. order \in Seq(query.ids)
    BY <2>2, <2>3
  <2>5. QED
    BY <2>1, <2>4, SequenceOfItself
<1>3. state' = buildAccountStateByCategory(states, order, tables.assets,
                 GetGroupedByCategoryAndDate(holdings, tables.assets),
                 GetGroupedByCategoryAndDate(transactions, tables.assets), GetTotalByDate(holdings))
  BY <1>1 DEF GetMultiAccountStateByCategory
<1>4. from \in Int /\ to \in Int /\ query' = query
  BY QueriesAssumption DEF ReadAccounts
<1>5. \A c \in clients : \A a \in DOMAIN states[c] :
        /\ Listed(states[c][a].holdings, states[c][a].transactions, from, to)
        /\ ToSet(states[c][a].holdings) \subseteq holdings
  <2> SUFFICES ASSUME NEW c \in clients, NEW a \in DOMAIN states[c]
               PROVE  /\ Listed(states[c][a].holdings, states[c][a].transactions, from, to)
                      /\ ToSet(states[c][a].holdings) \subseteq holdings
    OBVIOUS
  <2> DEFINE s == buildAccountState(own(tables.holdings, c), own(tables.transactions, c))
  <2>1. states[c] = s /\ c \in Clients
    BY <1>2
  <2>2. \A x \in DOMAIN s : /\ Listed(s[x].holdings, s[x].transactions, from, to)
                            /\ ToSet(s[x].holdings) \subseteq holdings
    <3> HIDE DEF clients, from, to
    <3>1. c \in Clients
      BY <2>1
    <3>2. QED
      BY <1>4, <3>1, QueriedEntryListed
  <2> HIDE DEF s, states
  <2>3. QED
    BY <2>1, <2>2
<1>6. ASSUME NEW k \in DOMAIN state'.assetsByCategory, NEW i \in DOMAIN state'.assetsByCategory[k]
      PROVE  /\ Listed(state'.assetsByCategory[k][i].holdings,
                       state'.assetsByCategory[k][i].transactions, from, to)
             /\ ToSet(state'.assetsByCategory[k][i].holdings) \subseteq holdings
  <2> DEFINE ch == GetGroupedByCategoryAndDate(holdings, tables.assets)
             ct == GetGroupedByCategoryAndDate(transactions, tables.assets)
             total == GetTotalByDate(holdings)
             assets == tables.assets
  <2>1. state' = buildAccountStateByCategory(states, order, assets, ch, ct, total)
    BY <1>3
  <2> HIDE DEF states, ch, ct, total, assets, clients, tables, from, to, holdings
  <2>2. PICK c \in clients : \E a \in DOMAIN states[c] :
           /\ state'.assetsByCategory[k][i].holdings = states[c][a].holdings
           /\ state'.assetsByCategory[k][i].transactions = states[c][a].transactions
    <3>1. order \in Seq(clients)
      BY <1>2
    <3>2. EntriesFrom(state', states, clients)
      BY <3>1, <2>1, EntriesAreAssets
    <3>3. PICK c \in clients : \E a \in DOMAIN states[c] :
            HasHistory(state'.assetsByCategory[k][i], k, a, states[c][a])
      BY <1>6, <3>2 DEF EntriesFrom
    <3>4. PICK a \in DOMAIN states[c] : HasHistory(state'.assetsByCategory[k][i], k, a, states[c][a])
      BY <3>3
    <3>5. /\ state'.assetsByCategory[k][i].holdings = states[c][a].holdings
          /\ state'.assetsByCategory[k][i].transactions = states[c][a].transactions
      BY <3>4 DEF HasHistory
    <3> QED
      BY <3>5
  <2>3. QED
    BY <1>5, <2>2
<1>7. ReadInOrder'
  BY <1>4, <1>6 DEF ReadInOrder, Listed, EntryAt
<1>8. /\ IsFiniteSet(DOMAIN state'.assetsByCategory)
      /\ \E T : \A k \in DOMAIN state'.assetsByCategory : state'.assetsByCategory[k] \in Seq(T)
  <2> DEFINE ch == GetGroupedByCategoryAndDate(holdings, tables.assets)
             ct == GetGroupedByCategoryAndDate(transactions, tables.assets)
             total == GetTotalByDate(holdings)
             assets == tables.assets
  <2>1. state' = buildAccountStateByCategory(states, order, assets, ch, ct, total)
    BY <1>3
  <2> HIDE DEF states, ch, ct, total, assets, clients
  <2> QED
    BY <1>2, <2>1, EntriesAreAssets
<1>9. /\ DOMAIN state'.totalHoldings = {r.date : r \in holdings}
      /\ \A d \in DOMAIN state'.totalHoldings : state'.totalHoldings[d] \in Int
  <2>1. state'.totalHoldings = GetTotalByDate(holdings)
    BY <1>3 DEF buildAccountStateByCategory
  <2>2. clients \in SUBSET Clients /\ IsFiniteSet(clients)
    <3>1. DOMAIN order = 1 .. Len(order) /\ Len(order) \in Nat
      BY <1>2
    <3>2. IsFiniteSet(DOMAIN order)
      BY <3>1, FS_Interval
    <3>3. IsFiniteSet({order[i] : i \in DOMAIN order})
      BY <3>2, FiniteImage
    <3> QED
      BY <1>2, <3>3 DEF ToSet
  <2>3. Rows(holdings)
    <3> HIDE DEF clients
    <3> QED BY <2>2, QueriedRows
  <2> HIDE DEF holdings
  <2> QED
    BY <2>1, <2>3, TotalsByDate
<1>10. ReadTotals'
  <2>1. \A k \in DOMAIN state'.assetsByCategory : \A i \in DOMAIN state'.assetsByCategory[k] :
          \A h \in ToSet(state'.assetsByCategory[k][i].holdings) : h.date \in DOMAIN state'.totalHoldings
    <3> HIDE DEF holdings
    <3> QED BY <1>6, <1>9
  <2> QED
    BY <1>8, <1>9, <2>1 DEF ReadTotals, EntryAt
<1> QED
  BY <1>7, <1>10

-----------------------------------------------------------------------------
(***************************************************************************)
(* The inductive invariant.                                                *)
(***************************************************************************)
\* What was read, and what a report's returns are computed from.
ReturnInv ==
  /\ books \in Books /\ query \in Queries
  /\ stage # "asked" => ReadInOrder /\ ReadTotals
  /\ HasReport =>
       /\ ~ Endless
       /\ report.totalReturns =
            CalculateWeightedTotalReturns(Flat(report.assetsReturnByCategory), Entries,
                                          state.totalHoldings, Interval)
       /\ report.assetsReturnByCategory =
            [k \in Earning(DOMAIN state.assetsByCategory) |->
              [i \in DOMAIN state.assetsByCategory[k] |->
                CalculateAssetReturn(state.assetsByCategory[k][i], Interval)]]

LEMMA ReturnsStay ==
  ASSUME ReturnInv, [Next]_vars
  PROVE  ReturnInv'
<1>1. books' \in Books /\ query' \in Queries
  BY DEF ReturnInv, Next, vars, ReadAccounts, LoopForever, GetReport, RangeRefused,
         GenerateDataframes, GenerateFile, Ended
<1>2. CASE ReadAccounts
  <2>1. ReadInOrder' /\ ReadTotals'
    BY <1>2, ReadsInOrder DEF ReturnInv
  <2>2. ~ HasReport'
    BY <1>2 DEF ReadAccounts, HasReport
  <2>3. QED
    BY <1>1, <2>1, <2>2 DEF ReturnInv
<1>3. CASE ~ ReadAccounts
  <2>1. query' = query /\ state' = state /\ (stage' # "asked" => stage # "asked")
    BY <1>3 DEF Next, vars, LoopForever, GetReport, RangeRefused, GenerateDataframes,
                GenerateFile, Ended
  <2>2. (ReadInOrder => ReadInOrder') /\ (ReadTotals => ReadTotals')
    BY <2>1 DEF ReadInOrder, ReadTotals, EntryAt
  <2>3. stage' # "asked" => ReadInOrder' /\ ReadTotals'
    BY <2>1, <2>2 DEF ReturnInv
  <2>4. CASE GetReport
    <3>1. query' = query /\ state' = state /\ ~ Endless
          /\ report' = GenerateReport(state, query.from, query.to, Interval)
      BY <2>4 DEF GetReport
    <3>2. report'.assetsReturnByCategory =
            [k \in Earning(DOMAIN state.assetsByCategory) |->
              [i \in DOMAIN state.assetsByCategory[k] |->
                CalculateAssetReturn(state.assetsByCategory[k][i], Interval)]]
      BY <3>1 DEF GenerateReport
    <3>3. report'.totalReturns =
            CalculateWeightedTotalReturns(Flat(report'.assetsReturnByCategory), Entries,
                                          state.totalHoldings, Interval)
      BY <3>1 DEF GenerateReport, Entries
    <3>4. QED
      BY <1>1, <2>3, <3>1, <3>2, <3>3 DEF ReturnInv, Endless, Backward, Interval, Entries
  <2>5. CASE HasReport /\ query' = query /\ state' = state /\ report' = report
    BY <1>1, <2>3, <2>5 DEF ReturnInv, Endless, Backward, Interval, Entries
  <2>6. CASE ~ HasReport'
    BY <1>1, <2>3, <2>6 DEF ReturnInv
  <2>7. CASE Ended \/ UNCHANGED vars
    BY <2>5, <2>6, <2>7 DEF Ended, vars, HasReport
  <2>8. QED
    BY <1>3, <2>4, <2>5, <2>6, <2>7
    DEF Next, LoopForever, RangeRefused, GenerateDataframes, GenerateFile, HasReport
<1>4. QED
  BY <1>2, <1>3

-----------------------------------------------------------------------------
(***************************************************************************)
(* Assets held on every day.                                               *)
(***************************************************************************)
\* In order, one holding a day without a gap, each of at least a peso.
Consecutive(hs, n) ==
  /\ n \in Nat \ {0} /\ DOMAIN hs = 1 .. n /\ Len(hs) = n
  /\ hs[1].date \in Int
  /\ \A i \in 1 .. n : hs[i].date = hs[1].date + i - 1
  /\ \A i \in 1 .. n : hs[i].value \in Int /\ One <= hs[i].value

\* As many days as holdings, which are in order, leave no gap.
LEMMA SteadyIsConsecutive ==
  ASSUME NEW hs, hs \in Seq(ToSet(hs)), Len(hs) >= 2,
         \A j \in DOMAIN hs : hs[j].date \in Int /\ hs[j].value \in Int /\ One <= hs[j].value,
         \A j \in 2 .. Len(hs) : hs[j - 1].date < hs[j].date,
         Last(hs).date - Head(hs).date + 1 = Len(hs)
  PROVE  Consecutive(hs, Len(hs))
<1> DEFINE n == Len(hs)
           first == hs[1].date
<1>1. n \in Nat \ {0} /\ n >= 2 /\ DOMAIN hs = 1 .. n
  OBVIOUS
<1> HIDE DEF n
<1>2. Head(hs) = hs[1] /\ Last(hs) = hs[n]
  BY <1>1 DEF Last, n
<1>3. 1 \in 1 .. n /\ n \in 1 .. n /\ first \in Int /\ \A i \in 1 .. n : hs[i].date \in Int
  <2>1. 1 \in 1 .. n /\ n \in 1 .. n
    BY <1>1
  <2>2. \A i \in 1 .. n : hs[i].date \in Int
    BY <1>1
  <2> QED
    BY <2>1, <2>2
<1>4. hs[n].date - first + 1 = n
  BY <1>2 DEF n
<1>5. \A j \in 2 .. n : hs[j - 1].date < hs[j].date
  BY DEF n
<1> HIDE DEF first
<1> DEFINE S == {i \in Int : hs[i].date >= first + i - 1}
<1>6. 1 \in S
  BY <1>3 DEF first
<1>7. ASSUME NEW i \in 2 .. n, i - 1 \in S PROVE i \in S
  <2>1. i \in 1 .. n /\ i - 1 \in 1 .. n
    BY <1>1
  <2>2. hs[i].date \in Int /\ hs[i - 1].date \in Int /\ hs[i - 1].date < hs[i].date
    BY <1>3, <1>5, <2>1
  <2>3. hs[i - 1].date >= first + (i - 1) - 1
    BY <1>7
  <2> QED
    BY <1>3, <2>2, <2>3
<1>8. \A i \in 1 .. n : i \in S
  <2> DEFINE from == 2
  <2>1. from - 1 \in S /\ from \in Int /\ n \in Int
    BY <1>1, <1>6
  <2>2. \A i \in from .. n : i - 1 \in S => i \in S
    BY <1>7
  <2> HIDE DEF S, from
  <2>3. \A i \in from .. n : i \in S
    BY <2>1, <2>2, DayInduction
  <2> QED
    BY <1>1, <1>6, <2>3 DEF from
<1> DEFINE T == {k \in Nat : k < n => hs[n - k].date <= first + (n - k) - 1}
<1>9. 0 \in T
  BY <1>1, <1>3, <1>4
<1>10. ASSUME NEW k \in Nat, k \in T PROVE k + 1 \in T
  <2> SUFFICES ASSUME k + 1 < n PROVE hs[n - (k + 1)].date <= first + (n - (k + 1)) - 1
    OBVIOUS
  <2> DEFINE i == n - k
  <2>1. n - (k + 1) = i - 1 /\ i \in 2 .. n /\ i \in 1 .. n /\ i - 1 \in 1 .. n
    BY <1>1
  <2>2. hs[i].date <= first + i - 1
    BY <1>1, <1>10
  <2> HIDE DEF i
  <2>3. hs[i].date \in Int /\ hs[i - 1].date \in Int /\ hs[i - 1].date < hs[i].date
    BY <1>3, <1>5, <2>1
  <2>4. hs[i - 1].date <= first + (i - 1) - 1
    BY <1>3, <2>1, <2>2, <2>3
  <2> QED
    BY <2>1, <2>4
<1>11. \A k \in Nat : k \in T
  <2> HIDE DEF T
  <2> QED
    BY <1>9, <1>10, NatSetInduction
<1>12. ASSUME NEW i \in 1 .. n PROVE hs[i].date = first + i - 1
  <2>1. hs[i].date >= first + i - 1
    BY <1>8
  <2>2. n - i \in Nat /\ n - i < n /\ n - (n - i) = i
    BY <1>1
  <2>3. hs[n - (n - i)].date <= first + (n - (n - i)) - 1
    BY <1>11, <2>2
  <2>4. hs[i].date <= first + i - 1
    BY <2>2, <2>3
  <2> QED
    BY <1>3, <2>1, <2>4
<1> QED
  BY <1>1, <1>3, <1>12 DEF Consecutive, first, n

LEMMA HoldingOnDay ==
  ASSUME NEW hs, NEW n, Consecutive(hs, n)
  PROVE  /\ \A i \in 1 .. n : HoldingOn(hs, hs[1].date + i - 1) = hs[i]
         /\ HoldingOn(hs, hs[1].date + n) = NoHolding
<1> DEFINE first == hs[1].date
           found(d) == {i \in DOMAIN hs : hs[i].date = d}
<1>1. n \in Nat \ {0} /\ first \in Int /\ DOMAIN hs = 1 .. n
      /\ \A i \in 1 .. n : hs[i].date = first + i - 1
  BY DEF Consecutive
<1> HIDE DEF first
<1>2. ASSUME NEW i \in 1 .. n PROVE HoldingOn(hs, first + i - 1) = hs[i]
  <2>1. found(first + i - 1) = {i}
    BY <1>1
  <2>2. Max({i}) = i
    <3>1. {i} \in SUBSET Int /\ i \in {i} /\ \A y \in {i} : y <= i
      OBVIOUS
    <3> QED
      BY <3>1, MaxIsGreatest
  <2> QED
    BY <2>1, <2>2 DEF HoldingOn
<1>3. HoldingOn(hs, first + n) = NoHolding
  <2>1. found(first + n) = {}
    BY <1>1
  <2> QED
    BY <2>1 DEF HoldingOn
<1> QED
  BY <1>2, <1>3 DEF first

\* Returns from daily growths of a worth W.
LEMMA HoldingsGrow ==
  ASSUME NEW hs, NEW n, Consecutive(hs, n), NEW transactions, NEW interval \in Nat \ {0},
         NEW W \in [hs[1].date .. hs[1].date + n -> Nat \ {0}],
         \A i \in 1 .. n : Plus(Unity, DailyRate(hs, transactions, hs[1].date + i - 1))
                            = Fraction(W[hs[1].date + i], W[hs[1].date + i - 1]),
         NEW j \in DOMAIN CalculateHoldingsReturn(hs, transactions, interval)
  PROVE  LET r == CalculateHoldingsReturn(hs, transactions, interval)[j] IN
         /\ r.to \in Int /\ hs[1].date <= r.to
         /\ r.rate = Since(W, hs[1].date, UpTo(r.to, hs[1].date + n))
<1> DEFINE first == hs[1].date
           daily == [i \in 1 .. n |->
                      [from |-> first + i - 1, to |-> first + i,
                       rate |-> DailyRate(hs, transactions, first + i - 1)]]
<1>1. /\ n \in Nat \ {0} /\ first \in Int /\ Head(hs) = hs[1] /\ Last(hs) = hs[n]
      /\ hs[n].date = first + n - 1
  BY DEF Consecutive, Last
<1>2. hs[n].date - first + 1 = n
  <2> HIDE DEF first
  <2>1. \A f \in Int : \A k \in Nat : (f + k - 1) - f + 1 = k
    OBVIOUS
  <2> QED
    BY <1>1, <2>1
<1>3. CalculateHoldingsReturn(hs, transactions, interval) = CollapseReturnsByInterval(daily, interval)
  BY <1>1, <1>2 DEF CalculateHoldingsReturn
<1>4. Daily(daily, first, n)
  BY DEF Daily
<1>5. GrowsDaily(daily, first, n, W)
  BY DEF GrowsDaily
<1> HIDE DEF daily, first
<1>6. j \in DOMAIN CollapseReturnsByInterval(daily, interval)
  BY <1>3
<1>7. LET r == CollapseReturnsByInterval(daily, interval)[j] IN
      /\ r.to \in Int /\ first <= r.to
      /\ r.rate = Since(W, first, UpTo(r.to, first + n))
  BY <1>1, <1>4, <1>5, <1>6, CollapsedGrow
<1> QED
  BY <1>3, <1>7 DEF first

\* One and a gain since the first day are the growth.
LEMMA UnityPlusSince ==
  ASSUME NEW W, NEW first, NEW d, W[first] \in Nat \ {0}, W[d] \in Nat \ {0}
  PROVE  Plus(Unity, Since(W, first, d)) = Fraction(W[d], W[first])
<1> DEFINE g == Fraction(W[d], W[first])
<1>1. InLowestTerms(g)
  BY FractionIsExact
<1> HIDE DEF g
<1>2. InLowestTerms(Minus(g, Unity)) /\ Plus(Minus(g, Unity), Unity) = g
  BY <1>1, UnityInLowestTerms, FractionsAreExact, MinusPlusUnity
<1>3. Plus(Unity, Minus(g, Unity)) = g
  BY <1>2, UnityPlus
<1> QED
  BY <1>3 DEF Since, g

LEMMA UntradedGrows ==
  ASSUME NEW hs, NEW n, Consecutive(hs, n), NEW interval \in Nat \ {0},
         NEW j \in DOMAIN CalculateHoldingsReturn(hs, <<>>, interval)
  PROVE  LET r == CalculateHoldingsReturn(hs, <<>>, interval)[j] IN
         Plus(Unity, r.rate) = Fraction(HoldingOn(hs, UpTo(r.to, hs[n].date)).value, hs[1].value)
<1> DEFINE first == hs[1].date
           last  == first + n - 1
           W     == [d \in first .. first + n |-> HoldingOn(hs, UpTo(d, last)).value]
<1>1. /\ n \in Nat \ {0} /\ first \in Int /\ hs[n].date = last
      /\ \A i \in 1 .. n : hs[i].value \in Int /\ One <= hs[i].value
      /\ One \in Nat \ {0}
  BY AccountAssumption DEF Consecutive
<1>2. /\ \A i \in 1 .. n : HoldingOn(hs, first + i - 1) = hs[i]
      /\ HoldingOn(hs, first + n) = NoHolding
  BY HoldingOnDay
<1> HIDE DEF first
<1>3. /\ \A i \in 1 .. n : W[first + i - 1] = hs[i].value
      /\ W[first + n] = hs[n].value
  <2>1. ASSUME NEW i \in 1 .. n PROVE W[first + i - 1] = hs[i].value
    <3>1. first + i - 1 \in first .. first + n /\ first + i - 1 <= last
      BY <1>1
    <3>2. UpTo(first + i - 1, last) = first + i - 1
      BY <3>1 DEF UpTo
    <3> QED
      BY <1>2, <3>1, <3>2
  <2>2. first + n \in first .. first + n /\ ~ (first + n <= last)
    BY <1>1
  <2>3. UpTo(first + n, last) = last /\ n \in 1 .. n
    BY <1>1, <2>2 DEF UpTo
  <2>4. HoldingOn(hs, last) = hs[n]
    BY <1>2, <2>3
  <2> QED
    BY <2>1, <2>2, <2>3, <2>4
<1>4. \A d \in first .. first + n : W[d] \in Nat \ {0}
  <2> SUFFICES ASSUME NEW d \in first .. first + n PROVE W[d] \in Nat \ {0}
    OBVIOUS
  <2> HIDE DEF W
  <2>1. CASE d = first + n
    <3>1. n \in 1 .. n
      BY <1>1
    <3> QED
      BY <1>1, <1>3, <2>1, <3>1
  <2>2. CASE d # first + n
    <3> DEFINE i == d - first + 1
    <3>1. i \in 1 .. n /\ d = first + i - 1
      <4>1. n \in Nat /\ first \in Int
        BY <1>1
      <4>2. d \in Int /\ first <= d /\ d < first + n
        BY <2>2, <4>1
      <4> QED
        BY <4>1, <4>2
    <3> HIDE DEF i
    <3>2. W[first + i - 1] = hs[i].value
      BY <1>3, <3>1
    <3>3. hs[i].value \in Nat \ {0}
      BY <1>1, <3>1
    <3> QED
      BY <3>1, <3>2, <3>3
  <2> QED
    BY <2>1, <2>2
<1>5. W \in [first .. first + n -> Nat \ {0}]
  BY <1>4
<1>6. ASSUME NEW i \in 1 .. n
      PROVE  Plus(Unity, DailyRate(hs, <<>>, first + i - 1)) = Fraction(W[first + i], W[first + i - 1])
  <2> HIDE DEF W
  <2> DEFINE d == first + i - 1
  <2>1. d + 1 = first + i
    BY <1>1
  <2>2. HoldingOn(hs, d) = hs[i] /\ W[d] = hs[i].value /\ hs[i].value \in Int /\ One <= hs[i].value
    BY <1>1, <1>2, <1>3
  <2>3. CASE i = n
    <3>1. HoldingOn(hs, d + 1) = NoHolding /\ W[first + i] = hs[i].value
      BY <1>2, <1>3, <2>1, <2>3
    <3>2. NetEndValue(HoldingOn(hs, d + 1), <<>>, d + 1) = Whole(0)
      <4>1. NoHolding.value = 0 /\ 0 \in Int
        BY DEF NoHolding
      <4> QED
        BY <3>1, <4>1, NetOfNothing
    <3> HIDE DEF d
    <3>3. Plus(Unity, DailyRate(hs, <<>>, d)) = Unity
      BY <3>2, RateOfNothing
    <3>4. hs[i].value \in Nat \ {0}
      BY <1>1, <2>2
    <3>5. Fraction(W[first + i], W[d]) = Unity
      BY <2>2, <3>1, <3>4, FractionOfEquals
    <3> QED
      BY <3>3, <3>5 DEF d
  <2>4. CASE i # n
    <3>1. i + 1 \in 1 .. n /\ first + (i + 1) - 1 = first + i
      BY <1>1, <2>4
    <3> DEFINE b == hs[i + 1].value
    <3>2. HoldingOn(hs, first + i) = hs[i + 1] /\ W[first + i] = b /\ b \in Int /\ One <= b
      BY <1>1, <1>2, <1>3, <3>1
    <3>3. NetEndValue(HoldingOn(hs, d + 1), <<>>, d + 1) = Whole(b)
      BY <2>1, <3>2, NetOfNothing
    <3> HIDE DEF b, d
    <3>4. Plus(Unity, DailyRate(hs, <<>>, d)) = Fraction(b, hs[i].value)
      BY <2>2, <3>2, <3>3, RateIsGrowth
    <3> QED
      BY <2>2, <3>2, <3>4 DEF d
  <2> QED
    BY <2>3, <2>4
<1> DEFINE r == CalculateHoldingsReturn(hs, <<>>, interval)[j]
<1>7. r.to \in Int /\ first <= r.to /\ r.rate = Since(W, first, UpTo(r.to, first + n))
  <2> HIDE DEF W
  <2> QED
    BY <1>5, <1>6, HoldingsGrow, ZenonT(60) DEF first
<1> HIDE DEF r
<1> DEFINE u == UpTo(r.to, first + n)
<1>8. u \in first .. first + n /\ UpTo(u, last) = UpTo(r.to, last)
  BY <1>1, <1>7 DEF UpTo
<1>9. W[u] = HoldingOn(hs, UpTo(r.to, last)).value /\ W[u] \in Nat \ {0}
  BY <1>4, <1>8
<1>10. W[first] = hs[1].value /\ W[first] \in Nat \ {0}
  <2> HIDE DEF W
  <2>1. 1 \in 1 .. n /\ first + 1 - 1 = first /\ first \in first .. first + n
    BY <1>1
  <2>2. W[first + 1 - 1] = hs[1].value
    BY <1>3, <2>1
  <2> QED
    BY <1>4, <2>1, <2>2
<1> HIDE DEF W, u
<1>11. Plus(Unity, r.rate) = Fraction(W[u], W[first])
  BY <1>7, <1>9, <1>10, UnityPlusSince DEF u
<1> QED
  BY <1>1, <1>9, <1>10, <1>11 DEF r

-----------------------------------------------------------------------------
(***************************************************************************)
(* Assets that are bought and sold at one price.                           *)
(***************************************************************************)
\* Transactions as they are read back: without their values.
Movements(ts) ==
  /\ ts \in Seq(ToSet(ts))
  /\ \A i \in DOMAIN ts : ts[i].date \in Int /\ ts[i].value = 0 /\ ts[i].units \in Int

\* The units moved, transaction by transaction.
MovesByPlace(moved, transactions, d, n) ==
  /\ moved[0] = 0
  /\ \A k \in 1 .. n :
       moved[k] = IF transactions[k].date = d THEN moved[k - 1] + transactions[k].units
                  ELSE moved[k - 1]
  /\ \A k \in 0 .. n : moved[k] \in Int
  /\ UnitsMoved(transactions, d) = moved[n]

IsMoved(iter, transactions, d, n) ==
  iter = [s \in SUBSET (1 .. n) |->
           IF s = {} THEN 0
           ELSE IF transactions[Max(s)].date = d
                THEN iter[s \ {Max(s)}] + transactions[Max(s)].units
                ELSE iter[s \ {Max(s)}]]

LEMMA MovedFolds ==
  ASSUME NEW transactions, NEW d, NEW n, DOMAIN transactions = 1 .. n
  PROVE  UnitsMoved(transactions, d) = (CHOOSE iter : IsMoved(iter, transactions, d, n))[1 .. n]
BY DEF UnitsMoved, FoldLeft, MapThenFoldSet, IsMoved

LEMMA MovedExists ==
  ASSUME NEW transactions, NEW d, NEW n \in Nat, \A i \in 1 .. n : transactions[i].units \in Int
  PROVE  \E iter \in [SUBSET (1 .. n) -> Int] : IsMoved(iter, transactions, d, n)
<1> DEFINE on(i) == transactions[i].date = d
           next  == [i \in 1 .. n |-> [x \in Int |-> IF on(i) THEN x + transactions[i].units ELSE x]]
<1>1. next \in [1 .. n -> [Int -> Int]]
  <2> HIDE DEF on
  <2> QED
    OBVIOUS
<1>2. \A i \in 1 .. n : \A x \in Int :
        next[i][x] = IF on(i) THEN x + transactions[i].units ELSE x
  OBVIOUS
<1> HIDE DEF on, next
<1>3. PICK iter \in [SUBSET (1 .. n) -> Int] : IsFold(iter, n, 0, next)
  <2>1. 0 \in Int
    OBVIOUS
  <2> QED
    BY <1>1, <2>1, FoldExists
<1>4. ASSUME NEW s \in SUBSET (1 .. n), s # {}
      PROVE  next[Max(s)][iter[s \ {Max(s)}]]
               = IF on(Max(s)) THEN iter[s \ {Max(s)}] + transactions[Max(s)].units
                 ELSE iter[s \ {Max(s)}]
  <2>1. Max(s) \in s
    BY <1>4, MaxExists
  <2>2. Max(s) \in 1 .. n /\ iter[s \ {Max(s)}] \in Int
    BY <1>3, <2>1
  <2> QED
    BY <1>2, <2>2
<1>5. iter = [s \in SUBSET (1 .. n) |->
               IF s = {} THEN 0
               ELSE IF on(Max(s)) THEN iter[s \ {Max(s)}] + transactions[Max(s)].units
                    ELSE iter[s \ {Max(s)}]]
  BY <1>3, <1>4 DEF IsFold
<1> QED
  BY <1>5 DEF IsMoved, on

LEMMA MovedByTransaction ==
  ASSUME NEW transactions, NEW d, NEW n \in Nat, DOMAIN transactions = 1 .. n,
         \A i \in 1 .. n : transactions[i].units \in Int
  PROVE  \E moved : MovesByPlace(moved, transactions, d, n)
<1> DEFINE iter  == CHOOSE i : IsMoved(i, transactions, d, n)
           moved == [k \in 0 .. n |-> iter[1 .. k]]
           units(k) == transactions[k].units
<1>1. IsMoved(iter, transactions, d, n)
  BY MovedExists
<1>2. UnitsMoved(transactions, d) = iter[1 .. n]
  BY MovedFolds
<1> HIDE DEF iter
<1>3. moved[0] = 0
  <2>1. 1 .. 0 = {} /\ {} \in SUBSET (1 .. n) /\ 0 \in 0 .. n
    OBVIOUS
  <2>2. iter[{}] = 0
    BY <1>1, <2>1 DEF IsMoved
  <2> QED
    BY <2>1, <2>2
<1>4. ASSUME NEW k \in 1 .. n
      PROVE  moved[k] = IF transactions[k].date = d THEN moved[k - 1] + units(k) ELSE moved[k - 1]
  <2> DEFINE s == 1 .. k
  <2>1. k \in Nat \ {0} /\ k \in s /\ \A j \in s : j \in 1 .. n
    OBVIOUS
  <2>2. Max(s) = k /\ s \ {k} = 1 .. k - 1
    BY <2>1, PrefixMax
  <2> HIDE DEF s
  <2>3. s \in SUBSET (1 .. n) /\ s # {}
    BY <2>1
  <2>4. iter[s] = IF transactions[Max(s)].date = d
                  THEN iter[s \ {Max(s)}] + units(Max(s)) ELSE iter[s \ {Max(s)}]
    BY <1>1, <2>3 DEF IsMoved
  <2> HIDE DEF units
  <2>5. iter[s] = IF transactions[k].date = d THEN iter[1 .. k - 1] + units(k) ELSE iter[1 .. k - 1]
    BY <2>2, <2>4
  <2>6. k \in 0 .. n /\ k - 1 \in 0 .. n
    OBVIOUS
  <2> QED
    BY <2>5, <2>6 DEF s
<1>5. UnitsMoved(transactions, d) = moved[n]
  BY <1>2
<1> HIDE DEF moved
<1> DEFINE S == {k \in Nat : k <= n => moved[k] \in Int}
<1>6. 0 \in S
  BY <1>3
<1>7. ASSUME NEW k \in Nat, k \in S PROVE k + 1 \in S
  <2> SUFFICES ASSUME k + 1 <= n PROVE moved[k + 1] \in Int
    OBVIOUS
  <2>1. k + 1 \in 1 .. n /\ (k + 1) - 1 = k /\ moved[k] \in Int
    BY <1>7
  <2>2. units(k + 1) \in Int
    BY <2>1
  <2> HIDE DEF units
  <2>3. moved[k + 1] = IF transactions[k + 1].date = d THEN moved[k] + units(k + 1) ELSE moved[k]
    BY <1>4, <2>1
  <2> QED
    BY <2>1, <2>2, <2>3
<1>8. \A k \in Nat : k \in S
  <2> HIDE DEF S
  <2> QED
    BY <1>6, <1>7, NatSetInduction
<1>9. \A k \in 0 .. n : moved[k] \in Int
  BY <1>8
<1> QED
  BY <1>3, <1>4, <1>5, <1>9 DEF MovesByPlace

\* A transaction without a value is worth its units at the end's price.
LEMMA WorthAtThePrice ==
  ASSUME NEW t, NEW ending, t.value = 0, t.units \in Int, ending.value \in Int,
         ending.units \in Nat
  PROVE  LET w == TransactionValue(t, ending) IN
         /\ InLowestTerms(w)
         /\ ending.units # 0 => w.num * ending.units = (t.units * ending.value) * w.den
         /\ ending.units = 0 => w = Whole(0)
<1> DEFINE w == TransactionValue(t, ending)
           u == t.units
           v == ending.value
           e == ending.units
<1>1. CASE e = 0
  <2>1. w = Whole(0)
    BY <1>1 DEF TransactionValue
  <2> QED
    BY <1>1, <2>1, WholeInLowestTerms
<1>2. CASE e # 0 /\ u = 0
  <2>1. w = Whole(0)
    BY <1>2 DEF TransactionValue
  <2>2. w.num = 0 /\ w.den = 1 /\ 0 * e = (0 * v) * 1
    BY <2>1 DEF Whole
  <2> QED
    BY <1>2, <2>1, <2>2, WholeInLowestTerms
<1>3. CASE e # 0 /\ u # 0
  <2>1. w = Fraction(u * v, e)
    BY <1>3 DEF TransactionValue
  <2>2. u * v \in Int /\ e \in Int \ {0}
    BY <1>3
  <2> DEFINE uv == u * v
  <2>3. uv \in Int
    BY <2>2
  <2>4. w = Fraction(uv, e)
    BY <2>1
  <2> HIDE DEF uv, w
  <2>5. InLowestTerms(w) /\ w.num * e = uv * w.den
    BY <2>2, <2>3, <2>4, FractionIsExact
  <2> QED
    BY <1>3, <2>5 DEF uv, w
<1> QED
  BY <1>1, <1>2, <1>3

\* One more transaction at the end's price.
MovedAt(p, v, e, m) == InLowestTerms(p) /\ p.num * e = (v * (e - m)) * p.den

LEMMA MoveMore ==
  ASSUME NEW p, NEW w, NEW v \in Int, NEW e \in Nat \ {0}, NEW m \in Int, NEW u \in Int,
         MovedAt(p, v, e, m), InLowestTerms(w), w.num * e = (u * v) * w.den
  PROVE  MovedAt(Minus(p, w), v, e, m + u)
<1> DEFINE r == Minus(p, w)
           D == p.den * w.den
<1>1. /\ InLowestTerms(p) /\ p.num \in Int /\ p.den \in Nat \ {0}
      /\ w.num \in Int /\ w.den \in Nat \ {0}
      /\ p.num * e = (v * (e - m)) * p.den
  BY DEF MovedAt, InLowestTerms
<1>2. InLowestTerms(r) /\ r.num * D = (p.num * w.den - w.num * p.den) * r.den
  BY <1>1, FractionsAreExact
<1>3. r.num \in Int /\ r.den \in Int
  BY <1>2 DEF InLowestTerms
<1> HIDE DEF r
<1> DEFINE a == p.num
           b == p.den
           c == w.num
           d == w.den
           x == r.num
           y == r.den
           g == v * (e - m)
           h == u * v
<1>4. /\ a \in Int /\ b \in Int /\ c \in Int /\ d \in Int /\ x \in Int /\ y \in Int
      /\ g \in Int /\ h \in Int /\ D \in Int \ {0}
  <2>1. g \in Int /\ h \in Int
    OBVIOUS
  <2>2. \A i, j \in Nat \ {0} : i * j \in Int \ {0}
    OBVIOUS
  <2> QED
    BY <1>1, <1>3, <2>1, <2>2
<1>5. a * e = g * b /\ c * e = h * d /\ x * (b * d) = (a * d - c * b) * y
  BY <1>1, <1>2
<1>6. v * (e - (m + u)) = g - h
  OBVIOUS
<1>7. b * d = D
  OBVIOUS
<1> HIDE DEF a, b, c, d, x, y, g, h, D
<1>8. (a * d - c * b) * e = (g - h) * D
  <2>1. (a * d - c * b) * e = (a * e) * d - (c * e) * b
    BY <1>4
  <2>2. (g * b) * d - (h * d) * b = (g - h) * (b * d)
    BY <1>4
  <2> QED
    BY <1>5, <1>7, <2>1, <2>2
<1>9. D * (x * e) = D * ((g - h) * y)
  <2> DEFINE k == a * d - c * b
  <2>1. k \in Int
    BY <1>4
  <2>2. x * D = k * y
    BY <1>5, <1>7
  <2>3. k * e = (g - h) * D
    BY <1>8
  <2> HIDE DEF k
  <2>4. D * (x * e) = (x * D) * e /\ (k * y) * e = (k * e) * y
    BY <1>4, <2>1
  <2>5. ((g - h) * D) * y = D * ((g - h) * y)
    BY <1>4
  <2> QED
    BY <2>2, <2>3, <2>4, <2>5
<1>10. x * e = (g - h) * y
  <2>1. x * e \in Int /\ (g - h) * y \in Int
    BY <1>4
  <2> QED
    BY <1>4, <1>9, <2>1, Cancel
<1>11. r.num * e = (v * (e - (m + u))) * r.den
  BY <1>6, <1>10 DEF x, y
<1> QED
  BY <1>2, <1>11 DEF MovedAt, r

\* What is left of the end value is what the rest of the units is worth.
LEMMA NetOfMovements ==
  ASSUME NEW ending, ending.value \in Int, ending.units \in Nat \ {0},
         NEW ts, Movements(ts), NEW d
  PROVE  /\ UnitsMoved(ts, d) \in Int
         /\ MovedAt(NetEndValue(ending, ts, d), ending.value, ending.units, UnitsMoved(ts, d))
<1> DEFINE n == Len(ts)
           v == ending.value
           e == ending.units
           worth(i) == TransactionValue(ts[i], ending)
<1>1. n \in Nat /\ DOMAIN ts = 1 .. n
  BY DEF Movements
<1> HIDE DEF n
<1>2. \A i \in 1 .. n : ts[i].value = 0 /\ ts[i].units \in Int
  BY <1>1 DEF Movements
<1>3. \A i \in 1 .. n : InLowestTerms(worth(i)) /\ worth(i).num * e = (ts[i].units * v) * worth(i).den
  BY <1>2, WorthAtThePrice
<1>4. PICK net : NetsByPlace(net, ending, ts, d, n)
  <2>1. \A i \in 1 .. n : InLowestTerms(TransactionValue(ts[i], ending))
    BY <1>3
  <2> QED
    BY <1>1, <2>1, NetByTransaction
<1>5. PICK moved : MovesByPlace(moved, ts, d, n)
  BY <1>1, <1>2, MovedByTransaction
<1> DEFINE S == {k \in Nat : k <= n => MovedAt(net[k], v, e, moved[k])}
<1>6. 0 \in S
  <2>1. net[0] = Whole(v) /\ moved[0] = 0
    BY <1>4, <1>5 DEF NetsByPlace, MovesByPlace
  <2>2. v * e = (v * (e - 0)) * 1
    OBVIOUS
  <2>3. Whole(v).num = v /\ Whole(v).den = 1
    BY DEF Whole
  <2> QED
    BY <2>1, <2>2, <2>3, WholeInLowestTerms DEF MovedAt
<1>7. ASSUME NEW k \in Nat, k \in S PROVE k + 1 \in S
  <2> SUFFICES ASSUME k + 1 <= n PROVE MovedAt(net[k + 1], v, e, moved[k + 1])
    OBVIOUS
  <2>1. k + 1 \in 1 .. n /\ (k + 1) - 1 = k /\ k \in 0 .. n /\ MovedAt(net[k], v, e, moved[k])
    BY <1>1, <1>7
  <2> DEFINE w == worth(k + 1)
             u == ts[k + 1].units
  <2>2. InLowestTerms(w) /\ w.num * e = (u * v) * w.den /\ u \in Int
    BY <1>2, <1>3, <2>1
  <2>3. net[k + 1] = IF ts[k + 1].date = d THEN Minus(net[k], w) ELSE net[k]
    BY <1>4, <2>1 DEF NetsByPlace
  <2>4. moved[k + 1] = IF ts[k + 1].date = d THEN moved[k] + u ELSE moved[k]
    BY <1>5, <2>1 DEF MovesByPlace
  <2>5. moved[k] \in Int
    BY <1>5, <2>1 DEF MovesByPlace
  <2> HIDE DEF w, u, v, e
  <2>6. MovedAt(Minus(net[k], w), v, e, moved[k] + u)
    BY <2>1, <2>2, <2>5, MoveMore DEF v, e
  <2> QED
    BY <2>1, <2>3, <2>4, <2>6
<1>8. \A k \in Nat : k \in S
  <2> HIDE DEF S
  <2> QED
    BY <1>6, <1>7, NatSetInduction
<1>9. MovedAt(net[n], v, e, moved[n]) /\ moved[n] \in Int
  <2>1. n \in S /\ n \in 0 .. n
    BY <1>1, <1>8
  <2> QED
    BY <1>1, <1>5, <2>1 DEF MovesByPlace
<1> QED
  BY <1>4, <1>5, <1>9 DEF NetsByPlace, MovesByPlace

LEMMA FractionOfNothing == Fraction(0, 1) = Whole(0)
<1>1. InLowestTerms(Fraction(0, 1)) /\ Fraction(0, 1).num * 1 = 0 * Fraction(0, 1).den
  BY FractionIsExact
<1>2. InLowestTerms(Whole(0)) /\ Whole(0).num = 0 /\ Whole(0).den = 1
  BY WholeInLowestTerms DEF Whole
<1>3. Fraction(0, 1).num * Whole(0).den = Whole(0).num * Fraction(0, 1).den
  BY <1>1, <1>2
<1> QED
  BY <1>1, <1>2, <1>3, FractionIsUnique

\* A day that ends without the asset ends with nothing, whatever is sold on it.
LEMMA NetWithoutHolding ==
  ASSUME NEW ts, Movements(ts), NEW d
  PROVE  NetEndValue(NoHolding, ts, d) = Whole(0)
<1> DEFINE n == Len(ts)
<1>1. n \in Nat /\ DOMAIN ts = 1 .. n
  BY DEF Movements
<1> HIDE DEF n
<1>2. NoHolding.value = 0 /\ NoHolding.units = 0 /\ 0 \in Int /\ 0 \in Nat
  BY DEF NoHolding
<1>3. \A i \in 1 .. n : TransactionValue(ts[i], NoHolding) = Whole(0)
  BY <1>1, <1>2 DEF TransactionValue, Movements
<1>4. PICK net : NetsByPlace(net, NoHolding, ts, d, n)
  <2>1. \A i \in 1 .. n : InLowestTerms(TransactionValue(ts[i], NoHolding))
    BY <1>2, <1>3, WholeInLowestTerms
  <2> QED
    BY <1>1, <1>2, <2>1, NetByTransaction
<1>5. Minus(Whole(0), Whole(0)) = Whole(0)
  <2>1. Fraction(0, 1) = Whole(0)
    BY FractionOfNothing
  <2>2. 0 * 1 - 0 * 1 = 0 /\ 1 * 1 = 1
    OBVIOUS
  <2> QED
    BY <2>1, <2>2 DEF Minus, Whole
<1> DEFINE S == {k \in Nat : k <= n => net[k] = Whole(0)}
<1>6. 0 \in S
  BY <1>2, <1>4 DEF NetsByPlace
<1>7. ASSUME NEW k \in Nat, k \in S PROVE k + 1 \in S
  <2> SUFFICES ASSUME k + 1 <= n PROVE net[k + 1] = Whole(0)
    OBVIOUS
  <2>1. k + 1 \in 1 .. n /\ (k + 1) - 1 = k /\ net[k] = Whole(0)
    BY <1>1, <1>7
  <2> QED
    BY <1>3, <1>4, <1>5, <2>1 DEF NetsByPlace
<1>8. \A k \in Nat : k \in S
  <2> HIDE DEF S
  <2> QED
    BY <1>6, <1>7, NatSetInduction
<1> QED
  BY <1>1, <1>4, <1>8 DEF NetsByPlace

\* A worth of v for u units has the price of v1 for u1 units.
Priced(v, u, v1, u1) == v * u1 = v1 * u

\* From one day to the next at one price: the end value without the movements is
\* the start value.
LEMMA NetAtOnePrice ==
  ASSUME NEW ending, ending.value \in Int, ending.units \in Nat \ {0},
         NEW ts, Movements(ts), NEW d,
         NEW v1 \in Int, NEW u1 \in Nat \ {0}, NEW sv \in Int, NEW su \in Int,
         Priced(sv, su, v1, u1), Priced(ending.value, ending.units, v1, u1),
         ending.units = su + UnitsMoved(ts, d)
  PROVE  NetEndValue(ending, ts, d) = Whole(sv)
<1> DEFINE net == NetEndValue(ending, ts, d)
           v == ending.value
           e == ending.units
           m == UnitsMoved(ts, d)
<1>1. m \in Int /\ MovedAt(net, v, e, m)
  BY NetOfMovements
<1>2. v \in Int /\ e \in Nat \ {0} /\ v * u1 = v1 * e /\ sv * u1 = v1 * su /\ e = su + m
  BY DEF Priced
<1> HIDE DEF net, v, e, m
<1>3. InLowestTerms(net) /\ net.num * e = (v * (e - m)) * net.den
  BY <1>1 DEF MovedAt
<1>4. net.num \in Int /\ net.den \in Int
  BY <1>3 DEF InLowestTerms
<1> DEFINE x == net.num
           y == net.den
<1>5. x \in Int /\ y \in Int /\ x * e = (v * su) * y
  <2>1. e - m = su
    BY <1>1, <1>2
  <2> QED
    BY <1>3, <1>4, <2>1
<1> HIDE DEF x, y
<1>6. v * su = sv * e
  <2>1. u1 * (v * su) = (v * u1) * su /\ (v1 * e) * su = (v1 * su) * e
    BY <1>2
  <2>2. (sv * u1) * e = u1 * (sv * e)
    BY <1>2
  <2>3. u1 * (v * su) = u1 * (sv * e)
    BY <1>2, <2>1, <2>2
  <2>4. v * su \in Int /\ sv * e \in Int /\ u1 \in Int \ {0}
    BY <1>2
  <2> QED
    BY <2>3, <2>4, Cancel
<1>7. x = sv * y
  <2>1. e * x = e * (sv * y)
    <3>1. e * x = x * e /\ (sv * e) * y = e * (sv * y)
      BY <1>2, <1>5
    <3> QED
      BY <1>5, <1>6, <3>1
  <2>2. sv * y \in Int /\ e \in Int \ {0}
    BY <1>2, <1>5
  <2> QED
    BY <1>5, <2>1, <2>2, Cancel
<1>8. InLowestTerms(Whole(sv)) /\ Whole(sv).num = sv /\ Whole(sv).den = 1
  BY WholeInLowestTerms DEF Whole
<1>9. net.num * Whole(sv).den = Whole(sv).num * net.den
  <2>1. x * 1 = x
    BY <1>5
  <2> QED
    BY <1>7, <1>8, <2>1 DEF x, y
<1>10. net = Whole(sv)
  BY <1>3, <1>8, <1>9, FractionIsUnique
<1> QED
  BY <1>10 DEF net

\* The holdings of an asset whose every change of units is a transaction, at the
\* price of the first day.
AtOnePrice(hs, n, ts) ==
  /\ \A i \in 1 .. n : /\ hs[i].units \in Nat \ {0}
                       /\ Priced(hs[i].value, hs[i].units, hs[1].value, hs[1].units)
  /\ \A i \in 2 .. n : hs[i].units = hs[i - 1].units + UnitsMoved(ts, hs[i].date)

LEMMA OnePriceEarnsNothing ==
  ASSUME NEW hs, NEW n, Consecutive(hs, n), NEW ts, Movements(ts), AtOnePrice(hs, n, ts),
         NEW interval \in Nat \ {0}, NEW j \in DOMAIN CalculateHoldingsReturn(hs, ts, interval)
  PROVE  CalculateHoldingsReturn(hs, ts, interval)[j].rate = Zero
<1> DEFINE first == hs[1].date
           W     == [d \in first .. first + n |-> 1]
<1>1. /\ n \in Nat \ {0} /\ first \in Int /\ One \in Nat \ {0}
      /\ \A i \in 1 .. n : /\ hs[i].value \in Int /\ One <= hs[i].value
                           /\ hs[i].date = first + i - 1
  BY AccountAssumption DEF Consecutive
<1>2. /\ \A i \in 1 .. n : HoldingOn(hs, first + i - 1) = hs[i]
      /\ HoldingOn(hs, first + n) = NoHolding
  BY HoldingOnDay
<1> HIDE DEF first
<1>3. ASSUME NEW i \in 1 .. n PROVE Plus(Unity, DailyRate(hs, ts, first + i - 1)) = Unity
  <2> DEFINE d == first + i - 1
  <2>1. d + 1 = first + i
    BY <1>1
  <2>2. HoldingOn(hs, d) = hs[i] /\ hs[i].value \in Int /\ One <= hs[i].value
    BY <1>1, <1>2
  <2>3. CASE i = n
    <3>1. HoldingOn(hs, d + 1) = NoHolding
      BY <1>2, <2>1, <2>3
    <3>2. NetEndValue(HoldingOn(hs, d + 1), ts, d + 1) = Whole(0)
      BY <3>1, NetWithoutHolding
    <3> HIDE DEF d
    <3>3. Plus(Unity, DailyRate(hs, ts, d)) = Unity
      BY <3>2, RateOfNothing
    <3> QED
      BY <3>3 DEF d
  <2>4. CASE i # n
    <3> DEFINE k == i + 1
               end == hs[k]
               start == hs[i]
    <3>1. k \in 2 .. n /\ k \in 1 .. n /\ 1 \in 1 .. n /\ k - 1 = i /\ first + k - 1 = d + 1
      BY <1>1, <2>4
    <3>2. HoldingOn(hs, d + 1) = end /\ end.date = d + 1
      BY <1>1, <1>2, <3>1
    <3>3. /\ end.value \in Int /\ start.value \in Int /\ hs[1].value \in Int
          /\ end.units \in Nat \ {0} /\ start.units \in Int /\ hs[1].units \in Nat \ {0}
          /\ Priced(end.value, end.units, hs[1].value, hs[1].units)
          /\ Priced(start.value, start.units, hs[1].value, hs[1].units)
      <4> HIDE DEF k
      <4> QED
        BY <1>1, <3>1 DEF AtOnePrice
    <3>4. end.units = start.units + UnitsMoved(ts, d + 1)
      <4> HIDE DEF k, d
      <4> QED
        BY <3>1, <3>2 DEF AtOnePrice
    <3> HIDE DEF end, start, d
    <3>5. NetEndValue(HoldingOn(hs, d + 1), ts, d + 1) = Whole(start.value)
      <4> DEFINE next == d + 1
                 v1 == hs[1].value
                 u1 == hs[1].units
                 sv == start.value
                 su == start.units
      <4>1. /\ end.value \in Int /\ end.units \in Nat \ {0}
            /\ sv \in Int /\ su \in Int /\ v1 \in Int /\ u1 \in Nat \ {0}
            /\ Priced(sv, su, v1, u1) /\ Priced(end.value, end.units, v1, u1)
            /\ end.units = su + UnitsMoved(ts, next)
        BY <3>3, <3>4
      <4> HIDE DEF next, v1, u1, sv, su
      <4>2. NetEndValue(end, ts, next) = Whole(sv)
        BY <4>1, NetAtOnePrice, SMTT(60)
      <4> QED
        BY <3>2, <4>2 DEF next, sv
    <3>6. HoldingOn(hs, d).value = start.value /\ One <= start.value
      BY <2>2 DEF start
    <3> DEFINE a == start.value
    <3>7. a \in Int /\ a \in Nat \ {0} /\ One <= a /\ HoldingOn(hs, d).value = a
          /\ NetEndValue(HoldingOn(hs, d + 1), ts, d + 1) = Whole(a)
      <4>1. start.value \in Int /\ One <= start.value
        BY <3>3, <3>6
      <4>2. One \in Nat \ {0}
        BY <1>1
      <4>3. start.value \in Nat \ {0}
        BY <4>1, <4>2
      <4> QED
        BY <3>5, <3>6, <4>1, <4>3
    <3> HIDE DEF a
    <3>8. Plus(Unity, DailyRate(hs, ts, d)) = Fraction(a, a)
      BY <3>7, RateIsGrowth
    <3>9. Plus(Unity, DailyRate(hs, ts, d)) = Unity
      BY <3>7, <3>8, FractionOfEquals
    <3> QED
      BY <3>9 DEF d
  <2> QED
    BY <2>3, <2>4
<1>4. \A d \in first .. first + n : W[d] = 1
  OBVIOUS
<1>5. W \in [first .. first + n -> Nat \ {0}]
  OBVIOUS
<1> HIDE DEF W
<1>6. ASSUME NEW i \in 1 .. n
      PROVE  Plus(Unity, DailyRate(hs, ts, first + i - 1)) = Fraction(W[first + i], W[first + i - 1])
  <2>1. first + i \in first .. first + n /\ first + i - 1 \in first .. first + n
    BY <1>1
  <2>2. Fraction(1, 1) = Unity
    BY FractionOfEquals
  <2> QED
    BY <1>3, <1>4, <2>1, <2>2
<1> DEFINE r == CalculateHoldingsReturn(hs, ts, interval)[j]
<1>7. r.to \in Int /\ first <= r.to /\ r.rate = Since(W, first, UpTo(r.to, first + n))
  BY <1>5, <1>6, HoldingsGrow, ZenonT(60) DEF first
<1> HIDE DEF r
<1>8. UpTo(r.to, first + n) \in first .. first + n /\ first \in first .. first + n
  BY <1>1, <1>7 DEF UpTo
<1>9. Since(W, first, UpTo(r.to, first + n)) = Zero
  <2>1. Since(W, first, UpTo(r.to, first + n)) = Minus(Fraction(1, 1), Unity)
    BY <1>4, <1>8 DEF Since
  <2>2. Fraction(1, 1) = Unity
    BY FractionOfEquals
  <2>3. Minus(Unity, Unity) = Zero
    <3>1. Fraction(0, 1) = Zero
      BY FractionOfNothing DEF Zero
    <3>2. 1 * 1 - 1 * 1 = 0 /\ 1 * 1 = 1
      OBVIOUS
    <3> QED
      BY <3>1, <3>2 DEF Minus, Unity, Whole
  <2> QED
    BY <2>1, <2>2, <2>3
<1> QED
  BY <1>7, <1>9 DEF r

\* An entry of a report, and its returns.
LEMMA ReturnsOfEntry ==
  ASSUME ReturnInv, HasReport, NEW p \in Places,
         ReturnsOf(p[1], p[2]) # <<>> \/ Steady(EntryAt(p))
  PROVE  LET e == EntryAt(p) IN
         /\ Interval \in Nat \ {0}
         /\ e.holdings \in Seq(ToSet(e.holdings)) /\ Len(e.holdings) >= 2
         /\ \A j \in DOMAIN e.holdings : /\ e.holdings[j].date \in Int
                                         /\ e.holdings[j].value \in Int /\ e.holdings[j].units \in Int
         /\ \A j \in 2 .. Len(e.holdings) : e.holdings[j - 1].date < e.holdings[j].date
         /\ Movements(e.transactions)
         /\ First(e) \in Int /\ Latest(e) \in Int
         /\ ReturnsOf(p[1], p[2]) = CalculateHoldingsReturn(e.holdings, e.transactions, Interval)
<1> DEFINE e == EntryAt(p)
<1>1. PICK k \in Earning(DOMAIN state.assetsByCategory) :
        p \in {k} \X DOMAIN state.assetsByCategory[k]
  BY DEF Places
<1>2. /\ p[1] = k /\ p[2] \in DOMAIN state.assetsByCategory[k] /\ p = <<k, p[2]>>
      /\ k \in DOMAIN state.assetsByCategory
  BY <1>1 DEF Earning
<1>3. ReturnsOf(p[1], p[2]) = CalculateAssetReturn(e, Interval).returns
  BY <1>2 DEF ReturnInv, ReturnsOf, EntryAt
<1>4. /\ e.holdings \in Seq(ToSet(e.holdings))
      /\ \A j \in DOMAIN e.holdings :
           /\ e.holdings[j].date \in query.from .. query.to
           /\ e.holdings[j].value \in Int /\ e.holdings[j].units \in Int
      /\ \A j \in 2 .. Len(e.holdings) : e.holdings[j - 1].date < e.holdings[j].date
      /\ Movements(e.transactions)
  <2>1. /\ e.holdings \in Seq(ToSet(e.holdings)) /\ e.transactions \in Seq(ToSet(e.transactions))
        /\ \A h \in ToSet(e.holdings) : h.date \in query.from .. query.to /\ h.value \in Int /\ h.units \in Int
        /\ \A j \in 2 .. Len(e.holdings) : e.holdings[j - 1].date < e.holdings[j].date
        /\ \A t \in ToSet(e.transactions) : t.date \in Int /\ t.value = 0 /\ t.units \in Int
    <3>1. ReadInOrder
      BY DEF ReturnInv, HasReport
    <3>2. QED
      BY <1>2, <3>1 DEF ReadInOrder
  <2> HIDE DEF e
  <2> DEFINE hs == e.holdings
             ts == e.transactions
  <2>2. ASSUME NEW j \in DOMAIN hs PROVE hs[j] \in ToSet(hs)
    BY <2>1 DEF ToSet
  <2>3. ASSUME NEW j \in DOMAIN ts PROVE ts[j] \in ToSet(ts)
    BY <2>1 DEF ToSet
  <2>4. Movements(ts)
    BY <2>1, <2>3 DEF Movements
  <2> QED
    BY <2>1, <2>2, <2>4
<1>5. ReturnsOf(p[1], p[2]) # <<>> \/ Len(e.holdings) >= 2
  BY DEF Steady
<1> HIDE DEF e
<1>6. Len(e.holdings) \in Nat /\ DOMAIN e.holdings = 1 .. Len(e.holdings)
  BY <1>4
<1>7. /\ ~ (Len(e.holdings) < 2)
      /\ ReturnsOf(p[1], p[2]) = CalculateHoldingsReturn(e.holdings, e.transactions, Interval)
  <2>1. ~ (Len(e.holdings) < 2)
    <3>1. CASE ReturnsOf(p[1], p[2]) # <<>>
      BY <1>3, <3>1 DEF CalculateAssetReturn
    <3>2. CASE Len(e.holdings) >= 2
      BY <1>6, <3>2
    <3> QED
      BY <1>5, <3>1, <3>2
  <2> QED
    BY <1>3, <2>1 DEF CalculateAssetReturn
<1>8. 1 \in DOMAIN e.holdings /\ Len(e.holdings) \in DOMAIN e.holdings
  BY <1>6, <1>7
<1>9. /\ First(e) \in query.from .. query.to /\ Latest(e) \in query.from .. query.to
      /\ query.from \in Int /\ query.to \in Int
  BY <1>4, <1>8, QueriesAssumption DEF ReturnInv, First, Latest, Last
<1>10. Interval \in Nat \ {0}
  BY <1>9, IntervalIsNatural DEF ReturnInv, Endless
<1>11. \A j \in DOMAIN e.holdings : /\ e.holdings[j].date \in Int
                                   /\ e.holdings[j].value \in Int /\ e.holdings[j].units \in Int
  BY <1>4, <1>9
<1>12. First(e) \in Int /\ Latest(e) \in Int /\ Len(e.holdings) >= 2
  BY <1>6, <1>7, <1>9
<1> QED
  BY <1>4, <1>7, <1>10, <1>11, <1>12 DEF e

LEMMA ReturnInvariance == Spec => []ReturnInv
<1>1. Init => ReturnInv
  BY DEF Init, ReturnInv, HasReport
<1>2. ReturnInv /\ [Next]_vars => ReturnInv'
  BY ReturnsStay
<1> QED
  BY <1>1, <1>2, PTL DEF Spec

(***************************************************************************)
(* What a sync stored of the broker's answers, the queries give back as    *)
(* one holding a day for each entry, in order and within the range, and    *)
(* its movements, for all books and ranges.                                *)
(***************************************************************************)
THEOREM TablesAreReadInOrder == Spec => [](stage # "asked" => ReadInOrder)
<1>1. ReturnInv => (stage # "asked" => ReadInOrder)
  BY DEF ReturnInv
<1> QED
  BY <1>1, ReturnInvariance, PTL

(***************************************************************************)
(* The intervals of every return of a report tile the days from the first  *)
(* holding to the last, for all books, intervals and ranges.               *)
(***************************************************************************)
THEOREM ReturnsTileTheRange == Spec => []IntervalsTile
<1>1. ReturnInv => IntervalsTile
  <2> SUFFICES ASSUME ReturnInv, HasReport, NEW p \in Places,
                      ReturnsOf(p[1], p[2]) # <<>>
               PROVE  Tile(ReturnsOf(p[1], p[2]), First(EntryAt(p)), Latest(EntryAt(p)), Interval)
    BY DEF IntervalsTile
  <2> DEFINE e == EntryAt(p)
  <2>1. /\ Interval \in Nat \ {0} /\ First(e) \in Int /\ Latest(e) \in Int
        /\ ReturnsOf(p[1], p[2]) = CalculateHoldingsReturn(e.holdings, e.transactions, Interval)
    BY ReturnsOfEntry
  <2> HIDE DEF e
  <2>2. Tile(ReturnsOf(p[1], p[2]), First(e), Latest(e), Interval)
    BY <2>1, HoldingsReturnTiles DEF First, Latest
  <2> QED
    BY <2>2 DEF e
<1> QED
  BY <1>1, ReturnInvariance, PTL

(***************************************************************************)
(* The returns of an asset that is held on every day and not traded are    *)
(* the growth of its value, for all books, intervals and ranges.           *)
(***************************************************************************)
THEOREM ReturnsAreGrowth == Spec => []CumulativeGrowth
<1>1. ReturnInv => CumulativeGrowth
  <2> SUFFICES ASSUME ReturnInv, HasReport, NEW p \in Places,
                      Steady(EntryAt(p)), Untraded(EntryAt(p)), NEW j \in DOMAIN ReturnsOf(p[1], p[2])
               PROVE  LET e == EntryAt(p)
                          r == ReturnsOf(p[1], p[2])[j]
                          end == IF r.to <= Latest(e) THEN r.to ELSE Latest(e)
                      IN  Plus(Unity, r.rate)
                            = Fraction(HoldingOn(e.holdings, end).value, Head(e.holdings).value)
    BY DEF CumulativeGrowth
  <2> DEFINE e == EntryAt(p)
  <2>1. ReturnsOf(p[1], p[2]) # <<>>
    OBVIOUS
  <2>2. /\ Interval \in Nat \ {0}
        /\ e.holdings \in Seq(ToSet(e.holdings)) /\ Len(e.holdings) >= 2
        /\ \A i \in DOMAIN e.holdings : e.holdings[i].date \in Int /\ e.holdings[i].value \in Int
        /\ \A i \in 2 .. Len(e.holdings) : e.holdings[i - 1].date < e.holdings[i].date
        /\ ReturnsOf(p[1], p[2]) = CalculateHoldingsReturn(e.holdings, e.transactions, Interval)
    BY <2>1, ReturnsOfEntry
  <2>3. /\ Latest(e) - First(e) + 1 = Len(e.holdings) /\ e.transactions = <<>>
        /\ \A i \in DOMAIN e.holdings : One <= e.holdings[i].value
    BY AccountAssumption, <2>2 DEF Steady, Untraded
  <2> HIDE DEF e
  <2> DEFINE hs == e.holdings
             n  == Len(hs)
  <2>4. Consecutive(hs, n)
    <3> HIDE DEF hs
    <3> QED BY <2>2, <2>3, SteadyIsConsecutive DEF hs, First, Latest
  <2>5. Latest(e) = hs[n].date /\ Head(hs) = hs[1]
    BY <2>2 DEF Latest, Last
  <2> HIDE DEF hs, n
  <2>6. j \in DOMAIN CalculateHoldingsReturn(hs, <<>>, Interval)
    BY <2>2, <2>3 DEF hs
  <2> DEFINE r == CalculateHoldingsReturn(hs, <<>>, Interval)[j]
  <2>7. Plus(Unity, r.rate) = Fraction(HoldingOn(hs, UpTo(r.to, hs[n].date)).value, hs[1].value)
    BY <2>2, <2>4, <2>6, UntradedGrows
  <2>8. ReturnsOf(p[1], p[2])[j] = r
    BY <2>2, <2>3 DEF hs
  <2> HIDE DEF r
  <2> QED
    BY <2>5, <2>7, <2>8 DEF UpTo, hs, e
<1> QED
  BY <1>1, ReturnInvariance, PTL

(***************************************************************************)
(* An asset that is traded at one price has no return in any interval, for *)
(* all books, ledgers, intervals and ranges.                               *)
(***************************************************************************)
THEOREM TradesAreNotReturns == Spec => []MovementsAreNotReturns
<1>1. ReturnInv => MovementsAreNotReturns
  <2> SUFFICES ASSUME ReturnInv, HasReport, NEW p \in Places,
                      Steady(EntryAt(p)), TradedAtOnePrice(EntryAt(p)),
                      NEW j \in DOMAIN ReturnsOf(p[1], p[2])
               PROVE  ReturnsOf(p[1], p[2])[j].rate = Zero
    BY DEF MovementsAreNotReturns
  <2> DEFINE e == EntryAt(p)
  <2>1. ReturnsOf(p[1], p[2]) # <<>>
    OBVIOUS
  <2>2. /\ Interval \in Nat \ {0}
        /\ e.holdings \in Seq(ToSet(e.holdings)) /\ Len(e.holdings) >= 2
        /\ \A i \in DOMAIN e.holdings : /\ e.holdings[i].date \in Int
                                        /\ e.holdings[i].value \in Int /\ e.holdings[i].units \in Int
        /\ \A i \in 2 .. Len(e.holdings) : e.holdings[i - 1].date < e.holdings[i].date
        /\ Movements(e.transactions)
        /\ ReturnsOf(p[1], p[2]) = CalculateHoldingsReturn(e.holdings, e.transactions, Interval)
    BY <2>1, ReturnsOfEntry
  <2>3. /\ Latest(e) - First(e) + 1 = Len(e.holdings)
        /\ \A i \in DOMAIN e.holdings : One <= e.holdings[i].value
    BY AccountAssumption, <2>2 DEF Steady
  <2>4. TradedAtOnePrice(e)
    OBVIOUS
  <2> HIDE DEF e
  <2> DEFINE hs == e.holdings
             ts == e.transactions
             n  == Len(hs)
  <2>5. Consecutive(hs, n)
    <3> HIDE DEF hs
    <3> QED BY <2>2, <2>3, SteadyIsConsecutive DEF hs, First, Latest
  <2>6. /\ n \in Nat /\ n >= 2 /\ DOMAIN hs = 1 .. n
        /\ \A i \in 1 .. n : hs[i].value \in Int /\ hs[i].units \in Int
    BY <2>2
  <2>7. \A i \in 2 .. n : /\ hs[i].units > 0 /\ hs[1].units > 0
                          /\ hs[i].value * hs[1].units = hs[1].value * hs[i].units
                          /\ hs[i].units = hs[i - 1].units + UnitsMoved(ts, hs[i].date)
    BY <2>4 DEF TradedAtOnePrice
  <2> HIDE DEF hs, n
  <2>8. AtOnePrice(hs, n, ts)
    <3>1. 2 \in 2 .. n /\ 1 \in 1 .. n
      BY <2>6
    <3>2. ASSUME NEW i \in 1 .. n
          PROVE  /\ hs[i].units \in Nat \ {0}
                 /\ Priced(hs[i].value, hs[i].units, hs[1].value, hs[1].units)
      <4>1. CASE i = 1
        <5>1. hs[1].units \in Nat \ {0}
          BY <2>6, <2>7, <3>1
        <5> QED
          BY <4>1, <5>1 DEF Priced
      <4>2. CASE i # 1
        <5>1. i \in 2 .. n
          BY <2>6, <4>2
        <5>2. hs[i].units \in Nat \ {0}
          BY <2>6, <2>7, <5>1
        <5>3. hs[i].value * hs[1].units = hs[1].value * hs[i].units
          BY <2>7, <5>1
        <5> QED
          BY <5>2, <5>3 DEF Priced
      <4> QED
        BY <4>1, <4>2
    <3> QED
      BY <2>7, <3>2 DEF AtOnePrice
  <2>9. Movements(ts) /\ Interval \in Nat \ {0} /\ j \in DOMAIN CalculateHoldingsReturn(hs, ts, Interval)
    BY <2>2 DEF hs
  <2>10. CalculateHoldingsReturn(hs, ts, Interval)[j].rate = Zero
    <3> HIDE DEF ts
    <3> QED BY <2>5, <2>8, <2>9, OnePriceEarnsNothing
  <2> QED
    BY <2>2, <2>10 DEF hs
<1> QED
  BY <1>1, ReturnInvariance, PTL

-----------------------------------------------------------------------------
(***************************************************************************)
(* Sums of fractions, term by term.                                        *)
(***************************************************************************)
SumsByTerm(sum, fractions, n) ==
  /\ sum[0] = Zero
  /\ \A k \in 1 .. n : sum[k] = Plus(sum[k - 1], fractions[k])
  /\ SumOf(fractions) = sum[n]

IsSum(iter, fractions, n) ==
  iter = [s \in SUBSET (1 .. n) |->
           IF s = {} THEN Zero ELSE Plus(iter[s \ {Max(s)}], fractions[Max(s)])]

LEMMA SumFolds ==
  ASSUME NEW fractions, NEW n, DOMAIN fractions = 1 .. n
  PROVE  SumOf(fractions) = (CHOOSE iter : IsSum(iter, fractions, n))[1 .. n]
BY DEF SumOf, FoldLeft, MapThenFoldSet, IsSum

LEMMA SumExists ==
  ASSUME NEW n \in Nat, NEW fractions, \A i \in 1 .. n : InLowestTerms(fractions[i])
  PROVE  \E iter : IsSum(iter, fractions, n)
<1> DEFINE base == Zero
           next == [i \in 1 .. n |-> [x \in Rationals |-> Plus(x, fractions[i])]]
<1>1. base \in Rationals
  BY WholeInLowestTerms DEF Rationals, InLowestTerms, Zero
<1>2. \A i \in 1 .. n : \A x \in Rationals : Plus(x, fractions[i]) \in Rationals
  <2> SUFFICES ASSUME NEW i \in 1 .. n, NEW x \in Rationals PROVE Plus(x, fractions[i]) \in Rationals
    OBVIOUS
  <2>1. InLowestTerms(x) /\ InLowestTerms(fractions[i])
    BY DEF Rationals
  <2>2. InLowestTerms(Plus(x, fractions[i]))
    BY <2>1, FractionsAreExact
  <2> QED
    BY <2>2 DEF Rationals, InLowestTerms
<1> HIDE DEF base
<1>3. next \in [1 .. n -> [Rationals -> Rationals]]
  BY <1>2
<1>4. \A i \in 1 .. n : \A x \in Rationals : next[i][x] = Plus(x, fractions[i])
  OBVIOUS
<1> HIDE DEF next
<1>5. PICK iter \in [SUBSET (1 .. n) -> Rationals] : IsFold(iter, n, base, next)
  BY <1>1, <1>3, FoldExists
<1>6. ASSUME NEW s \in SUBSET (1 .. n), s # {}
      PROVE  next[Max(s)][iter[s \ {Max(s)}]] = Plus(iter[s \ {Max(s)}], fractions[Max(s)])
  <2>1. Max(s) \in s
    BY <1>6, MaxExists
  <2>2. Max(s) \in 1 .. n /\ iter[s \ {Max(s)}] \in Rationals
    BY <1>5, <2>1
  <2> QED
    BY <1>4, <2>2
<1>7. iter = [s \in SUBSET (1 .. n) |->
               IF s = {} THEN base ELSE Plus(iter[s \ {Max(s)}], fractions[Max(s)])]
  BY <1>5, <1>6 DEF IsFold
<1> QED
  BY <1>7 DEF IsSum, base

LEMMA SumByTerm ==
  ASSUME NEW n \in Nat, NEW fractions, DOMAIN fractions = 1 .. n,
         \A i \in 1 .. n : InLowestTerms(fractions[i])
  PROVE  \E sum : SumsByTerm(sum, fractions, n)
<1> DEFINE iter == CHOOSE i : IsSum(i, fractions, n)
           sum  == [k \in 0 .. n |-> iter[1 .. k]]
<1>1. IsSum(iter, fractions, n)
  BY SumExists
<1>2. SumOf(fractions) = iter[1 .. n]
  BY SumFolds
<1> HIDE DEF iter
<1>3. sum[0] = Zero
  <2>1. 1 .. 0 = {} /\ {} \in SUBSET (1 .. n) /\ 0 \in 0 .. n
    OBVIOUS
  <2>2. iter[{}] = Zero
    BY <1>1, <2>1 DEF IsSum
  <2> QED
    BY <2>1, <2>2
<1>4. ASSUME NEW k \in 1 .. n PROVE sum[k] = Plus(sum[k - 1], fractions[k])
  <2> DEFINE s == 1 .. k
  <2>1. k \in Nat \ {0} /\ k \in s /\ \A j \in s : j \in 1 .. n
    OBVIOUS
  <2>2. Max(s) = k /\ s \ {k} = 1 .. k - 1
    BY <2>1, PrefixMax
  <2> HIDE DEF s
  <2>3. s \in SUBSET (1 .. n) /\ s # {}
    BY <2>1
  <2>4. iter[s] = Plus(iter[s \ {Max(s)}], fractions[Max(s)])
    BY <1>1, <2>3 DEF IsSum
  <2>5. iter[s] = Plus(iter[1 .. k - 1], fractions[k])
    BY <2>2, <2>4
  <2>6. k \in 0 .. n /\ k - 1 \in 0 .. n
    OBVIOUS
  <2> QED
    BY <2>5, <2>6 DEF s
<1>5. SumOf(fractions) = sum[n]
  BY <1>2
<1> HIDE DEF sum
<1> QED
  BY <1>3, <1>4, <1>5 DEF SumsByTerm

(***************************************************************************)
(* The weighted total of some rates lies between the least and the         *)
(* greatest, when every weight is positive.                                *)
(***************************************************************************)
LEMMA TotalLiesBetween ==
  ASSUME NEW n \in Nat \ {0}, NEW weighted, NEW weights, NEW rates,
         DOMAIN weighted = 1 .. n, DOMAIN weights = 1 .. n,
         \A i \in 1 .. n : /\ InLowestTerms(rates[i]) /\ Positive(weights[i])
                           /\ weighted[i] = Times(rates[i], weights[i])
  PROVE  LET total == WeightedTotal(SumOf(weighted), SumOf(weights)) IN
         /\ \E i \in 1 .. n : AtMost(rates[i], total)
         /\ \E i \in 1 .. n : AtMost(total, rates[i])
<1>1. \A i \in 1 .. n : InLowestTerms(weights[i]) /\ InLowestTerms(weighted[i])
  BY TimesIsExact DEF Positive
<1>2. n \in Nat
  OBVIOUS
<1>3. PICK S : SumsByTerm(S, weighted, n)
  BY <1>1, <1>2, SumByTerm
<1>4. PICK W : SumsByTerm(W, weights, n)
  BY <1>1, <1>2, SumByTerm
<1> DEFINE upTo(k) == {rates[i] : i \in 1 .. k}
           T == {k \in Nat : k + 1 <= n => Between(S[k + 1], W[k + 1], upTo(k + 1))}
<1>5. 0 \in T
  <2>1. 1 \in 1 .. n /\ 0 + 1 = 1 /\ 1 - 1 = 0 /\ upTo(1) = {rates[1]}
    <3>1. 1 .. 1 = {1} /\ 1 \in 1 .. n
      OBVIOUS
    <3> QED
      BY <3>1
  <2>2. S[1] = Plus(Zero, Times(rates[1], weights[1])) /\ W[1] = Plus(Zero, weights[1])
    BY <1>3, <1>4, <2>1 DEF SumsByTerm
  <2>3. Between(Plus(Zero, Times(rates[1], weights[1])), Plus(Zero, weights[1]), {rates[1]})
    BY <2>1, FirstTerm
  <2> HIDE DEF upTo
  <2> QED
    BY <2>1, <2>2, <2>3
<1>6. ASSUME NEW k \in Nat, k \in T PROVE k + 1 \in T
  <2> SUFFICES ASSUME (k + 1) + 1 <= n PROVE Between(S[(k + 1) + 1], W[(k + 1) + 1], upTo((k + 1) + 1))
    OBVIOUS
  <2> DEFINE j == (k + 1) + 1
             old == upTo(k + 1)
  <2>1. j \in 1 .. n /\ j - 1 = k + 1 /\ k + 1 <= n
    OBVIOUS
  <2>2. Between(S[k + 1], W[k + 1], old)
    BY <1>6, <2>1
  <2>3. upTo(j) = old \cup {rates[j]}
    <3>1. 1 .. j = (1 .. k + 1) \cup {j}
      OBVIOUS
    <3> HIDE DEF j
    <3> QED
      BY <3>1
  <2>4. \A q \in old : InLowestTerms(q)
    <3>1. \A i \in 1 .. k + 1 : i \in 1 .. n
      BY <2>1
    <3> QED
      BY <3>1
  <2> HIDE DEF j, old, upTo
  <2>5. /\ S[j] = Plus(S[k + 1], Times(rates[j], weights[j]))
        /\ W[j] = Plus(W[k + 1], weights[j])
    BY <1>3, <1>4, <2>1 DEF SumsByTerm
  <2>6. Between(Plus(S[k + 1], Times(rates[j], weights[j])), Plus(W[k + 1], weights[j]), old \cup {rates[j]})
    BY <2>1, <2>2, <2>4, AnotherTerm
  <2> QED
    BY <2>3, <2>5, <2>6 DEF j
<1>7. \A k \in Nat : k \in T
  <2> HIDE DEF T
  <2> QED
    BY <1>5, <1>6, NatSetInduction
<1>8. Between(SumOf(weighted), SumOf(weights), upTo(n))
  <2>1. n - 1 \in Nat /\ (n - 1) + 1 = n /\ n <= n
    OBVIOUS
  <2>2. (n - 1) \in T
    BY <1>7, <2>1
  <2>3. Between(S[n], W[n], upTo(n))
    BY <2>1, <2>2
  <2> QED
    BY <1>3, <1>4, <2>3 DEF SumsByTerm
<1>9. \A q \in upTo(n) : InLowestTerms(q)
  OBVIOUS
<1> DEFINE s == SumOf(weighted)  w == SumOf(weights)  rs == upTo(n)
<1> HIDE DEF s, w, rs
<1>10. WeightedTotal(s, w) = Over(s, w)
  <2>1. Positive(w) /\ w.den \in Nat \ {0} /\ w.num \in Int
    BY <1>8 DEF Between, Positive, InLowestTerms, s, w, rs
  <2>2. ~ AtMost(w, Zero)
    <3>1. AtMost(w, Zero) <=> w.num * 1 <= 0 * w.den
      BY DEF AtMost, Zero, Whole
    <3> QED
      BY <2>1, <3>1 DEF Positive
  <2> QED
    BY <2>2 DEF WeightedTotal
<1>11. /\ \E r \in rs : AtMost(r, Over(s, w))
       /\ \E r \in rs : AtMost(Over(s, w), r)
  BY <1>8, <1>9, MeanLiesBetween DEF s, w, rs
<1> QED
  BY <1>10, <1>11 DEF s, w, rs

(***************************************************************************)
(* Every return is a fraction in lowest terms, whatever is traded.         *)
(***************************************************************************)
Amounts(hs) ==
  /\ Len(hs) \in Nat /\ DOMAIN hs = 1 .. Len(hs)
  /\ \A i \in DOMAIN hs : hs[i].value \in Int /\ hs[i].units \in Int

LEMMA HoldingOnTyped ==
  ASSUME NEW hs, Amounts(hs), NEW d
  PROVE  HoldingOn(hs, d).value \in Int /\ HoldingOn(hs, d).units \in Int
<1> DEFINE found == {i \in DOMAIN hs : hs[i].date = d}
           n == Len(hs)
<1>1. n \in Nat /\ DOMAIN hs = 1 .. n /\ \A i \in 1 .. n : hs[i].value \in Int /\ hs[i].units \in Int
  BY DEF Amounts
<1>2. found \in SUBSET (1 .. n)
  BY <1>1
<1>3. HoldingOn(hs, d) = IF found = {} THEN NoHolding ELSE hs[Max(found)]
  BY DEF HoldingOn
<1> HIDE DEF found, n
<1>4. CASE found = {}
  BY <1>3, <1>4 DEF NoHolding
<1>5. CASE found # {}
  <2>1. Max(found) \in 1 .. n
    BY <1>1, <1>2, <1>5, MaxExists
  <2> QED
    BY <1>1, <1>3, <1>5, <2>1
<1> QED
  BY <1>4, <1>5

LEMMA WorthTyped ==
  ASSUME NEW t, NEW ending, t.value = 0, t.units \in Int, ending.value \in Int, ending.units \in Int
  PROVE  InLowestTerms(TransactionValue(t, ending))
<1>1. CASE ending.units = 0 \/ t.units = 0
  <2>1. TransactionValue(t, ending) = Whole(0)
    BY <1>1 DEF TransactionValue
  <2> QED
    BY <2>1, WholeInLowestTerms
<1>2. CASE ending.units # 0 /\ t.units # 0
  <2>1. TransactionValue(t, ending) = Fraction(t.units * ending.value, ending.units)
    BY <1>2 DEF TransactionValue
  <2> DEFINE n == t.units * ending.value
             e == ending.units
  <2>2. n \in Int /\ e \in Int \ {0}
    BY <1>2
  <2> HIDE DEF n, e
  <2>3. InLowestTerms(Fraction(n, e))
    BY <2>2, FractionIsExact
  <2> QED
    BY <2>1, <2>3 DEF n, e
<1> QED
  BY <1>1, <1>2

LEMMA NetTyped ==
  ASSUME NEW ending, ending.value \in Int, ending.units \in Int, NEW ts, Movements(ts), NEW d
  PROVE  InLowestTerms(NetEndValue(ending, ts, d))
<1> DEFINE n == Len(ts)
<1>1. n \in Nat /\ DOMAIN ts = 1 .. n
  BY DEF Movements
<1> HIDE DEF n
<1>2. \A i \in 1 .. n : ts[i].value = 0 /\ ts[i].units \in Int
  BY <1>1 DEF Movements
<1>3. \A i \in 1 .. n : InLowestTerms(TransactionValue(ts[i], ending))
  BY <1>2, WorthTyped
<1>4. PICK net : NetsByPlace(net, ending, ts, d, n)
  BY <1>1, <1>3, NetByTransaction
<1>5. n \in 0 .. n
  BY <1>1
<1> QED
  BY <1>4, <1>5 DEF NetsByPlace

LEMMA DailyRateTyped ==
  ASSUME NEW hs, Amounts(hs), NEW ts, Movements(ts), NEW d
  PROVE  InLowestTerms(DailyRate(hs, ts, d))
<1> DEFINE a     == HoldingOn(hs, d).value
           start == Whole(a)
           end   == NetEndValue(HoldingOn(hs, d + 1), ts, d + 1)
<1>1. a \in Int /\ InLowestTerms(start)
  BY HoldingOnTyped, WholeInLowestTerms
<1>2. InLowestTerms(end)
  BY HoldingOnTyped, NetTyped
<1>3. DailyRate(hs, ts, d) = IF Small(start) \/ Small(end) THEN Zero ELSE Over(Minus(end, start), start)
  BY DEF DailyRate
<1>4. ASSUME ~ Small(start) PROVE a # 0
  BY <1>4, AccountAssumption DEF Small, AtMost, Whole
<1> HIDE DEF end
<1>5. CASE Small(start) \/ Small(end)
  BY <1>3, <1>5, WholeInLowestTerms DEF Zero
<1>6. CASE ~ (Small(start) \/ Small(end))
  <2>1. a \in Int \ {0} /\ start.num = a /\ start.den = 1 /\ 1 \in Int
    BY <1>1, <1>4, <1>6 DEF Whole
  <2> HIDE DEF start, a
  <2>2. InLowestTerms(Minus(end, start)) /\ InLowestTerms(Fraction(1, a))
    BY <1>1, <1>2, <2>1, FractionsAreExact, FractionIsExact
  <2>3. DailyRate(hs, ts, d) = Times(Minus(end, start), Fraction(1, a))
    BY <1>3, <1>6, <2>1 DEF Over
  <2>4. InLowestTerms(Times(Minus(end, start), Fraction(1, a)))
    BY <2>2, TimesIsExact
  <2> QED
    BY <2>3, <2>4
<1> QED
  BY <1>5, <1>6

\* What is collapsed of fractions are fractions.
Rated(acc) ==
  /\ InLowestTerms(acc.compound)
  /\ \A j \in 1 .. Len(acc.closed) : InLowestTerms(acc.closed[j].rate)

LEMMA CloseRates ==
  ASSUME NEW acc, NEW T, acc.closed \in Seq(T), Rated(acc)
  PROVE  \A j \in DOMAIN CloseInterval(acc) : InLowestTerms(CloseInterval(acc)[j].rate)
<1> DEFINE m == Len(acc.closed)
           rs == CloseInterval(acc)
           r  == [from |-> acc.from, to |-> acc.to, rate |-> Minus(acc.compound, Unity)]
<1>1. rs = Append(acc.closed, r)
  BY DEF CloseInterval
<1>2. InLowestTerms(r.rate)
  <2>1. InLowestTerms(Minus(acc.compound, Unity))
    BY FractionsAreExact, UnityInLowestTerms DEF Rated
  <2> QED
    BY <2>1
<1> HIDE DEF r
<1>3. acc.closed \in Seq(T \cup {r}) /\ r \in T \cup {r}
  OBVIOUS
<1>4. /\ m \in Nat /\ DOMAIN rs = 1 .. m + 1
      /\ rs[m + 1] = r /\ \A j \in 1 .. m : rs[j] = acc.closed[j]
  BY <1>1, <1>3
<1>5. \A j \in 1 .. m : InLowestTerms(acc.closed[j].rate)
  BY DEF Rated
<1> HIDE DEF rs, m
<1>6. ASSUME NEW j \in 1 .. m + 1 PROVE InLowestTerms(rs[j].rate)
  <2>1. CASE j = m + 1
    BY <1>2, <1>4, <2>1
  <2>2. CASE j # m + 1
    <3>1. j \in 1 .. m
      BY <1>4, <2>2
    <3> QED
      BY <1>4, <1>5, <3>1
  <2> QED
    BY <2>1, <2>2
<1> QED
  BY <1>4, <1>6 DEF rs

LEMMA AddRates ==
  ASSUME NEW acc, NEW first \in Int, NEW day \in Int, NEW interval \in Nat \ {0},
         TilesTo(acc, first, day, interval), Rated(acc), NEW r, InLowestTerms(r.rate)
  PROVE  Rated(AddReturn(acc, r, interval))
<1>1. InLowestTerms(Compound(acc.compound, r))
  <2>1. InLowestTerms(Plus(Unity, r.rate))
    BY FractionsAreExact, UnityInLowestTerms
  <2> QED
    BY <2>1, TimesIsExact DEF Compound, Rated
<1>2. PICK T : acc.closed \in Seq(T)
  BY DEF TilesTo
<1>3. CASE Within(r, acc.to)
  <2> DEFINE new == [acc EXCEPT !.compound = Compound(@, r)]
  <2>1. new.closed = acc.closed /\ new.compound = Compound(acc.compound, r)
    BY DEF TilesTo
  <2> HIDE DEF new
  <2>2. Rated(new)
    BY <1>1, <2>1 DEF Rated
  <2> QED
    BY <1>3, <2>2 DEF AddReturn, new
<1>4. CASE ~ Within(r, acc.to)
  <2> DEFINE rs  == CloseInterval(acc)
             new == [closed |-> rs, from |-> acc.to, to |-> acc.to + interval,
                     compound |-> Compound(acc.compound, r)]
  <2>1. \A j \in DOMAIN rs : InLowestTerms(rs[j].rate)
    BY <1>2, CloseRates
  <2>2. \E U : rs \in Seq(U)
    BY CloseTiles
  <2> HIDE DEF rs
  <2>3. DOMAIN rs = 1 .. Len(rs)
    BY <2>2
  <2>4. new.closed = rs /\ new.compound = Compound(acc.compound, r)
    OBVIOUS
  <2> HIDE DEF new
  <2>5. Rated(new)
    BY <1>1, <2>1, <2>3, <2>4 DEF Rated
  <2> QED
    BY <1>4, <2>5 DEF AddReturn, new, rs
<1> QED
  BY <1>3, <1>4

LEMMA CollapsedRates ==
  ASSUME NEW daily, NEW first \in Int, NEW n \in Nat \ {0}, NEW interval \in Nat \ {0},
         Daily(daily, first, n), \A i \in 1 .. n : InLowestTerms(daily[i].rate)
  PROVE  /\ \E T : CollapseReturnsByInterval(daily, interval) \in Seq(T)
         /\ \A j \in DOMAIN CollapseReturnsByInterval(daily, interval) :
              InLowestTerms(CollapseReturnsByInterval(daily, interval)[j].rate)
<1>1. PICK accs : CollapsesByDay(accs, daily, first, n, interval)
  BY CollapsedByDay
<1>2. \A k \in 1 .. n : TilesTo(accs[k], first, first + k - 1, interval)
  BY <1>1 DEF CollapsesByDay
<1> DEFINE S == {k \in Int : Rated(accs[k])}
<1>3. 1 \in S
  <2> DEFINE base == FirstInterval(daily[1], interval)
             new  == [base EXCEPT !.compound = Compound(@, daily[1])]
  <2>1. daily[1].from = first /\ 1 \in 1 .. n
    BY DEF Daily
  <2>2. base = [closed |-> <<>>, from |-> first, to |-> first + interval, compound |-> Unity]
    BY <2>1 DEF FirstInterval
  <2>3. Within(daily[1], base.to)
    BY <2>1, <2>2 DEF Within
  <2>4. accs[1] = new
    BY <1>1, <2>3 DEF CollapsesByDay, AddReturn
  <2>5. new = [closed |-> <<>>, from |-> first, to |-> first + interval,
               compound |-> Compound(Unity, daily[1])]
    BY <2>2
  <2> HIDE DEF new, base
  <2>6. InLowestTerms(Compound(Unity, daily[1]))
    <3>1. InLowestTerms(daily[1].rate)
      BY <2>1
    <3>2. InLowestTerms(Plus(Unity, daily[1].rate))
      BY <3>1, FractionsAreExact, UnityInLowestTerms
    <3> QED
      BY <3>2, TimesIsExact, UnityInLowestTerms DEF Compound
  <2>7. Len(new.closed) = 0 /\ new.compound = Compound(Unity, daily[1])
    BY <2>5
  <2>8. Rated(new)
    BY <2>6, <2>7 DEF Rated
  <2> QED
    BY <2>4, <2>8
<1>4. ASSUME NEW d \in 2 .. n, d - 1 \in S PROVE d \in S
  <2> DEFINE acc == accs[d - 1]
             day == first + (d - 1) - 1
  <2>1. d \in 1 .. n /\ d - 1 \in 1 .. n /\ day \in Int
    OBVIOUS
  <2>2. TilesTo(acc, first, day, interval) /\ Rated(acc) /\ InLowestTerms(daily[d].rate)
    BY <1>2, <1>4, <2>1
  <2>3. accs[d] = AddReturn(acc, daily[d], interval)
    BY <1>1 DEF CollapsesByDay
  <2> HIDE DEF acc, day
  <2>4. Rated(AddReturn(acc, daily[d], interval))
    BY <2>1, <2>2, AddRates
  <2> QED
    BY <2>3, <2>4
<1>5. n \in S
  <2> DEFINE from == 2
  <2>1. from - 1 \in S /\ from \in Int /\ n \in Int
    BY <1>3
  <2>2. \A d \in from .. n : d - 1 \in S => d \in S
    BY <1>4
  <2> HIDE DEF S, from
  <2>3. \A d \in from .. n : d \in S
    BY <2>1, <2>2, DayInduction
  <2> QED
    BY <1>3, <2>3 DEF from
<1>6. TilesTo(accs[n], first, first + n - 1, interval) /\ Rated(accs[n])
  BY <1>2, <1>5
<1>7. PICK T : accs[n].closed \in Seq(T)
  BY <1>6 DEF TilesTo
<1>8. CollapseReturnsByInterval(daily, interval) = CloseInterval(accs[n])
  BY <1>1 DEF CollapsesByDay
<1>9. \E U : CloseInterval(accs[n]) \in Seq(U)
  <2> DEFINE last == first + n - 1
  <2>1. last \in Int /\ TilesTo(accs[n], first, last, interval)
    BY <1>6
  <2> HIDE DEF last
  <2> QED
    BY <2>1, CloseTiles
<1> QED
  BY <1>6, <1>7, <1>8, <1>9, CloseRates

LEMMA HoldingsRates ==
  ASSUME NEW hs, NEW n, Consecutive(hs, n), Amounts(hs), NEW ts, Movements(ts),
         NEW interval \in Nat \ {0}
  PROVE  /\ \E T : CalculateHoldingsReturn(hs, ts, interval) \in Seq(T)
         /\ \A j \in DOMAIN CalculateHoldingsReturn(hs, ts, interval) :
              InLowestTerms(CalculateHoldingsReturn(hs, ts, interval)[j].rate)
<1> DEFINE first == hs[1].date
           daily == [i \in 1 .. n |->
                      [from |-> first + i - 1, to |-> first + i,
                       rate |-> DailyRate(hs, ts, first + i - 1)]]
<1>1. /\ n \in Nat \ {0} /\ first \in Int /\ Head(hs) = hs[1] /\ Last(hs) = hs[n]
      /\ hs[n].date = first + n - 1
  BY DEF Consecutive, Last
<1>2. hs[n].date - first + 1 = n
  <2> HIDE DEF first
  <2>1. \A f \in Int : \A k \in Nat : (f + k - 1) - f + 1 = k
    OBVIOUS
  <2> QED
    BY <1>1, <2>1
<1>3. CalculateHoldingsReturn(hs, ts, interval) = CollapseReturnsByInterval(daily, interval)
  BY <1>1, <1>2 DEF CalculateHoldingsReturn
<1>4. Daily(daily, first, n)
  BY DEF Daily
<1>5. \A i \in 1 .. n : InLowestTerms(daily[i].rate)
  BY DailyRateTyped
<1> HIDE DEF daily, first
<1> QED
  BY <1>1, <1>3, <1>4, <1>5, CollapsedRates

(***************************************************************************)
(* Nothing is left out: of the items at some places, of the members of a   *)
(* set, of sequences one after the other.                                  *)
(***************************************************************************)
LEMMA ItemsAreThere ==
  ASSUME NEW T, NEW items \in Seq(T), NEW places \in SUBSET (DOMAIN items), NEW i \in places
  PROVE  items[i] \in ToSet(ItemsAt(items, places))
<1>1. Len(items) \in Nat /\ DOMAIN items = 1 .. Len(items)
  OBVIOUS
<1>2. places \in SUBSET Int /\ IsFiniteSet(places)
  <2>1. IsFiniteSet(1 .. Len(items))
    BY <1>1, FS_Interval
  <2>2. places \in SUBSET (1 .. Len(items))
    BY <1>1
  <2>3. places \in SUBSET Int
    BY <2>2
  <2> QED
    BY <2>1, <2>2, <2>3, FS_Subset
<1> DEFINE kept == InOrder(places)
           n == Cardinality(places)
<1>3. n \in Nat /\ kept \in [1 .. n -> places] /\ \A x \in places : \E j \in 1 .. n : kept[j] = x
  BY <1>2, InOrderSorts DEF Sorts
<1>4. ItemsAt(items, places) = [j \in 1 .. n |-> items[kept[j]]]
  BY <1>3 DEF ItemsAt
<1>5. PICK j \in 1 .. n : kept[j] = i
  BY <1>3
<1> HIDE DEF kept, n
<1>6. j \in DOMAIN ItemsAt(items, places) /\ ItemsAt(items, places)[j] = items[i]
  BY <1>4, <1>5
<1> QED
  BY <1>6 DEF ToSet

LEMMA SetToSeqCovers ==
  ASSUME NEW S, IsFiniteSet(S)
  PROVE  /\ \A x \in S : \E i \in 1 .. Cardinality(S) : SetToSeq(S)[i] = x
         /\ \A i, j \in 1 .. Cardinality(S) : SetToSeq(S)[i] = SetToSeq(S)[j] => i = j
<1> DEFINE n == Cardinality(S)
           s == SetToSeq(S)
<1>1. n \in Nat /\ ExistsBijection(1 .. n, S)
  BY FS_CardinalityType
<1>2. \E f \in [1 .. n -> S] : IsInjective(f)
  BY <1>1 DEF ExistsBijection, Bijection, Injection
<1>3. s \in [1 .. n -> S] /\ IsInjective(s)
  BY <1>2 DEF SetToSeq
<1>4. s \in Injection(1 .. n, S)
  BY <1>3 DEF Injection, IsInjective
<1>5. IsFiniteSet(1 .. n) /\ Cardinality(1 .. n) = n
  <2>1. IsFiniteSet(1 .. n) /\ Cardinality(1 .. n) = IF 1 > n THEN 0 ELSE n - 1 + 1
    BY <1>1, FS_Interval
  <2> QED
    BY <1>1, <2>1
<1>6. s \in Surjection(1 .. n, S)
  <2>1. Cardinality(1 .. n) = Cardinality(S)
    BY <1>5
  <2> HIDE DEF s, n
  <2> QED
    BY <1>4, <1>5, <2>1, FS_Injection
<1> QED
  BY <1>3, <1>6 DEF Surjection, IsInjective

\* The places of the items of a map, or a sequence, of sequences.
Positions(f) == UNION {{k} \X DOMAIN f[k] : k \in DOMAIN f}

\* Every item has a place of its own in a sequence that has no others.
Arranged(pos, f, flat) ==
  /\ pos \in [Positions(f) -> DOMAIN flat]
  /\ \A p, q \in Positions(f) : pos[p] = pos[q] => p = q
  /\ \A x \in DOMAIN flat : \E p \in Positions(f) : pos[p] = x
  /\ \A p \in Positions(f) : flat[pos[p]] = f[p[1]][p[2]]

LEMMA PositionsAre ==
  ASSUME NEW f
  PROVE  /\ \A p \in Positions(f) : p[1] \in DOMAIN f /\ p[2] \in DOMAIN f[p[1]] /\ p = <<p[1], p[2]>>
         /\ \A k \in DOMAIN f : \A i \in DOMAIN f[k] : <<k, i>> \in Positions(f)
BY DEF Positions

\* base[i] is the length of the first i of the sequences.
Placed(base, seqs, n, flat) ==
  /\ base \in [0 .. n -> Nat] /\ base[0] = 0
  /\ \A i \in 1 .. n : base[i] = base[i - 1] + Len(seqs[i])
  /\ DOMAIN flat = 1 .. base[n]
  /\ \A i \in 1 .. n : \A j \in 1 .. Len(seqs[i]) : flat[base[i - 1] + j] = seqs[i][j]

LEMMA FlattenPlaced ==
  ASSUME NEW n \in Nat, NEW T, NEW seqs \in [1 .. n -> Seq(T)]
  PROVE  \E base : Placed(base, seqs, n, FlattenSeq(seqs))
<1>1. CASE n = 0
  <2> DEFINE base == [i \in 0 .. 0 |-> 0]
  <2>1. FlattenSeq(seqs) = seqs /\ DOMAIN seqs = 1 .. 0
    BY <1>1 DEF FlattenSeq
  <2>2. base \in [0 .. n -> Nat] /\ base[0] = 0 /\ base[n] = 0 /\ 1 .. n = {}
    BY <1>1
  <2> HIDE DEF base
  <2>3. Placed(base, seqs, n, FlattenSeq(seqs))
    BY <2>1, <2>2 DEF Placed
  <2> QED
    BY <2>3
<1>2. CASE n # 0
  <2>0. n \in Nat \ {0}
    BY <1>2
  <2>10. FlattensByPlace(seqs, n, T)
    BY <2>0, FlattenByPlace
  <2>1. PICK f \in [1 .. n -> Seq(T)] : /\ FlattenSeq(seqs) = f[n]
                                        /\ f[1] = seqs[1]
                                        /\ \A k \in 2 .. n : f[k] = f[k - 1] \o seqs[k]
    BY <2>10 DEF FlattensByPlace
  <2> DEFINE base == [i \in 0 .. n |-> IF i = 0 THEN 0 ELSE Len(f[i])]
  <2>2. \A k \in 1 .. n : f[k] \in Seq(T) /\ seqs[k] \in Seq(T)
    OBVIOUS
  <2>3. \A k \in 1 .. n : Len(f[k]) \in Nat /\ DOMAIN f[k] = 1 .. Len(f[k]) /\ Len(seqs[k]) \in Nat
    BY <2>2
  <2>4. base \in [0 .. n -> Nat] /\ base[0] = 0 /\ \A k \in 1 .. n : base[k] = Len(f[k])
    BY <2>3
  <2> HIDE DEF base
  <2>5. ASSUME NEW k \in 2 .. n
        PROVE  /\ k \in 1 .. n /\ k - 1 \in 1 .. n
               /\ base[k] = base[k - 1] + Len(seqs[k])
               /\ \A j \in 1 .. base[k - 1] : f[k][j] = f[k - 1][j]
               /\ \A j \in 1 .. Len(seqs[k]) : f[k][base[k - 1] + j] = seqs[k][j]
    <3> DEFINE a == f[k - 1]  b == seqs[k]
    <3>1. k \in 1 .. n /\ k - 1 \in 1 .. n
      OBVIOUS
    <3>2. f[k] = a \o b /\ a \in Seq(T) /\ b \in Seq(T) /\ base[k] = Len(f[k]) /\ base[k - 1] = Len(a)
      BY <2>1, <2>2, <2>4, <3>1
    <3> HIDE DEF a, b
    <3>3. /\ Len(a \o b) = Len(a) + Len(b)
          /\ \A j \in 1 .. Len(a) : (a \o b)[j] = a[j]
          /\ \A j \in 1 .. Len(b) : (a \o b)[Len(a) + j] = b[j]
      <4>1. a \in Seq(T) /\ b \in Seq(T)
        BY <3>2
      <4> QED
        BY <4>1, Concatenation
    <3>4. /\ base[k] = base[k - 1] + Len(b)
          /\ \A j \in 1 .. base[k - 1] : f[k][j] = a[j]
          /\ \A j \in 1 .. Len(b) : f[k][base[k - 1] + j] = b[j]
      BY <3>2, <3>3
    <3> QED
      BY <3>1, <3>4 DEF a, b
  <2>6. \A i \in 1 .. n : base[i] = base[i - 1] + Len(seqs[i])
    <3> SUFFICES ASSUME NEW i \in 1 .. n PROVE base[i] = base[i - 1] + Len(seqs[i])
      OBVIOUS
    <3>1. CASE i = 1
      BY <2>1, <2>3, <2>4, <3>1
    <3>2. CASE i # 1
      <4>1. i \in 2 .. n
        BY <3>2
      <4> QED
        BY <2>5, <4>1
    <3> QED
      BY <3>1, <3>2
  <2>7. ASSUME NEW i \in 1 .. n, NEW j \in 1 .. Len(seqs[i])
        PROVE  f[n][base[i - 1] + j] = seqs[i][j]
    <3> DEFINE y == base[i - 1] + j
               S == {k \in Int : y \in 1 .. base[k] /\ f[k][y] = seqs[i][j]}
               from == i + 1
    <3>1. base[i - 1] \in Nat /\ base[i] \in Nat /\ base[i] = base[i - 1] + Len(seqs[i]) /\ Len(seqs[i]) \in Nat
      BY <2>3, <2>4, <2>6
    <3>2. y \in 1 .. base[i]
      <4> DEFINE u == base[i - 1]  v == base[i]  l == Len(seqs[i])
      <4>1. u \in Nat /\ v = u + l /\ l \in Nat /\ j \in 1 .. l
        BY <3>1
      <4> HIDE DEF u, v, l
      <4>2. u + j \in 1 .. v
        BY <4>1
      <4> QED
        BY <4>2 DEF u, v
    <3>3. i \in S
      <4>1. CASE i = 1
        <5>1. base[i - 1] = 0 /\ y = j
          BY <2>4, <4>1
        <5> QED
          BY <2>1, <3>2, <4>1, <5>1
      <4>2. CASE i # 1
        <5>1. i \in 2 .. n
          BY <4>2
        <5>2. f[i][y] = seqs[i][j]
          BY <2>5, <5>1
        <5> QED
          BY <3>2, <5>2
      <4> QED
        BY <4>1, <4>2
    <3>4. ASSUME NEW k \in from .. n, k - 1 \in S PROVE k \in S
      <4>1. k \in 2 .. n /\ k \in 1 .. n /\ k \in Int
        OBVIOUS
      <4>2. y \in 1 .. base[k - 1] /\ f[k - 1][y] = seqs[i][j]
        BY <3>4
      <4>3. base[k] = base[k - 1] + Len(seqs[k]) /\ f[k][y] = f[k - 1][y]
        BY <2>5, <4>1, <4>2
      <4>4. base[k] \in Nat /\ base[k - 1] \in Nat /\ Len(seqs[k]) \in Nat
        BY <2>3, <2>4, <4>1
      <4> HIDE DEF y, S, from
      <4>5. y \in 1 .. base[k]
        <5> DEFINE u == base[k - 1]  v == base[k]  l == Len(seqs[k])
        <5>1. y \in 1 .. u /\ v = u + l /\ u \in Nat /\ l \in Nat
          BY <4>2, <4>3, <4>4
        <5> HIDE DEF u, v, l
        <5>2. y \in 1 .. v
          BY <5>1
        <5> QED
          BY <5>2 DEF v
      <4>6. f[k][y] = seqs[i][j]
        BY <4>2, <4>3
      <4> QED
        BY <4>1, <4>5, <4>6 DEF S
    <3>5. n \in S
      <4>1. from \in Int /\ n \in Int /\ from - 1 \in S
        BY <3>3
      <4>2. \A k \in from .. n : k \in S
        <5> HIDE DEF S, from
        <5> QED BY <3>4, <4>1, DayInduction
      <4>3. n = i \/ n \in from .. n
        OBVIOUS
      <4> HIDE DEF S, from
      <4> QED
        BY <3>3, <4>2, <4>3
    <3> QED
      BY <3>5
  <2>8. DOMAIN f[n] = 1 .. base[n]
    <3>1. n \in 1 .. n
      BY <2>0
    <3> QED
      BY <2>3, <2>4, <3>1
  <2>9. Placed(base, seqs, n, FlattenSeq(seqs))
    BY <2>1, <2>4, <2>6, <2>7, <2>8 DEF Placed
  <2> QED
    BY <2>9
<1> QED
  BY <1>1, <1>2

LEMMA PlacedApart ==
  ASSUME NEW n \in Nat, NEW base \in [0 .. n -> Nat], NEW len \in [1 .. n -> Nat], base[0] = 0,
         \A i \in 1 .. n : base[i] = base[i - 1] + len[i]
  PROVE  /\ \A i, k \in 0 .. n : i <= k => base[i] <= base[k]
         /\ \A x \in 1 .. base[n] : \E i \in 1 .. n : \E j \in 1 .. len[i] : x = base[i - 1] + j
<1>1. ASSUME NEW i \in 0 .. n, NEW k \in 0 .. n, i <= k PROVE base[i] <= base[k]
  <2> DEFINE S == {m \in Int : base[m] \in Nat /\ base[i] <= base[m]}
             from == i + 1
  <2>1. i \in S
    OBVIOUS
  <2>2. ASSUME NEW m \in from .. n, m - 1 \in S PROVE m \in S
    <3>1. m \in 1 .. n /\ m \in 0 .. n
      OBVIOUS
    <3>2. base[m] = base[m - 1] + len[m] /\ len[m] \in Nat /\ base[m] \in Nat
      BY <3>1
    <3>3. base[m - 1] \in Nat /\ base[i] <= base[m - 1] /\ base[i] \in Nat
      BY <2>2
    <3> QED
      BY <3>1, <3>2, <3>3
  <2>3. from \in Int /\ n \in Int /\ from - 1 \in S
    BY <2>1
  <2>4. \A m \in from .. n : m \in S
    <3> HIDE DEF S, from
    <3> QED BY <2>2, <2>3, DayInduction
  <2>5. CASE i = k
    BY <2>5
  <2>6. CASE i # k
    <3>1. k \in from .. n
      BY <1>1, <2>6
    <3> QED
      BY <2>4, <3>1
  <2> QED
    BY <2>5, <2>6
<1>2. ASSUME NEW x \in 1 .. base[n]
      PROVE  \E i \in 1 .. n : \E j \in 1 .. len[i] : x = base[i - 1] + j
  <2> DEFINE found == \E i \in 1 .. n : \E j \in 1 .. len[i] : x = base[i - 1] + j
             S == {m \in Int : x <= base[m] => found}
             from == 1
  <2>1. 0 \in S
    OBVIOUS
  <2>2. ASSUME NEW m \in from .. n, m - 1 \in S PROVE m \in S
    <3>1. m \in 1 .. n /\ m - 1 \in 0 .. n
      OBVIOUS
    <3>2. base[m] = base[m - 1] + len[m] /\ len[m] \in Nat /\ base[m - 1] \in Nat /\ x \in Nat
      BY <3>1
    <3>3. CASE x <= base[m - 1]
      BY <2>2, <3>1, <3>3
    <3>4. CASE ~ (x <= base[m - 1])
      <4> SUFFICES ASSUME x <= base[m] PROVE found
        BY <3>1
      <4> DEFINE j == x - base[m - 1]
      <4>1. j \in 1 .. len[m] /\ x = base[m - 1] + j
        BY <3>2, <3>4
      <4> HIDE DEF j
      <4> QED
        BY <3>1, <4>1
    <3> QED
      BY <3>3, <3>4
  <2>3. from \in Int /\ n \in Int /\ from - 1 \in S
    BY <2>1
  <2>4. \A m \in from .. n : m \in S
    <3> HIDE DEF S, from
    <3> QED BY <2>2, <2>3, DayInduction
  <2>5. n \in S
    <3>1. CASE n = 0
      BY <2>1, <3>1
    <3>2. CASE n # 0
      BY <2>4, <3>2
    <3> QED
      BY <3>1, <3>2
  <2> QED
    BY <2>5
<1> QED
  BY <1>1, <1>2

LEMMA FlattenArranged ==
  ASSUME NEW n \in Nat, NEW T, NEW seqs \in [1 .. n -> Seq(T)]
  PROVE  \E pos : Arranged(pos, seqs, FlattenSeq(seqs))
<1>1. PICK base : Placed(base, seqs, n, FlattenSeq(seqs))
  BY FlattenPlaced
<1> DEFINE flat == FlattenSeq(seqs)
           len == [i \in 1 .. n |-> Len(seqs[i])]
           pos == [p \in Positions(seqs) |-> base[p[1] - 1] + p[2]]
<1>2. \A i \in 1 .. n : seqs[i] \in Seq(T) /\ Len(seqs[i]) \in Nat /\ DOMAIN seqs[i] = 1 .. Len(seqs[i])
  OBVIOUS
<1>3. len \in [1 .. n -> Nat] /\ \A i \in 1 .. n : len[i] = Len(seqs[i])
  BY <1>2
<1>4. /\ base \in [0 .. n -> Nat] /\ base[0] = 0
      /\ \A i \in 1 .. n : base[i] = base[i - 1] + len[i]
      /\ DOMAIN flat = 1 .. base[n]
      /\ \A i \in 1 .. n : \A j \in 1 .. len[i] : flat[base[i - 1] + j] = seqs[i][j]
  BY <1>1, <1>3 DEF Placed
<1> HIDE DEF len, flat
<1>5. /\ \A i, k \in 0 .. n : i <= k => base[i] <= base[k]
      /\ \A x \in 1 .. base[n] : \E i \in 1 .. n : \E j \in 1 .. len[i] : x = base[i - 1] + j
  BY <1>3, <1>4, PlacedApart
<1>6. /\ \A p \in Positions(seqs) : p[1] \in 1 .. n /\ p[2] \in 1 .. len[p[1]] /\ p = <<p[1], p[2]>>
      /\ \A i \in 1 .. n : \A j \in 1 .. len[i] : <<i, j>> \in Positions(seqs)
  BY <1>2, <1>3, PositionsAre
<1>7. ASSUME NEW i \in 1 .. n, NEW j \in 1 .. len[i]
      PROVE  base[i - 1] + j \in 1 .. base[n] /\ base[i - 1] + j <= base[i] /\ base[i - 1] < base[i - 1] + j
  <2>1. i - 1 \in 0 .. n /\ i \in 0 .. n /\ n \in 0 .. n /\ i <= n
    OBVIOUS
  <2>2. base[i - 1] \in Nat /\ base[i] \in Nat /\ base[n] \in Nat /\ base[i] <= base[n]
    BY <1>4, <1>5, <2>1
  <2> DEFINE a == base[i - 1]  l == len[i]  b == base[i]  c == base[n]
  <2>3. b = a + l /\ l \in Nat /\ j \in 1 .. l
    BY <1>3, <1>4
  <2>4. a \in Nat /\ b \in Nat /\ c \in Nat /\ b <= c
    BY <2>2
  <2> HIDE DEF a, b, c, l
  <2>5. a + j <= b /\ a < a + j
    BY <2>3, <2>4
  <2>6. a + j \in 1 .. c
    BY <2>3, <2>4
  <2> QED
    BY <2>5, <2>6 DEF a, b, c
<1>8. ASSUME NEW i \in 1 .. n, NEW j \in 1 .. len[i], NEW k \in 1 .. n, NEW m \in 1 .. len[k],
             base[i - 1] + j = base[k - 1] + m
      PROVE  i = k /\ j = m
  <2>1. ASSUME NEW a \in 1 .. n, NEW b \in 1 .. len[a], NEW c \in 1 .. n, NEW d \in 1 .. len[c], a < c
        PROVE  base[a - 1] + b < base[c - 1] + d
    <3>1. a \in 0 .. n /\ c - 1 \in 0 .. n /\ a <= c - 1 /\ a - 1 \in 0 .. n
      BY <2>1
    <3>2. base[a] <= base[c - 1]
      BY <1>5, <3>1
    <3>3. base[a - 1] + b <= base[a] /\ base[c - 1] < base[c - 1] + d
      BY <1>7
    <3>4. base[a] \in Nat /\ base[c - 1] \in Nat /\ base[a - 1] \in Nat
      BY <1>4, <3>1
    <3> DEFINE v == base[a]  w == base[c - 1]  y == base[a - 1] + b  z == w + d
    <3>5. y \in Int /\ z \in Int /\ v \in Int /\ w \in Int
      <4>1. len[a] \in Nat /\ len[c] \in Nat
        BY <1>3
      <4>2. b \in Int /\ d \in Int
        <5> DEFINE lb == len[a]  ld == len[c]
        <5>1. lb \in Nat /\ ld \in Nat /\ b \in 1 .. lb /\ d \in 1 .. ld
          BY <4>1
        <5> HIDE DEF lb, ld
        <5> QED
          BY <5>1
      <4> DEFINE u == base[a - 1]
      <4> HIDE DEF v, w, u
      <4>3. v \in Int /\ w \in Int /\ u \in Int
        <5>1. v \in Nat /\ w \in Nat /\ u \in Nat
          BY <3>4 DEF v, w, u
        <5> HIDE DEF y, z
        <5> QED
          BY <5>1
      <4>4. w + d \in Int /\ u + b \in Int
        BY <4>2, <4>3 DEF u
      <4> QED
        BY <4>3, <4>4 DEF u
    <3> HIDE DEF v, w, y, z
    <3>6. y <= v /\ v <= w /\ w < z
      BY <3>2, <3>3 DEF v, w, y, z
    <3>7. y < z
      BY <3>5, <3>6
    <3> QED
      BY <3>7 DEF y, z, w
  <2> DEFINE y == base[i - 1] + j
  <2>2. ~ (i < k) /\ ~ (k < i)
    <3>1. len[i] \in Nat /\ len[k] \in Nat /\ base[i - 1] \in Nat
      BY <1>3, <1>4
    <3>2. j \in Int
      BY <3>1
    <3>3. y \in Int
      BY <3>1, <3>2
    <3>4. y = base[k - 1] + m
      BY <1>8
    <3>5. i < k => y < base[k - 1] + m
      BY <2>1
    <3>6. k < i => base[k - 1] + m < y
      BY <2>1
    <3> HIDE DEF y
    <3> QED
      BY <3>3, <3>4, <3>5, <3>6
  <2>3. i = k
    BY <2>2
  <2>4. base[i - 1] \in Nat /\ j \in Int /\ m \in Int
    BY <1>4
  <2> QED
    BY <1>8, <2>3, <2>4
<1>9. /\ pos \in [Positions(seqs) -> DOMAIN flat]
      /\ \A p \in Positions(seqs) : pos[p] = base[p[1] - 1] + p[2]
  BY <1>4, <1>6, <1>7
<1> HIDE DEF pos
<1>10. ASSUME NEW p \in Positions(seqs), NEW q \in Positions(seqs), pos[p] = pos[q] PROVE p = q
  <2>1. /\ p[1] \in 1 .. n /\ p[2] \in 1 .. len[p[1]] /\ q[1] \in 1 .. n /\ q[2] \in 1 .. len[q[1]]
        /\ p = <<p[1], p[2]>> /\ q = <<q[1], q[2]>>
    BY <1>6
  <2>2. base[p[1] - 1] + p[2] = base[q[1] - 1] + q[2]
    BY <1>9, <1>10
  <2>3. p[1] = q[1] /\ p[2] = q[2]
    BY <1>8, <2>1, <2>2
  <2> QED
    BY <2>1, <2>3
<1>11. ASSUME NEW x \in DOMAIN flat PROVE \E p \in Positions(seqs) : pos[p] = x
  <2>0. PICK i \in 1 .. n : \E j \in 1 .. len[i] : x = base[i - 1] + j
    BY <1>4, <1>5
  <2>1. PICK j \in 1 .. len[i] : x = base[i - 1] + j
    BY <2>0
  <2>2. <<i, j>> \in Positions(seqs)
    BY <1>6
  <2> DEFINE p == <<i, j>>
  <2>3. p \in Positions(seqs) /\ p[1] = i /\ p[2] = j
    BY <2>2
  <2> HIDE DEF p
  <2>4. pos[p] = base[p[1] - 1] + p[2]
    BY <1>9, <2>3
  <2>5. pos[p] = x
    BY <2>1, <2>3, <2>4
  <2> QED
    BY <2>3, <2>5
<1>12. ASSUME NEW p \in Positions(seqs) PROVE flat[pos[p]] = seqs[p[1]][p[2]]
  <2> DEFINE i == p[1]  j == p[2]
  <2>1. i \in 1 .. n /\ j \in 1 .. len[i]
    BY <1>6
  <2>2. pos[p] = base[i - 1] + j
    BY <1>9
  <2> HIDE DEF i, j
  <2>3. flat[base[i - 1] + j] = seqs[i][j]
    BY <1>4, <2>1
  <2>4. flat[pos[p]] = seqs[i][j]
    BY <2>2, <2>3
  <2> QED
    BY <2>4 DEF i, j
<1>13. Arranged(pos, seqs, flat)
  BY <1>9, <1>10, <1>11, <1>12 DEF Arranged
<1> QED
  BY <1>13 DEF flat

\* The items of a map of sequences.
LEMMA FlatArranged ==
  ASSUME NEW f, IsFiniteSet(DOMAIN f), NEW T, \A k \in DOMAIN f : f[k] \in Seq(T)
  PROVE  /\ Flat(f) \in Seq(T)
         /\ \E pos : Arranged(pos, f, Flat(f))
<1> DEFINE S == DOMAIN f
           n == Cardinality(S)
           ks == SetToSeq(S)
           seqs == [i \in DOMAIN ks |-> f[ks[i]]]
           flat == FlattenSeq(seqs)
<1>1. n \in Nat /\ ks \in [1 .. n -> S]
  BY SetToSeqLists
<1>2. /\ \A k \in S : \E i \in 1 .. n : ks[i] = k
      /\ \A i, j \in 1 .. n : ks[i] = ks[j] => i = j
  BY SetToSeqCovers
<1>3. Flat(f) = flat
  BY DEF Flat
<1>4. seqs \in [1 .. n -> Seq(T)] /\ \A i \in 1 .. n : seqs[i] = f[ks[i]]
  BY <1>1
<1> HIDE DEF seqs, n, ks
<1>5. flat \in Seq(T)
  BY <1>1, <1>4, FlattenIsSeq
<1>6. PICK q : Arranged(q, seqs, flat)
  BY <1>1, <1>4, FlattenArranged
<1> HIDE DEF flat
<1> DEFINE at == [k \in S |-> CHOOSE i \in 1 .. n : ks[i] = k]
           pos == [p \in Positions(f) |-> q[<<at[p[1]], p[2]>>]]
<1>7. \A k \in S : at[k] \in 1 .. n /\ ks[at[k]] = k
  BY <1>2
<1>8. \A i \in 1 .. n : ks[i] \in S /\ at[ks[i]] = i
  BY <1>1, <1>2, <1>7
<1> HIDE DEF at
<1>9. DOMAIN seqs = 1 .. n
  BY <1>4
<1>10. /\ \A p \in Positions(f) : /\ p[1] \in S /\ p[2] \in DOMAIN f[p[1]] /\ p = <<p[1], p[2]>>
                                  /\ <<at[p[1]], p[2]>> \in Positions(seqs)
       /\ \A k \in S : \A i \in DOMAIN f[k] : <<k, i>> \in Positions(f)
  <2>1. \A p \in Positions(f) : p[1] \in S /\ p[2] \in DOMAIN f[p[1]] /\ p = <<p[1], p[2]>>
    BY PositionsAre
  <2>2. \A k \in S : \A i \in DOMAIN f[k] : <<k, i>> \in Positions(f)
    BY PositionsAre
  <2>3. ASSUME NEW p \in Positions(f) PROVE <<at[p[1]], p[2]>> \in Positions(seqs)
    <3>1. at[p[1]] \in 1 .. n /\ seqs[at[p[1]]] = f[p[1]]
      BY <1>4, <1>7, <2>1
    <3>2. at[p[1]] \in DOMAIN seqs /\ p[2] \in DOMAIN seqs[at[p[1]]]
      BY <1>9, <2>1, <3>1
    <3> QED
      BY <3>2, PositionsAre
  <2> QED
    BY <2>1, <2>2, <2>3
<1>11. /\ q \in [Positions(seqs) -> DOMAIN flat]
       /\ \A x, y \in Positions(seqs) : q[x] = q[y] => x = y
       /\ \A x \in DOMAIN flat : \E p \in Positions(seqs) : q[p] = x
       /\ \A p \in Positions(seqs) : flat[q[p]] = seqs[p[1]][p[2]]
  BY <1>6 DEF Arranged
<1>12. /\ pos \in [Positions(f) -> DOMAIN flat]
       /\ \A p \in Positions(f) : pos[p] = q[<<at[p[1]], p[2]>>]
  BY <1>10, <1>11
<1> HIDE DEF pos
<1>13. ASSUME NEW x \in Positions(f), NEW y \in Positions(f), pos[x] = pos[y] PROVE x = y
  <2> DEFINE u == <<at[x[1]], x[2]>>  v == <<at[y[1]], y[2]>>
  <2>1. u \in Positions(seqs) /\ v \in Positions(seqs) /\ q[u] = q[v]
    BY <1>10, <1>12, <1>13
  <2>2. u[1] = at[x[1]] /\ u[2] = x[2] /\ v[1] = at[y[1]] /\ v[2] = y[2]
    OBVIOUS
  <2> HIDE DEF u, v
  <2>3. at[x[1]] = at[y[1]] /\ x[2] = y[2]
    BY <1>11, <2>1, <2>2
  <2>4. x[1] \in S /\ y[1] \in S
    BY <1>10
  <2>5. x[1] = y[1]
    BY <1>7, <2>3, <2>4
  <2> QED
    BY <1>10, <2>3, <2>5
<1>14. ASSUME NEW x \in DOMAIN flat PROVE \E p \in Positions(f) : pos[p] = x
  <2>1. PICK y \in Positions(seqs) : q[y] = x
    BY <1>11
  <2>2. y[1] \in 1 .. n /\ y[2] \in DOMAIN seqs[y[1]] /\ y = <<y[1], y[2]>>
    BY <1>9, PositionsAre
  <2>3. ks[y[1]] \in S /\ at[ks[y[1]]] = y[1] /\ y[2] \in DOMAIN f[ks[y[1]]]
    BY <1>4, <1>8, <2>2
  <2> DEFINE p == <<ks[y[1]], y[2]>>
  <2>4. p \in Positions(f) /\ p[1] = ks[y[1]] /\ p[2] = y[2]
    BY <1>10, <2>3
  <2> HIDE DEF p
  <2>5. pos[p] = q[<<y[1], y[2]>>]
    BY <1>12, <2>3, <2>4
  <2> QED
    BY <2>1, <2>2, <2>4, <2>5
<1>15. ASSUME NEW p \in Positions(f) PROVE flat[pos[p]] = f[p[1]][p[2]]
  <2> DEFINE y == <<at[p[1]], p[2]>>
  <2>1. y \in Positions(seqs) /\ pos[p] = q[y] /\ y[1] = at[p[1]] /\ y[2] = p[2]
    BY <1>10, <1>12
  <2>2. seqs[at[p[1]]] = f[p[1]]
    BY <1>4, <1>7, <1>10
  <2> HIDE DEF y
  <2> QED
    BY <1>11, <2>1, <2>2
<1>16. Arranged(pos, f, flat)
  BY <1>12, <1>13, <1>14, <1>15 DEF Arranged
<1> QED
  BY <1>3, <1>5, <1>16

\* What is taken is what is at the places, no more and no less.
LEMMA ItemsOfPlaces ==
  ASSUME NEW T, NEW items \in Seq(T), NEW places \in SUBSET (DOMAIN items)
  PROVE  /\ ItemsAt(items, places) \in Seq(T)
         /\ ToSet(ItemsAt(items, places)) = {items[i] : i \in places}
<1> DEFINE taken == ItemsAt(items, places)
           U == {items[i] : i \in places}
<1>1. taken \in Seq(U)
  BY ItemsAreTaken
<1>2. \A i \in places : items[i] \in ToSet(taken)
  BY ItemsAreThere
<1>3. U \subseteq T
  OBVIOUS
<1>4. U \subseteq ToSet(taken)
  BY <1>2
<1> HIDE DEF taken, U
<1>5. taken \in Seq(T)
  BY <1>1, <1>3
<1>6. ToSet(taken) \subseteq U
  BY <1>1, SequenceOfItself
<1> QED
  BY <1>4, <1>5, <1>6 DEF taken, U

\* The items of s are the values of the members of S, one place for each.
Lists(pos, S, val, s) ==
  /\ pos \in [S -> DOMAIN s]
  /\ \A x, y \in S : pos[x] = pos[y] => x = y
  /\ \A j \in DOMAIN s : \E x \in S : pos[x] = j
  /\ \A x \in S : s[pos[x]] = val[x]

LEMMA TakenLists ==
  ASSUME NEW T, NEW items \in Seq(T), NEW S, NEW val, NEW pos, Lists(pos, S, val, items),
         NEW places \in SUBSET (DOMAIN items), NEW Q, Q = {x \in S : pos[x] \in places}
  PROVE  \E at : Lists(at, Q, val, ItemsAt(items, places))
<1> DEFINE kept == InOrder(places)
           n == Cardinality(places)
           taken == ItemsAt(items, places)
<1>1. places \in SUBSET Int /\ IsFiniteSet(places)
  <2>1. DOMAIN items = 1 .. Len(items) /\ Len(items) \in Nat
    OBVIOUS
  <2>2. IsFiniteSet(DOMAIN items) /\ DOMAIN items \subseteq Int
    BY <2>1, FS_Interval
  <2> QED
    BY <2>2, FS_Subset
<1>2. Sorts(kept, places)
  BY <1>1, InOrderSorts
<1> HIDE DEF kept
<1>3. /\ n \in Nat /\ kept \in [1 .. n -> places]
      /\ \A i, j \in 1 .. n : kept[i] = kept[j] => i = j
      /\ \A x \in places : \E j \in 1 .. n : kept[j] = x
  <2>1. n \in Nat /\ kept \in [1 .. n -> places] /\ \A x \in places : \E j \in 1 .. n : kept[j] = x
    BY <1>2 DEF Sorts
  <2>2. ASSUME NEW i \in 1 .. n, NEW j \in 1 .. n, kept[i] = kept[j] PROVE i = j
    <3>1. i < j => kept[i] < kept[j]
      BY <1>2 DEF Sorts
    <3>2. j < i => kept[j] < kept[i]
      BY <1>2 DEF Sorts
    <3>3. kept[i] \in Int /\ kept[j] \in Int
      BY <1>1, <2>1
    <3> HIDE DEF n
    <3>4. ~ (i < j) /\ ~ (j < i)
      BY <2>2, <3>1, <3>2, <3>3
    <3>5. i \in Int /\ j \in Int
      BY <2>1
    <3> QED
      BY <3>4, <3>5
  <2> QED
    BY <2>1, <2>2
<1>4. taken = [j \in 1 .. n |-> items[kept[j]]]
  BY <1>3 DEF ItemsAt, kept
<1>5. /\ pos \in [S -> DOMAIN items]
      /\ \A x, y \in S : pos[x] = pos[y] => x = y
      /\ \A j \in DOMAIN items : \E x \in S : pos[x] = j
      /\ \A x \in S : items[pos[x]] = val[x]
  BY DEF Lists
<1> HIDE DEF taken, n
<1>6. \A x \in Q : x \in S /\ pos[x] \in places
  OBVIOUS
<1>7. \A x \in S : pos[x] \in places => x \in Q
  OBVIOUS
<1> DEFINE at == [x \in Q |-> CHOOSE j \in 1 .. n : kept[j] = pos[x]]
<1>8. \A x \in Q : at[x] \in 1 .. n /\ kept[at[x]] = pos[x]
  BY <1>3, <1>6
<1>9. DOMAIN taken = 1 .. n /\ \A j \in 1 .. n : taken[j] = items[kept[j]]
  BY <1>4
<1>10. at \in [Q -> DOMAIN taken]
  BY <1>8, <1>9
<1> HIDE DEF at
<1>11. ASSUME NEW x \in Q, NEW y \in Q, at[x] = at[y] PROVE x = y
  <2>1. pos[x] = pos[y]
    BY <1>8, <1>11
  <2> QED
    BY <1>5, <1>6, <2>1
<1>12. ASSUME NEW j \in DOMAIN taken PROVE \E x \in Q : at[x] = j
  <2>1. j \in 1 .. n /\ kept[j] \in places /\ kept[j] \in DOMAIN items
    BY <1>3, <1>9
  <2>2. PICK x \in S : pos[x] = kept[j]
    BY <1>5, <2>1
  <2>3. x \in Q
    BY <1>7, <2>1, <2>2
  <2>4. at[x] = j
    BY <1>3, <1>8, <2>1, <2>2, <2>3
  <2> QED
    BY <2>3, <2>4
<1>13. \A x \in Q : taken[at[x]] = val[x]
  BY <1>5, <1>6, <1>8, <1>9
<1>14. Lists(at, Q, val, taken)
  BY <1>10, <1>11, <1>12, <1>13 DEF Lists
<1> QED
  BY <1>14 DEF taken

\* An asset held on every day has at least a peso on every date of its days.
LEMMA ValueAtDate ==
  ASSUME NEW e, NEW n, e.holdings \in Seq(ToSet(e.holdings)), Consecutive(e.holdings, n), NEW d,
         d \in e.holdings[1].date .. Last(e.holdings).date
  PROVE  /\ getAssetValueAtDate(e, d) = e.holdings[d - e.holdings[1].date + 1].value
         /\ getAssetValueAtDate(e, d) \in Int /\ One <= getAssetValueAtDate(e, d)
<1> DEFINE hs == e.holdings
           first == hs[1].date
           places == {i \in DOMAIN hs : hs[i].date <= d}
           upTo == ItemsAt(hs, places)
           S == ToSet(upTo)
           k == d - first + 1
<1>1. /\ n \in Nat \ {0} /\ DOMAIN hs = 1 .. n /\ Last(hs) = hs[n] /\ first \in Int
      /\ \A i \in 1 .. n : /\ hs[i].date = first + i - 1
                           /\ hs[i].value \in Int /\ One <= hs[i].value
  BY DEF Consecutive, Last
<1>2. hs \in Seq(ToSet(hs))
  OBVIOUS
<1>3. getAssetValueAtDate(e, d)
        = IF upTo = <<>> THEN 0 ELSE (CHOOSE h \in S : \A g \in S : g.date <= h.date).value
  BY DEF getAssetValueAtDate, Select
<1>4. d \in first .. hs[n].date
  BY <1>1
<1> HIDE DEF hs
<1>5. d \in Int /\ first <= d /\ d <= first + n - 1
  <2>1. d \in first .. hs[n].date /\ hs[n].date = first + n - 1
    BY <1>1, <1>4
  <2> HIDE DEF first
  <2> QED
    BY <1>1, <2>1
<1>6. k \in 1 .. n /\ first + k - 1 = d
  BY <1>1, <1>5
<1>7. S = {hs[i] : i \in places} /\ upTo \in Seq(ToSet(hs))
  <2>1. places \in SUBSET (DOMAIN hs)
    OBVIOUS
  <2> HIDE DEF places
  <2> QED
    BY <1>2, <2>1, ItemsOfPlaces
<1>8. hs[k] \in S /\ hs[k].date = d
  <2>1. hs[k].date = d /\ k \in DOMAIN hs
    BY <1>1, <1>6
  <2>2. k \in places
    BY <1>5, <2>1
  <2> QED
    BY <1>7, <2>1, <2>2
<1>9. \A g \in S : g.date <= d /\ g.value \in Int /\ One <= g.value
  BY <1>1, <1>7
<1>15. \A g \in S : g.date \in Int
  BY <1>1, <1>7
<1>10. upTo # <<>>
  BY <1>8 DEF ToSet
<1>13. \A g \in S : g.date = d => g = hs[k]
  <2> SUFFICES ASSUME NEW i \in places, hs[i].date = d PROVE i = k
    BY <1>7
  <2>1. i \in 1 .. n /\ first + i - 1 = d
    BY <1>1
  <2> QED
    BY <1>1, <1>6, <2>1
<1> HIDE DEF S, upTo, k, first
<1>11. \E h \in S : \A g \in S : g.date <= h.date
  BY <1>8, <1>9
<1> DEFINE last == CHOOSE h \in S : \A g \in S : g.date <= h.date
<1>12. last \in S /\ \A g \in S : g.date <= last.date
  BY <1>11
<1> HIDE DEF last
<1>14. last = hs[k]
  <2>1. last.date <= d /\ d <= last.date
    BY <1>8, <1>9, <1>12
  <2>2. last.date \in Int
    <3>1. \A g \in S : g.date \in Int
      BY <1>15
    <3> QED
      BY <1>12, <3>1
  <2> QED
    BY <1>5, <1>12, <1>13, <2>1, <2>2
<1> QED
  BY <1>3, <1>9, <1>10, <1>12, <1>14 DEF last, k, first, hs

\* Where every entry has an id of its own, an id finds its entry.
LEMMA AssetOfID ==
  ASSUME NEW T, NEW assets \in Seq(T), NEW x \in DOMAIN assets,
         \A i, j \in DOMAIN assets : assets[i].id = assets[j].id => i = j
  PROVE  assetByID(assets, assets[x].id) = assets[x]
<1> DEFINE id == assets[x].id
           places == {i \in DOMAIN assets : assets[i].id = id}
           found == ItemsAt(assets, places)
<1>1. assetByID(assets, id) = Last(found)
  BY DEF assetByID, Select
<1>2. places = {x}
  OBVIOUS
<1>3. places \in SUBSET (DOMAIN assets)
  OBVIOUS
<1> HIDE DEF places, id
<1>4. found \in Seq(T) /\ ToSet(found) = {assets[i] : i \in places}
  BY <1>3, ItemsOfPlaces
<1>5. found # <<>>
  BY <1>2, <1>3, ItemsAreTaken
<1> HIDE DEF found
<1>6. Last(found) \in ToSet(found)
  <2>1. Len(found) \in DOMAIN found /\ Last(found) = found[Len(found)]
    BY <1>4, <1>5 DEF Last
  <2> QED
    BY <2>1 DEF ToSet
<1> QED
  BY <1>1, <1>2, <1>4, <1>6 DEF id

\* Intervals that tile some days start on those days.
LEMMA TileWithin ==
  ASSUME NEW T, NEW rs \in Seq(T), rs # <<>>, NEW first \in Int, NEW last \in Int,
         NEW interval \in Nat \ {0}, Tile(rs, first, last, interval)
  PROVE  \A j \in DOMAIN rs : /\ rs[j].from \in first .. last
                              /\ rs[j].to = rs[j].from + interval
<1> DEFINE m == Len(rs)
           S == {j \in Int : rs[j].from \in Int /\ first <= rs[j].from}
           D == {k \in Int : rs[m - k].from <= last}
<1>1. m \in Nat \ {0} /\ DOMAIN rs = 1 .. m /\ Last(rs) = rs[m]
  BY DEF Last
<1>2. /\ rs[1].from = first /\ last \in rs[m].from .. rs[m].to - 1
      /\ \A j \in 1 .. m : rs[j].to = rs[j].from + interval
      /\ \A j \in 2 .. m : rs[j].from = rs[j - 1].to
  BY <1>1 DEF Tile
<1> HIDE DEF m
<1>3. \A j \in 1 .. m : j \in S
  <2> DEFINE from == 2
  <2>1. 1 \in S
    BY <1>2
  <2>2. from \in Int /\ m \in Int /\ from - 1 \in S
    BY <1>1, <2>1
  <2>3. ASSUME NEW j \in from .. m, j - 1 \in S PROVE j \in S
    <3>1. j \in 2 .. m /\ j - 1 \in 1 .. m
      BY <1>1
    <3>2. rs[j].from = rs[j - 1].from + interval
      BY <1>2, <3>1
    <3> QED
      BY <2>3, <3>1, <3>2
  <2> HIDE DEF S, from
  <2>4. \A j \in from .. m : j \in S
    BY <2>2, <2>3, DayInduction
  <2> QED
    BY <1>1, <2>1, <2>4 DEF from
<1>4. \A k \in 0 .. m - 1 : k \in D
  <2> DEFINE from == 1
             to == m - 1
  <2>1. 0 \in D
    <3>1. m \in S /\ m - 0 = m
      BY <1>1, <1>3
    <3> QED
      BY <1>2, <3>1
  <2>2. from \in Int /\ to \in Int /\ from - 1 \in D
    BY <1>1, <2>1
  <2>3. ASSUME NEW k \in from .. to, k - 1 \in D PROVE k \in D
    <3> DEFINE i == m - k
    <3>1. i \in 1 .. m /\ i + 1 \in 2 .. m /\ i + 1 \in 1 .. m /\ m - (k - 1) = i + 1 /\ (i + 1) - 1 = i
      BY <1>1
    <3> HIDE DEF i
    <3>2. rs[i + 1].from = rs[i].from + interval /\ rs[i].from \in Int
      BY <1>2, <1>3, <3>1
    <3>3. rs[i + 1].from <= last
      BY <2>3, <3>1
    <3>4. rs[i].from <= last
      BY <3>2, <3>3
    <3> QED
      BY <3>4 DEF i
  <2> HIDE DEF D, from, to
  <2>4. \A k \in from .. to : k \in D
    BY <2>2, <2>3, DayInduction
  <2> QED
    BY <1>1, <2>1, <2>4 DEF from, to
<1>5. ASSUME NEW j \in 1 .. m PROVE rs[j].from \in first .. last
  <2>1. m - j \in 0 .. m - 1 /\ m - (m - j) = j
    BY <1>1
  <2>2. rs[j].from <= last
    BY <1>4, <2>1
  <2>3. rs[j].from \in Int /\ first <= rs[j].from
    BY <1>3
  <2> QED
    BY <2>2, <2>3
<1> QED
  BY <1>1, <1>2, <1>5

-----------------------------------------------------------------------------
(***************************************************************************)
(* The total of an interval lies between the returns it is made of.        *)
(***************************************************************************)
\* The returns of an entry that is held on every day.
LEMMA SteadyReturns ==
  ASSUME ReturnInv, HasReport, NEW p \in Places, Steady(EntryAt(p))
  PROVE  LET e  == EntryAt(p)
             rs == ReturnsOf(p[1], p[2])
         IN  /\ \E T : rs \in Seq(T)
             /\ \A j \in DOMAIN rs :
                  /\ InLowestTerms(rs[j].rate)
                  /\ rs[j].from \in DOMAIN state.totalHoldings
                  /\ rs[j].from \in Int /\ rs[j].to = rs[j].from + Interval
                  /\ getAssetValueAtDate(e, rs[j].from) \in Nat \ {0}
<1> DEFINE e == EntryAt(p)
           rs == ReturnsOf(p[1], p[2])
<1>1. CASE rs = <<>>
  <2>1. rs \in Seq({}) /\ DOMAIN rs = {}
    BY <1>1
  <2> QED
    BY <2>1
<1>2. CASE rs # <<>>
  <2>1. /\ Interval \in Nat \ {0}
        /\ e.holdings \in Seq(ToSet(e.holdings)) /\ Len(e.holdings) >= 2
        /\ \A i \in DOMAIN e.holdings : /\ e.holdings[i].date \in Int
                                        /\ e.holdings[i].value \in Int /\ e.holdings[i].units \in Int
        /\ \A i \in 2 .. Len(e.holdings) : e.holdings[i - 1].date < e.holdings[i].date
        /\ Movements(e.transactions)
        /\ First(e) \in Int /\ Latest(e) \in Int
        /\ rs = CalculateHoldingsReturn(e.holdings, e.transactions, Interval)
    BY <1>2, ReturnsOfEntry
  <2>2. /\ Latest(e) - First(e) + 1 = Len(e.holdings)
        /\ \A i \in DOMAIN e.holdings : One <= e.holdings[i].value
    BY AccountAssumption, <2>1 DEF Steady
  <2>3. \A h \in ToSet(e.holdings) : h.date \in DOMAIN state.totalHoldings
    <3>1. PICK k \in Earning(DOMAIN state.assetsByCategory) :
            p \in {k} \X DOMAIN state.assetsByCategory[k]
      BY DEF Places
    <3>2. /\ p[2] \in DOMAIN state.assetsByCategory[k] /\ e = EntryAt(<<k, p[2]>>)
          /\ k \in DOMAIN state.assetsByCategory
      BY <3>1 DEF Earning, EntryAt
    <3>3. ReadTotals
      BY DEF ReturnInv, HasReport
    <3> HIDE DEF e
    <3> QED
      BY <3>2, <3>3 DEF ReadTotals
  <2> HIDE DEF e, rs
  <2> DEFINE hs == e.holdings
             ts == e.transactions
             n  == Len(hs)
  <2>4. Consecutive(hs, n)
    <3> HIDE DEF hs
    <3> QED BY <2>1, <2>2, SteadyIsConsecutive DEF hs, First, Latest
  <2>5. Amounts(hs)
    BY <2>1 DEF Amounts
  <2>6. First(e) = hs[1].date /\ Latest(e) = Last(hs).date /\ Head(hs) = hs[1] /\ Last(hs) = hs[n]
    BY <2>1 DEF First, Latest, Last
  <2>7. /\ \E T : rs \in Seq(T)
        /\ \A j \in DOMAIN rs : InLowestTerms(rs[j].rate)
    <3>1. Movements(ts) /\ Interval \in Nat \ {0} /\ rs = CalculateHoldingsReturn(hs, ts, Interval)
      BY <2>1
    <3> HIDE DEF hs, ts, n
    <3> QED
      BY <2>4, <2>5, <3>1, HoldingsRates
  <2>8. Tile(rs, hs[1].date, Last(hs).date, Interval)
    BY <1>2, <2>1, <2>6, HoldingsReturnTiles
  <2>9. \A j \in DOMAIN rs : /\ rs[j].from \in hs[1].date .. Last(hs).date
                             /\ rs[j].to = rs[j].from + Interval
    <3>1. hs[1].date \in Int /\ Last(hs).date \in Int /\ Interval \in Nat \ {0}
      BY <2>1, <2>6
    <3> HIDE DEF hs
    <3> QED
      BY <1>2, <2>7, <2>8, <3>1, TileWithin
  <2>10. ASSUME NEW j \in DOMAIN rs
         PROVE  /\ rs[j].from \in Int /\ rs[j].from \in DOMAIN state.totalHoldings
                /\ getAssetValueAtDate(e, rs[j].from) \in Nat \ {0}
    <3> DEFINE d == rs[j].from
               k == d - hs[1].date + 1
    <3>1. d \in hs[1].date .. Last(hs).date
      BY <2>9
    <3>2. getAssetValueAtDate(e, d) \in Int /\ One <= getAssetValueAtDate(e, d)
      <4>1. hs \in Seq(ToSet(hs))
        BY <2>1
      <4> HIDE DEF d, n
      <4> QED
        BY <2>4, <3>1, <4>1, ValueAtDate
    <3>3. /\ n \in Nat \ {0} /\ DOMAIN hs = 1 .. n /\ hs[1].date \in Int
          /\ \A i \in 1 .. n : hs[i].date = hs[1].date + i - 1
      BY <2>4 DEF Consecutive
    <3> HIDE DEF d, hs, n
    <3>4. n \in 1 .. n
      BY <3>3
    <3>5. Last(hs).date = hs[1].date + n - 1
      BY <2>6, <3>3, <3>4
    <3>6. d \in Int /\ k \in 1 .. n /\ hs[1].date + k - 1 = d
      BY <3>1, <3>3, <3>5
    <3> HIDE DEF k
    <3>7. hs[k].date = d /\ hs[k] \in ToSet(hs)
      BY <3>3, <3>6 DEF ToSet
    <3>8. d \in DOMAIN state.totalHoldings
      BY <2>3, <3>7 DEF hs
    <3>9. getAssetValueAtDate(e, d) \in Nat \ {0}
      BY <3>2, AccountAssumption
    <3> QED
      BY <3>6, <3>8, <3>9 DEF d
  <2>11. \A j \in DOMAIN rs :
           /\ InLowestTerms(rs[j].rate)
           /\ rs[j].from \in DOMAIN state.totalHoldings
           /\ rs[j].from \in Int /\ rs[j].to = rs[j].from + Interval
           /\ getAssetValueAtDate(e, rs[j].from) \in Nat \ {0}
    BY <2>7, <2>9, <2>10
  <2> QED
    BY <2>7, <2>11 DEF e, rs
<1> QED
  BY <1>1, <1>2

\* The entry of a place is one of the entries.
LEMMA EntryIsListed ==
  ASSUME ReturnInv, HasReport, NEW p \in Places
  PROVE  /\ \E T : Entries \in Seq(T)
         /\ \E x \in DOMAIN Entries : Entries[x] = EntryAt(p)
<1> DEFINE assets == state.assetsByCategory
<1>1. p[1] \in DOMAIN assets /\ p[2] \in DOMAIN assets[p[1]] /\ p = <<p[1], p[2]>>
  BY DEF Places, Earning
<1>2. PICK T : \A k \in DOMAIN assets : assets[k] \in Seq(T)
  BY DEF ReturnInv, HasReport, ReadTotals
<1>3. IsFiniteSet(DOMAIN assets)
  BY DEF ReturnInv, HasReport, ReadTotals
<1>4. Entries \in Seq(T) /\ \E x \in DOMAIN Entries : Entries[x] = assets[p[1]][p[2]]
  <2> HIDE DEF assets
  <2>1. PICK pos : Flat(assets) \in Seq(T) /\ Arranged(pos, assets, Flat(assets))
    BY <1>2, <1>3, FlatArranged
  <2>2. p \in Positions(assets)
    BY <1>1, PositionsAre
  <2> QED
    BY <2>1, <2>2 DEF Arranged, Entries, assets
<1> QED
  BY <1>4 DEF EntryAt

\* What is computed for the entry at a place, and that of all places in a row.
Result(p) == CalculateAssetReturn(EntryAt(p), Interval)
Results == [p \in Places |-> Result(p)]

LEMMA ResultsOfEntries ==
  ASSUME ReturnInv, HasReport
  PROVE  LET all == Flat(report.assetsReturnByCategory) IN
         /\ all \in Seq({Result(p) : p \in Places})
         /\ \E pos : Lists(pos, Places, Results, all)
<1> DEFINE assets == state.assetsByCategory
           returns == report.assetsReturnByCategory
           R == {Result(p) : p \in Places}
           all == Flat(returns)
<1>1. returns = [k \in Earning(DOMAIN assets) |->
                  [i \in DOMAIN assets[k] |-> CalculateAssetReturn(assets[k][i], Interval)]]
  BY DEF ReturnInv
<1>2. /\ IsFiniteSet(DOMAIN assets)
      /\ \E T : \A k \in DOMAIN assets : assets[k] \in Seq(T)
  BY DEF ReturnInv, HasReport, ReadTotals
<1>3. \A k \in Earning(DOMAIN assets) : \A i \in DOMAIN assets[k] :
        <<k, i>> \in Places /\ EntryAt(<<k, i>>) = assets[k][i]
  BY DEF Places, EntryAt
<1>4. IsFiniteSet(DOMAIN returns)
  <2>1. DOMAIN returns = Earning(DOMAIN assets) /\ Earning(DOMAIN assets) \subseteq DOMAIN assets
    BY <1>1 DEF Earning
  <2> HIDE DEF assets, returns
  <2> QED
    BY <1>2, <2>1, FS_Subset
<1>5. ASSUME NEW k \in DOMAIN returns PROVE returns[k] \in Seq(R)
  <2>1. PICK T : assets[k] \in Seq(T)
    BY <1>1, <1>2 DEF Earning
  <2>2. /\ returns[k] = [i \in DOMAIN assets[k] |-> CalculateAssetReturn(assets[k][i], Interval)]
        /\ k \in Earning(DOMAIN assets)
    BY <1>1
  <2> DEFINE m == Len(assets[k])
  <2>3. m \in Nat /\ DOMAIN assets[k] = 1 .. m
    BY <2>1
  <2>4. \A i \in 1 .. m : CalculateAssetReturn(assets[k][i], Interval) \in R
    <3> SUFFICES ASSUME NEW i \in 1 .. m PROVE CalculateAssetReturn(assets[k][i], Interval) \in R
      OBVIOUS
    <3>1. <<k, i>> \in Places /\ EntryAt(<<k, i>>) = assets[k][i]
      BY <1>3, <2>2, <2>3
    <3>2. Result(<<k, i>>) \in R
      BY <3>1
    <3> HIDE DEF R
    <3> QED
      BY <3>1, <3>2 DEF Result
  <2> HIDE DEF R, assets, returns, m
  <2>5. returns[k] \in [1 .. m -> R]
    BY <2>2, <2>3, <2>4
  <2> QED
    BY <2>3, <2>5
<1>6. PICK pos : all \in Seq(R) /\ Arranged(pos, returns, all)
  <2> HIDE DEF R, returns
  <2> QED
    BY <1>4, <1>5, FlatArranged
<1>7. Positions(returns) = Places
  <2>1. /\ DOMAIN returns = Earning(DOMAIN assets)
        /\ \A k \in Earning(DOMAIN assets) : DOMAIN returns[k] = DOMAIN assets[k]
    BY <1>1
  <2> HIDE DEF returns
  <2> QED
    BY <2>1 DEF Positions, Places
<1>8. ASSUME NEW p \in Places PROVE returns[p[1]][p[2]] = Results[p]
  <2>1. p[1] \in Earning(DOMAIN assets) /\ p[2] \in DOMAIN assets[p[1]]
    BY DEF Places
  <2>2. returns[p[1]][p[2]] = CalculateAssetReturn(assets[p[1]][p[2]], Interval)
    BY <1>1, <2>1
  <2> QED
    BY <2>2 DEF Results, Result, EntryAt
<1> HIDE DEF all, returns
<1>9. Lists(pos, Places, Results, all)
  BY <1>6, <1>7, <1>8 DEF Arranged, Lists
<1> QED
  BY <1>6, <1>9 DEF all, returns

LEMMA ResultOfSteady ==
  ASSUME ReturnInv, HasReport, NEW p \in Places, Steady(EntryAt(p))
  PROVE  Result(p).id = EntryAt(p).id /\ Result(p).returns = ReturnsOf(p[1], p[2])
<1> DEFINE assets == state.assetsByCategory
<1>1. /\ p[1] \in Earning(DOMAIN assets) /\ p[2] \in DOMAIN assets[p[1]]
      /\ p[1] \in DOMAIN assets /\ EntryAt(p) = EntryAt(<<p[1], p[2]>>)
  BY DEF Places, Earning, EntryAt
<1>2. ~ (Len(EntryAt(p).holdings) < 2)
  <2>1. EntryAt(p).holdings \in Seq(ToSet(EntryAt(p).holdings))
    <3>1. ReadInOrder
      BY DEF ReturnInv, HasReport
    <3> QED
      BY <1>1, <3>1 DEF ReadInOrder
  <2>2. Len(EntryAt(p).holdings) \in Nat /\ Len(EntryAt(p).holdings) >= 2
    BY <2>1 DEF Steady
  <2> QED
    BY <2>2
<1>3. Result(p).id = EntryAt(p).id
  BY <1>2 DEF Result, CalculateAssetReturn
<1>4. ReturnsOf(p[1], p[2]) = Result(p).returns
  BY <1>1 DEF ReturnInv, ReturnsOf, EntryAt, Result
<1> QED
  BY <1>3, <1>4

\* The entry of a result is known by its id.
LEMMA ResultsAreKnown ==
  ASSUME ReturnInv, HasReport, \A p \in Places : Steady(EntryAt(p))
  PROVE  LET known == Select(Flat(report.assetsReturnByCategory),
                             LAMBDA e : \E i \in DOMAIN Entries : Entries[i].id = e.id)
         IN  /\ known \in Seq({Result(p) : p \in Places})
             /\ \E pos : Lists(pos, Places, Results, known)
<1> DEFINE all == Flat(report.assetsReturnByCategory)
           R == {Result(p) : p \in Places}
           places == {x \in DOMAIN all : \E i \in DOMAIN Entries : Entries[i].id = all[x].id}
           known == ItemsAt(all, places)
<1>1. PICK pos : all \in Seq(R) /\ Lists(pos, Places, Results, all)
  BY ResultsOfEntries
<1>2. Select(all, LAMBDA e : \E i \in DOMAIN Entries : Entries[i].id = e.id) = known
  BY DEF Select
<1> HIDE DEF all
<1>3. ASSUME NEW p \in Places PROVE \E i \in DOMAIN Entries : Entries[i].id = Result(p).id
  <2>1. PICK i \in DOMAIN Entries : Entries[i] = EntryAt(p)
    BY EntryIsListed
  <2>2. Result(p).id = EntryAt(p).id
    BY ResultOfSteady
  <2> QED
    BY <2>1, <2>2
<1>4. ASSUME NEW x \in DOMAIN all PROVE x \in places
  <2>1. PICK p \in Places : pos[p] = x
    BY <1>1 DEF Lists
  <2>2. all[x] = Result(p)
    BY <1>1, <2>1 DEF Lists, Results
  <2>3. PICK i \in DOMAIN Entries : Entries[i].id = Result(p).id
    BY <1>3
  <2> QED
    BY <2>2, <2>3
<1>5. places \in SUBSET (DOMAIN all)
  OBVIOUS
<1> HIDE DEF places, R, known
<1>6. Places = {p \in Places : pos[p] \in places}
  BY <1>1, <1>4 DEF Lists
<1>7. known \in Seq(R)
  BY <1>1, <1>5, ItemsOfPlaces DEF known
<1>8. \E at : Lists(at, Places, Results, known)
  BY <1>1, <1>5, <1>6, TakenLists DEF known
<1> QED
  BY <1>2, <1>7, <1>8 DEF all, R

\* The periods a total is made of, and their places.
IsPeriod(x, p, j) ==
  /\ p \in Places /\ j \in DOMAIN ReturnsOf(p[1], p[2])
  /\ x = [id |-> EntryAt(p).id, return |-> ReturnsOf(p[1], p[2])[j]]

\* The returns of all entries, as pairs of a place and a number.
Returned == {x \in Places \X Nat : x[2] \in DOMAIN ReturnsOf(x[1][1], x[1][2])}
Period == [x \in Returned |-> [id |-> EntryAt(x[1]).id,
                               return |-> ReturnsOf(x[1][1], x[1][2])[x[2]]]]

LEMMA PeriodsOfEntries ==
  ASSUME ReturnInv, HasReport, \A p \in Places : Steady(EntryAt(p))
  PROVE  LET periods == returnPeriods(Flat(report.assetsReturnByCategory), Entries) IN
         /\ \E T : periods \in Seq(T) /\ \A x \in T : \E p, j : IsPeriod(x, p, j)
         /\ \E pos : Lists(pos, Returned, Period, periods)
<1> DEFINE all == Flat(report.assetsReturnByCategory)
           R == {Result(p) : p \in Places}
           known == Select(all, LAMBDA e : \E i \in DOMAIN Entries : Entries[i].id = e.id)
           n == Len(known)
           of(p) == {[id |-> EntryAt(p).id, return |-> ReturnsOf(p[1], p[2])[j]] :
                      j \in DOMAIN ReturnsOf(p[1], p[2])}
           T == UNION {of(p) : p \in Places}
           periods(i) == [j \in DOMAIN known[i].returns |->
                           [id |-> known[i].id, return |-> known[i].returns[j]]]
           pieces == [i \in DOMAIN known |-> periods(i)]
<1>7. PICK at : known \in Seq(R) /\ Lists(at, Places, Results, known)
  BY ResultsAreKnown
<1>8. returnPeriods(all, Entries) = FlattenSeq(pieces)
  BY DEF returnPeriods
<1> HIDE DEF known
<1>9. n \in Nat /\ DOMAIN known = 1 .. n
  BY <1>7
<1>10. ASSUME NEW i \in 1 .. n PROVE periods(i) \in Seq(T)
  <2>1. known[i] \in R
    <3> HIDE DEF R, n
    <3> QED BY <1>7, <1>9
  <2>2. PICK p \in Places : known[i] = Result(p)
    BY <2>1
  <2>3. known[i].id = EntryAt(p).id /\ known[i].returns = ReturnsOf(p[1], p[2])
    BY <2>2, ResultOfSteady
  <2> DEFINE rs == ReturnsOf(p[1], p[2])
             m == Len(rs)
  <2>4. \E U : rs \in Seq(U)
    BY SteadyReturns
  <2>5. m \in Nat /\ DOMAIN rs = 1 .. m
    BY <2>4
  <2>6. \A j \in DOMAIN rs : [id |-> EntryAt(p).id, return |-> rs[j]] \in T
    <3>1. \A j \in DOMAIN rs : [id |-> EntryAt(p).id, return |-> rs[j]] \in of(p)
      OBVIOUS
    <3> HIDE DEF of, rs
    <3>2. of(p) \subseteq T
      OBVIOUS
    <3> QED
      BY <3>1, <3>2
  <2> HIDE DEF T, rs, m
  <2>7. periods(i) = [j \in 1 .. m |-> [id |-> EntryAt(p).id, return |-> rs[j]]]
    BY <2>3, <2>5 DEF rs
  <2> HIDE DEF periods
  <2>8. periods(i) \in [1 .. m -> T]
    BY <2>5, <2>6, <2>7
  <2> QED
    BY <2>5, <2>8
<1>11. pieces \in [1 .. n -> Seq(T)]
  <2> HIDE DEF T, periods, n
  <2> QED BY <1>9, <1>10
<1>12. \A x \in T : \E p, j : IsPeriod(x, p, j)
  BY DEF IsPeriod
<1> DEFINE flat == FlattenSeq(pieces)
<1>13. flat \in Seq(T)
  <2> HIDE DEF T, pieces, n
  <2> QED
    BY <1>9, <1>11, FlattenIsSeq
<1>14. PICK q : Arranged(q, pieces, flat)
  <2> HIDE DEF T, pieces, n
  <2> QED
    BY <1>9, <1>11, FlattenArranged
<1>15. ASSUME NEW p \in Places
       PROVE  /\ at[p] \in 1 .. n /\ DOMAIN pieces[at[p]] = DOMAIN ReturnsOf(p[1], p[2])
              /\ \A j \in DOMAIN ReturnsOf(p[1], p[2]) :
                   pieces[at[p]][j] = [id |-> EntryAt(p).id, return |-> ReturnsOf(p[1], p[2])[j]]
  <2>1. at[p] \in 1 .. n /\ known[at[p]] = Result(p)
    BY <1>7, <1>9 DEF Lists, Results
  <2>2. known[at[p]].id = EntryAt(p).id /\ known[at[p]].returns = ReturnsOf(p[1], p[2])
    BY <2>1, ResultOfSteady
  <2>3. pieces[at[p]] = periods(at[p])
    BY <1>9, <2>1
  <2> HIDE DEF pieces
  <2> QED
    BY <2>1, <2>2, <2>3
<1>16. DOMAIN pieces = 1 .. n
  BY <1>9
<1> HIDE DEF T, pieces, flat, n
<1> DEFINE pos == [x \in Returned |-> q[<<at[x[1]], x[2]>>]]
<1>17. ASSUME NEW x \in Returned
       PROVE  /\ x[1] \in Places /\ x[2] \in DOMAIN ReturnsOf(x[1][1], x[1][2]) /\ x = <<x[1], x[2]>>
              /\ <<at[x[1]], x[2]>> \in Positions(pieces)
              /\ pieces[at[x[1]]][x[2]] = Period[x]
  <2>1. x[1] \in Places /\ x[2] \in DOMAIN ReturnsOf(x[1][1], x[1][2]) /\ x = <<x[1], x[2]>>
    BY DEF Returned
  <2>2. at[x[1]] \in DOMAIN pieces /\ x[2] \in DOMAIN pieces[at[x[1]]]
    BY <1>15, <1>16, <2>1
  <2>3. <<at[x[1]], x[2]>> \in Positions(pieces)
    BY <2>2, PositionsAre
  <2>4. pieces[at[x[1]]][x[2]] = Period[x]
    BY <1>15, <2>1 DEF Period
  <2> QED
    BY <2>1, <2>3, <2>4
<1>18. /\ q \in [Positions(pieces) -> DOMAIN flat]
       /\ \A x, y \in Positions(pieces) : q[x] = q[y] => x = y
       /\ \A x \in DOMAIN flat : \E p \in Positions(pieces) : q[p] = x
       /\ \A p \in Positions(pieces) : flat[q[p]] = pieces[p[1]][p[2]]
  BY <1>14 DEF Arranged
<1>19. /\ pos \in [Returned -> DOMAIN flat]
       /\ \A x \in Returned : pos[x] = q[<<at[x[1]], x[2]>>]
  BY <1>17, <1>18
<1> HIDE DEF pos
<1>20. ASSUME NEW x \in Returned, NEW y \in Returned, pos[x] = pos[y] PROVE x = y
  <2> DEFINE u == <<at[x[1]], x[2]>>  w == <<at[y[1]], y[2]>>
  <2>1. u \in Positions(pieces) /\ w \in Positions(pieces) /\ q[u] = q[w]
    BY <1>17, <1>19, <1>20
  <2>2. u[1] = at[x[1]] /\ u[2] = x[2] /\ w[1] = at[y[1]] /\ w[2] = y[2]
    OBVIOUS
  <2> HIDE DEF u, w
  <2>3. at[x[1]] = at[y[1]] /\ x[2] = y[2]
    BY <1>18, <2>1, <2>2
  <2>4. x[1] \in Places /\ y[1] \in Places
    BY <1>17
  <2>5. x[1] = y[1]
    BY <1>7, <2>3, <2>4 DEF Lists
  <2> QED
    BY <1>17, <2>3, <2>5
<1>21. ASSUME NEW x \in DOMAIN flat PROVE \E y \in Returned : pos[y] = x
  <2>1. PICK y \in Positions(pieces) : q[y] = x
    BY <1>18
  <2>2. y[1] \in 1 .. n /\ y[2] \in DOMAIN pieces[y[1]] /\ y = <<y[1], y[2]>>
    BY <1>16, PositionsAre
  <2>3. PICK p \in Places : at[p] = y[1]
    BY <1>7, <1>9, <2>2 DEF Lists
  <2> DEFINE z == <<p, y[2]>>
  <2>4. y[2] \in DOMAIN ReturnsOf(p[1], p[2])
    BY <1>15, <2>2, <2>3
  <2>5. y[2] \in Nat
    <3>1. \E U : ReturnsOf(p[1], p[2]) \in Seq(U)
      BY SteadyReturns
    <3> QED
      BY <2>4, <3>1
  <2>6. z \in Returned /\ z[1] = p /\ z[2] = y[2]
    BY <2>4, <2>5 DEF Returned
  <2> HIDE DEF z
  <2>7. pos[z] = q[<<y[1], y[2]>>]
    BY <1>19, <2>3, <2>6
  <2> QED
    BY <2>1, <2>2, <2>6, <2>7
<1>22. ASSUME NEW x \in Returned PROVE flat[pos[x]] = Period[x]
  <2> DEFINE y == <<at[x[1]], x[2]>>
  <2>1. y \in Positions(pieces) /\ pos[x] = q[y] /\ y[1] = at[x[1]] /\ y[2] = x[2]
    BY <1>17, <1>19
  <2> HIDE DEF y
  <2>2. flat[q[y]] = pieces[y[1]][y[2]]
    BY <1>18, <2>1
  <2>3. pieces[at[x[1]]][x[2]] = Period[x]
    BY <1>17
  <2> QED
    BY <2>1, <2>2, <2>3
<1>23. Lists(pos, Returned, Period, flat)
  BY <1>19, <1>20, <1>21, <1>22 DEF Lists
<1> QED
  BY <1>8, <1>12, <1>13, <1>23 DEF flat

\* Where every entry has an id of its own, a return's id finds its asset.
LEMMA EntryOfPeriod ==
  ASSUME ReturnInv, HasReport, OneEntryEach, NEW p \in Places
  PROVE  assetByID(Entries, EntryAt(p).id) = EntryAt(p)
<1>1. PICK x \in DOMAIN Entries : Entries[x] = EntryAt(p)
  BY EntryIsListed
<1>2. PICK T : Entries \in Seq(T)
  BY EntryIsListed
<1>3. assetByID(Entries, Entries[x].id) = Entries[x]
  BY <1>2, AssetOfID DEF OneEntryEach
<1> QED
  BY <1>1, <1>3

\* Its weight is positive as long as the portfolio has a value.
LEMMA PeriodWeighs ==
  ASSUME ReturnInv, HasReport, OneEntryEach, NEW x, NEW p, NEW j, IsPeriod(x, p, j),
         Steady(EntryAt(p)), state.totalHoldings[x.return.from] > 0
  PROVE  Positive(assetWeight(x, Entries, state.totalHoldings))
<1> DEFINE d == x.return.from
           total == state.totalHoldings[d]
           value == getAssetValueAtDate(assetByID(Entries, x.id), d)
<1>1. p \in Places /\ x.id = EntryAt(p).id /\ j \in DOMAIN ReturnsOf(p[1], p[2])
      /\ d = ReturnsOf(p[1], p[2])[j].from
  BY DEF IsPeriod
<1>2. d \in DOMAIN state.totalHoldings /\ getAssetValueAtDate(EntryAt(p), d) \in Nat \ {0}
  BY <1>1, SteadyReturns
<1>3. assetByID(Entries, x.id) = EntryAt(p)
  BY <1>1, EntryOfPeriod
<1>4. total \in Nat \ {0}
  <2>1. total \in Int
    BY <1>2 DEF ReturnInv, HasReport, ReadTotals
  <2>2. total > 0
    OBVIOUS
  <2> HIDE DEF total
  <2> QED
    BY <2>1, <2>2
<1>5. assetWeight(x, Entries, state.totalHoldings) = Fraction(value, total)
  <2>1. assetWeight(x, Entries, state.totalHoldings)
          = IF total <= 0 THEN Zero ELSE Fraction(value, total)
    BY <1>2 DEF assetWeight
  <2> HIDE DEF total, value
  <2> QED
    BY <1>4, <2>1
<1>6. value \in Nat \ {0}
  BY <1>2, <1>3
<1> HIDE DEF total, value
<1> QED
  BY <1>4, <1>5, <1>6, PositiveFraction

LEMMA TotalsWithin ==
  ASSUME ReturnInv
  PROVE  TotalWithinAssets
<1> SUFFICES ASSUME HasReport, OneEntryEach, \A p \in Places : Steady(EntryAt(p)),
                    NEW i \in DOMAIN report.totalReturns,
                    state.totalHoldings[report.totalReturns[i].from] > 0
             PROVE  LET total == report.totalReturns[i]
                        ending(p) == {j \in DOMAIN ReturnsOf(p[1], p[2]) :
                                       ReturnsOf(p[1], p[2])[j].to = total.to}
                        rates == UNION {{ReturnsOf(p[1], p[2])[j].rate : j \in ending(p)} : p \in Places}
                    IN  /\ \E r \in rates : AtMost(r, total.rate)
                        /\ \E r \in rates : AtMost(total.rate, r)
  BY DEF TotalWithinAssets
<1> DEFINE total == report.totalReturns[i]
           endsAt(p) == {j \in DOMAIN ReturnsOf(p[1], p[2]) :
                          ReturnsOf(p[1], p[2])[j].to = total.to}
           of(p) == {ReturnsOf(p[1], p[2])[j].rate : j \in endsAt(p)}
           found == UNION {of(p) : p \in Places}
           periods == returnPeriods(Flat(report.assetsReturnByCategory), Entries)
           S == {periods[x].return.to : x \in DOMAIN periods}
           ends == InOrder(S)
           d == ends[i]
           at == {x \in DOMAIN periods : periods[x].return.to = d}
           ending == ItemsAt(periods, at)
           n == Len(ending)
           weight(q) == assetWeight(ending[q], Entries, state.totalHoldings)
           weights  == [q \in DOMAIN ending |-> weight(q)]
           weighted == [q \in DOMAIN ending |-> Times(ending[q].return.rate, weight(q))]
<1>1. PICK T : periods \in Seq(T) /\ \A x \in T : \E p, j : IsPeriod(x, p, j)
  BY PeriodsOfEntries
<1>2. Interval \in Nat
  BY IntervalIsNatural DEF ReturnInv
<1>3. report.totalReturns
        = [k \in DOMAIN ends |->
            [from |-> ends[k] - Interval, to |-> ends[k],
             rate |-> finalReturn(ItemsAt(periods, {x \in DOMAIN periods : periods[x].return.to = ends[k]}),
                                  Entries, state.totalHoldings)]]
  BY DEF ReturnInv, CalculateWeightedTotalReturns, Select
<1>4. /\ i \in DOMAIN ends
      /\ total = [from |-> d - Interval, to |-> d,
                  rate |-> finalReturn(ending, Entries, state.totalHoldings)]
  BY <1>3
<1>5. finalReturn(ending, Entries, state.totalHoldings) = WeightedTotal(SumOf(weighted), SumOf(weights))
  BY DEF finalReturn
<1> HIDE DEF total, periods
<1>6. ASSUME NEW x \in T, NEW p, NEW j, IsPeriod(x, p, j)
      PROVE  /\ x.return.from \in Int /\ x.return.to = x.return.from + Interval
             /\ InLowestTerms(x.return.rate)
  BY <1>6, SteadyReturns DEF IsPeriod
<1>7. S \in SUBSET Int /\ IsFiniteSet(S)
  <2>1. \A x \in DOMAIN periods : periods[x].return.to \in Int
    <3> SUFFICES ASSUME NEW x \in DOMAIN periods PROVE periods[x].return.to \in Int
      OBVIOUS
    <3>1. periods[x] \in T
      BY <1>1
    <3>2. \E p, j : IsPeriod(periods[x], p, j)
      BY <1>1, <3>1
    <3>3. periods[x].return.from \in Int /\ periods[x].return.to = periods[x].return.from + Interval
      BY <1>6, <3>1, <3>2
    <3> QED
      BY <1>2, <3>3
  <2>2. DOMAIN periods = 1 .. Len(periods) /\ Len(periods) \in Nat
    BY <1>1
  <2>3. IsFiniteSet(DOMAIN periods)
    BY <2>2, FS_Interval
  <2> DEFINE f == [x \in DOMAIN periods |-> periods[x].return.to]
  <2>4. IsFiniteSet({f[x] : x \in DOMAIN periods})
    <3> HIDE DEF f
    <3> QED BY <2>3, FiniteImage DEF f
  <2>5. {f[x] : x \in DOMAIN periods} = S
    OBVIOUS
  <2> QED
    BY <2>1, <2>4, <2>5
<1>8. d \in S
  <2> HIDE DEF S
  <2>1. ends \in [1 .. Cardinality(S) -> S]
    BY <1>7, InOrderSorts DEF Sorts
  <2> HIDE DEF ends
  <2> QED
    BY <1>4, <2>1
<1>9. at \in SUBSET (DOMAIN periods) /\ at # {}
  <2> HIDE DEF d
  <2> QED BY <1>8
<1>10. /\ ending \in Seq({periods[x] : x \in at}) /\ ending # <<>>
  <2> HIDE DEF at
  <2> QED BY <1>1, <1>9, ItemsAreTaken
<1>11. \A x \in at : periods[x] \in T /\ periods[x].return.to = d
  BY <1>1
<1>12. n \in Nat \ {0} /\ DOMAIN ending = 1 .. n
       /\ \A q \in 1 .. n : ending[q] \in T /\ ending[q].return.to = d
  <2> DEFINE U == {periods[x] : x \in at}
  <2>1. \A u \in U : u \in T /\ u.return.to = d
    <3> HIDE DEF at, d
    <3> QED BY <1>11
  <2>2. ending \in Seq(U) /\ ending # <<>>
    BY <1>10
  <2> HIDE DEF U, ending, d
  <2> QED
    BY <2>1, <2>2
<1> HIDE DEF ending, n, d, at, ends, S
<1>13. ASSUME NEW q \in 1 .. n
       PROVE  /\ InLowestTerms(ending[q].return.rate) /\ Positive(weight(q))
              /\ ending[q].return.rate \in found
  <2>1. PICK p, j : IsPeriod(ending[q], p, j)
    BY <1>1, <1>12
  <2>2. ending[q].return.from \in Int /\ ending[q].return.to = ending[q].return.from + Interval
        /\ InLowestTerms(ending[q].return.rate)
    BY <1>6, <1>12, <2>1
  <2>3. total.from = d - Interval /\ total.to = d /\ ending[q].return.to = d
    BY <1>4, <1>12
  <2>4. ending[q].return.from = total.from
    BY <1>2, <2>2, <2>3
  <2>5. state.totalHoldings[ending[q].return.from] > 0
    BY <2>4 DEF total
  <2>6. p \in Places /\ Steady(EntryAt(p))
    BY <2>1 DEF IsPeriod
  <2>7. Positive(weight(q))
    BY <2>1, <2>5, <2>6, PeriodWeighs
  <2>8. j \in endsAt(p) /\ ending[q].return.rate = ReturnsOf(p[1], p[2])[j].rate
    BY <2>1, <2>3 DEF IsPeriod
  <2>9. ending[q].return.rate \in of(p)
    BY <2>8
  <2>10. of(p) \subseteq found
    <3> HIDE DEF of
    <3> QED BY <2>6
  <2> QED
    BY <2>2, <2>7, <2>9, <2>10
<1> DEFINE rates == [q \in 1 .. n |-> ending[q].return.rate]
<1>14. /\ DOMAIN weighted = 1 .. n /\ DOMAIN weights = 1 .. n
       /\ \A q \in 1 .. n : /\ InLowestTerms(rates[q]) /\ Positive(weights[q])
                            /\ weighted[q] = Times(rates[q], weights[q])
  <2> HIDE DEF weight, found
  <2> QED BY <1>12, <1>13
<1>15. \A q \in 1 .. n : rates[q] \in found
  <2> HIDE DEF weight, found
  <2> QED BY <1>13
<1> HIDE DEF weights, weighted, rates, found
<1>16. LET t == WeightedTotal(SumOf(weighted), SumOf(weights)) IN
       /\ \E q \in 1 .. n : AtMost(rates[q], t)
       /\ \E q \in 1 .. n : AtMost(t, rates[q])
  BY <1>12, <1>14, TotalLiesBetween
<1>17. total.rate = WeightedTotal(SumOf(weighted), SumOf(weights))
  BY <1>4, <1>5
<1>18. /\ \E r \in found : AtMost(r, total.rate)
       /\ \E r \in found : AtMost(total.rate, r)
  BY <1>15, <1>16, <1>17
<1> QED
  BY <1>18 DEF found, total

(***************************************************************************)
(* The portfolio's return in an interval lies between the worst and the    *)
(* best of the returns it is made of, for all books, intervals and ranges  *)
(* in which every earning asset is held on every day from its first on.    *)
(***************************************************************************)
THEOREM TotalsLieWithinAssets == Spec => []TotalWithinAssets
<1>1. ReturnInv => TotalWithinAssets
  BY TotalsWithin
<1> QED
  BY <1>1, ReturnInvariance, PTL

-----------------------------------------------------------------------------
(***************************************************************************)
(* The first total is the growth of the portfolio.                         *)
(***************************************************************************)
\* Gains weighted with shares of t add up to the gain of the whole.
Shares(weighted, weights, a, b, n, t) ==
  /\ a \in [1 .. n -> Int] /\ b \in [1 .. n -> Nat \ {0}]
  /\ DOMAIN weighted = 1 .. n /\ DOMAIN weights = 1 .. n
  /\ \A i \in 1 .. n : Is(weights[i], b[i], t) /\ Is(weighted[i], a[i] - b[i], t)

AddsUp(a, n, total) ==
  \E W \in [0 .. n -> Int] : /\ W[0] = 0 /\ W[n] = total
                             /\ \A k \in 1 .. n : W[k] = W[k - 1] + a[k]

LEMMA GrowthOfPortfolio ==
  ASSUME NEW n \in Nat \ {0}, NEW t \in Nat \ {0}, NEW a, NEW b, NEW after, NEW before,
         AddsUp(a, n, after), AddsUp(b, n, before),
         NEW weighted, NEW weights, Shares(weighted, weights, a, b, n, t)
  PROVE  Plus(Unity, WeightedTotal(SumOf(weighted), SumOf(weights))) = Fraction(after, before)
<1>0. /\ a \in [1 .. n -> Int] /\ b \in [1 .. n -> Nat \ {0}]
      /\ DOMAIN weighted = 1 .. n /\ DOMAIN weights = 1 .. n
      /\ \A i \in 1 .. n : Is(weights[i], b[i], t) /\ Is(weighted[i], a[i] - b[i], t)
  BY DEF Shares
<1>1. PICK u \in [0 .. n -> Int] : /\ u[0] = 0 /\ u[n] = after
                                   /\ \A k \in 1 .. n : u[k] = u[k - 1] + a[k]
  BY DEF AddsUp
<1>2. PICK v \in [0 .. n -> Int] : /\ v[0] = 0 /\ v[n] = before
                                   /\ \A k \in 1 .. n : v[k] = v[k - 1] + b[k]
  BY DEF AddsUp
<1>3. n \in Nat /\ \A i \in 1 .. n : InLowestTerms(weights[i]) /\ InLowestTerms(weighted[i])
  BY <1>0 DEF Is
<1>4. PICK w : SumsByTerm(w, weights, n)
  BY <1>0, <1>3, SumByTerm
<1>5. PICK g : SumsByTerm(g, weighted, n)
  BY <1>0, <1>3, SumByTerm
<1> DEFINE S == {k \in Int : Is(w[k], v[k], t) /\ Is(g[k], u[k] - v[k], t) /\ k <= v[k]}
           from == 1
<1>6. 0 \in S
  <2>1. w[0] = Zero /\ g[0] = Zero
    BY <1>4, <1>5 DEF SumsByTerm
  <2>2. Is(Zero, 0, t)
    BY WholeInLowestTerms DEF Is, Zero, Whole
  <2>3. v[0] = 0 /\ u[0] - v[0] = 0 /\ 0 <= v[0] /\ 0 \in Int
    BY <1>1, <1>2
  <2> QED
    BY <2>1, <2>2, <2>3
<1>7. ASSUME NEW k \in from .. n, k - 1 \in S PROVE k \in S
  <2>1. k \in 1 .. n /\ k - 1 \in 0 .. n /\ k \in Int
    OBVIOUS
  <2> DEFINE c == a[k]  d == b[k]
             x == u[k - 1]  y == v[k - 1]
  <2>2. c \in Int /\ d \in Nat \ {0} /\ x \in Int /\ y \in Int
    BY <1>0, <1>1, <1>2, <2>1
  <2>3. u[k] = x + c /\ v[k] = y + d
    BY <1>1, <1>2, <2>1
  <2>4. w[k] = Plus(w[k - 1], weights[k]) /\ g[k] = Plus(g[k - 1], weighted[k])
    BY <1>4, <1>5, <2>1 DEF SumsByTerm
  <2>5. Is(w[k - 1], y, t) /\ Is(g[k - 1], x - y, t) /\ k - 1 <= y
    BY <1>7
  <2>6. Is(weights[k], d, t) /\ Is(weighted[k], c - d, t)
    BY <1>0, <2>1
  <2> HIDE DEF c, d, x, y, from
  <2>7. Is(w[k], y + d, t)
    BY <2>4, <2>5, <2>6, SumOverOne
  <2>8. Is(g[k], (x - y) + (c - d), t)
    BY <2>4, <2>5, <2>6, SumOverOne
  <2>9. (x - y) + (c - d) = u[k] - v[k] /\ k <= v[k]
    <3>1. (x - y) + (c - d) = (x + c) - (y + d) /\ k <= y + d
      BY <2>1, <2>2, <2>5
    <3> QED
      BY <2>3, <3>1
  <2> QED
    BY <2>1, <2>3, <2>7, <2>8, <2>9
<1>8. n \in S
  <2>1. from \in Int /\ n \in Int /\ from - 1 \in S
    BY <1>6
  <2> HIDE DEF S
  <2>2. \A k \in from .. n : k \in S
    <3> HIDE DEF from
    <3> QED BY <1>7, <2>1, DayInduction
  <2> QED
    BY <2>2
<1>9. Is(SumOf(weights), before, t) /\ Is(SumOf(weighted), after - before, t)
  BY <1>1, <1>2, <1>4, <1>5, <1>8 DEF SumsByTerm
<1>10. before \in Nat \ {0} /\ after \in Int
  BY <1>1, <1>2, <1>8
<1> DEFINE sw == SumOf(weights)  sg == SumOf(weighted)
<1> HIDE DEF sw, sg
<1>11. WeightedTotal(sg, sw) = Over(sg, sw)
  <2>1. Is(Zero, 0, 1)
    BY WholeInLowestTerms DEF Is, Zero, Whole
  <2>2. AtMost(sw, Zero) <=> before * 1 <= 0 * t
    BY <1>9, <2>1, OrderOfValues DEF sw
  <2>3. ~ AtMost(sw, Zero)
    BY <1>10, <2>2
  <2> QED
    BY <2>3 DEF WeightedTotal
<1>12. Plus(Unity, Over(sg, sw)) = Fraction(after, before)
  BY <1>9, <1>10, GrowthOfGain DEF sg, sw
<1> QED
  BY <1>11, <1>12 DEF sg, sw

\* The value of the entry at a place on a day.
Worth(p, d) == HoldingOn(EntryAt(p).holdings, d).value

LEMMA PortfolioIsSummed ==
  ASSUME NEW d
  PROVE  Portfolio(d) = (CHOOSE iter : IsSummed(iter, [p \in Places |-> Worth(p, d)], Places))[Places]
<1> DEFINE v == [p \in Places |-> Worth(p, d)]
           byPlace(iter) == iter = [s \in SUBSET Places |->
                                     IF s = {} THEN 0
                                     ELSE HoldingOn(EntryAt(picked(s)).holdings, d).value
                                            + iter[s \ {picked(s)}]]
<1>1. Portfolio(d) = (CHOOSE iter : byPlace(iter))[Places]
  BY DEF Portfolio, MapThenSumSet, MapThenFoldSet, picked
<1>2. ASSUME NEW iter PROVE byPlace(iter) <=> IsSummed(iter, v, Places)
  <2>1. \A s \in SUBSET Places : s # {} => v[picked(s)] = HoldingOn(EntryAt(picked(s)).holdings, d).value
    BY DEF picked, Worth
  <2> HIDE DEF v
  <2> QED
    BY <2>1 DEF IsSummed
<1> HIDE DEF v, byPlace
<1>3. (CHOOSE iter : byPlace(iter)) = (CHOOSE iter : IsSummed(iter, v, Places))
  BY <1>2
<1> QED
  BY <1>1, <1>3 DEF v

LEMMA PlacesAreFinite ==
  ASSUME ReturnInv, HasReport
  PROVE  IsFiniteSet(Places)
<1> DEFINE all == Flat(report.assetsReturnByCategory)
<1>1. PICK pos : all \in Seq({Result(p) : p \in Places}) /\ Lists(pos, Places, Results, all)
  BY ResultsOfEntries
<1>2. IsFiniteSet(DOMAIN all)
  <2>1. DOMAIN all = 1 .. Len(all) /\ Len(all) \in Nat
    BY <1>1
  <2> HIDE DEF all
  <2> QED
    BY <2>1, FS_Interval
<1> HIDE DEF all
<1> DEFINE f == [j \in DOMAIN all |-> CHOOSE p \in Places : pos[p] = j]
<1>3. ASSUME NEW p \in Places PROVE \E j \in DOMAIN all : f[j] = p
  <2>1. pos[p] \in DOMAIN all
    BY <1>1 DEF Lists
  <2>2. f[pos[p]] = CHOOSE q \in Places : pos[q] = pos[p]
    BY <2>1
  <2>3. f[pos[p]] \in Places /\ pos[f[pos[p]]] = pos[p]
    <3> HIDE DEF f
    <3> QED BY <2>2
  <2>4. f[pos[p]] = p
    <3> HIDE DEF f
    <3> QED BY <1>1, <2>3 DEF Lists
  <2> QED
    BY <2>1, <2>4
<1>4. IsFiniteSet({f[j] : j \in DOMAIN all})
  <2>1. DOMAIN f = DOMAIN all
    OBVIOUS
  <2> HIDE DEF f
  <2> QED BY <1>2, <2>1, FiniteImage
<1>5. Places \subseteq {f[j] : j \in DOMAIN all}
  <2> HIDE DEF f
  <2> QED BY <1>3
<1> HIDE DEF f
<1> QED
  BY <1>4, <1>5, FS_Subset

\* The first return of an untraded entry is its growth over an interval, and
\* no other return ends as early.
StartsWith(rs, p) ==
  LET e == EntryAt(p)
      F == First(e)
  IN  /\ F \in Int /\ Latest(e) \in Int /\ Interval \in Nat \ {0} /\ F \in DOMAIN state.totalHoldings
      /\ 1 \in DOMAIN rs /\ rs[1].from = F /\ rs[1].to = F + Interval /\ InLowestTerms(rs[1].rate)
      /\ \A j \in DOMAIN rs : /\ rs[j].to \in Int /\ F + Interval <= rs[j].to
                              /\ rs[j].to = F + Interval => j = 1
      /\ Worth(p, F) \in Nat \ {0} /\ getAssetValueAtDate(e, F) = Worth(p, F)
      /\ Worth(p, UpTo(F + Interval, Latest(e))) \in Int
      /\ Plus(Unity, rs[1].rate) = Fraction(Worth(p, UpTo(F + Interval, Latest(e))), Worth(p, F))

LEMMA FirstReturn ==
  ASSUME ReturnInv, HasReport, NEW p \in Places, Steady(EntryAt(p)), Untraded(EntryAt(p))
  PROVE  StartsWith(ReturnsOf(p[1], p[2]), p)
<1> DEFINE e == EntryAt(p)
           rs == ReturnsOf(p[1], p[2])
           F == First(e)
           L == Latest(e)
<1>1. /\ Interval \in Nat \ {0}
      /\ e.holdings \in Seq(ToSet(e.holdings)) /\ Len(e.holdings) >= 2
      /\ \A i \in DOMAIN e.holdings : e.holdings[i].date \in Int /\ e.holdings[i].value \in Int
      /\ \A i \in 2 .. Len(e.holdings) : e.holdings[i - 1].date < e.holdings[i].date
      /\ F \in Int /\ L \in Int
      /\ rs = CalculateHoldingsReturn(e.holdings, e.transactions, Interval)
  BY ReturnsOfEntry
<1>2. /\ L - F + 1 = Len(e.holdings) /\ e.transactions = <<>>
      /\ \A i \in DOMAIN e.holdings : One <= e.holdings[i].value
  BY AccountAssumption, <1>1 DEF Steady, Untraded
<1>3. /\ \E T : rs \in Seq(T)
      /\ \A j \in DOMAIN rs : /\ InLowestTerms(rs[j].rate)
                              /\ rs[j].from \in DOMAIN state.totalHoldings
  BY SteadyReturns
<1> HIDE DEF e, rs
<1> DEFINE hs == e.holdings
           n  == Len(hs)
<1>4. Consecutive(hs, n)
  <2> HIDE DEF hs
  <2> QED BY <1>1, <1>2, SteadyIsConsecutive DEF hs, First, Latest
<1>5. F = hs[1].date /\ L = hs[n].date /\ n \in Nat \ {0} /\ F <= L
  <2>1. F = Head(hs).date /\ L = hs[n].date /\ Head(hs) = hs[1]
    BY <1>1 DEF First, Latest, Last
  <2>2. n \in Nat /\ n >= 2
    BY <1>1
  <2> HIDE DEF n, hs
  <2>3. F <= L
    BY <1>1, <1>2, <2>2 DEF n, hs
  <2> QED
    BY <2>1, <2>2, <2>3
<1>6. rs # <<>> /\ Tile(rs, F, L, Interval)
  BY <1>1, <1>5, HoldingsReturnTiles DEF First, Latest
<1> HIDE DEF hs, n, F, L
<1>7. \A j \in DOMAIN rs : rs[j].from \in F .. L /\ rs[j].to = rs[j].from + Interval
  BY <1>1, <1>3, <1>6, TileWithin
<1>8. /\ rs[1].from = F
      /\ \A j \in 2 .. Len(rs) : rs[j].from = rs[j - 1].to
  BY <1>6 DEF Tile
<1>9. DOMAIN rs = 1 .. Len(rs) /\ Len(rs) \in Nat \ {0} /\ 1 \in DOMAIN rs
  BY <1>3, <1>6
<1>10. ASSUME NEW j \in DOMAIN rs
       PROVE  /\ rs[j].to \in Int /\ F + Interval <= rs[j].to
              /\ rs[j].to = F + Interval => j = 1
  <2>1. rs[j].from \in Int /\ F <= rs[j].from /\ rs[j].to = rs[j].from + Interval
    BY <1>1, <1>7
  <2>2. CASE j = 1
    BY <1>1, <2>1, <2>2
  <2>3. CASE j # 1
    <3>1. j \in 2 .. Len(rs) /\ j - 1 \in DOMAIN rs
      BY <1>9, <2>3
    <3>2. rs[j].from = rs[j - 1].from + Interval /\ rs[j - 1].from \in Int /\ F <= rs[j - 1].from
      BY <1>1, <1>7, <1>8, <3>1
    <3> QED
      BY <1>1, <2>1, <3>2
  <2> QED
    BY <2>2, <2>3
<1>11. rs[1].to = F + Interval /\ InLowestTerms(rs[1].rate) /\ F \in DOMAIN state.totalHoldings
  BY <1>3, <1>7, <1>8, <1>9
<1> DEFINE D == F + Interval
           U == UpTo(D, L)
<1>12. ASSUME NEW d \in F .. L
       PROVE  /\ HoldingOn(hs, d) = hs[d - F + 1]
              /\ Worth(p, d) \in Nat \ {0} /\ Worth(p, d) = hs[d - F + 1].value
  <2> DEFINE i == d - F + 1
  <2>1. n = L - F + 1
    BY <1>2 DEF n, hs
  <2>2. i \in 1 .. n /\ F + i - 1 = d
    BY <1>1, <2>1
  <2> HIDE DEF i
  <2>3. HoldingOn(hs, d) = hs[i]
    BY <1>4, <1>5, <2>2, HoldingOnDay
  <2>4. hs[i].value \in Int /\ One <= hs[i].value /\ One \in Nat \ {0}
    BY <1>4, <2>2, AccountAssumption DEF Consecutive
  <2>5. hs[i].value \in Nat \ {0}
    BY <2>4
  <2>6. Worth(p, d) = HoldingOn(hs, d).value
    BY DEF Worth, hs, e
  <2> QED
    BY <2>3, <2>5, <2>6 DEF i
<1>13. F \in F .. L /\ U \in F .. L
  BY <1>1, <1>5 DEF UpTo
<1>14. getAssetValueAtDate(e, F) = Worth(p, F)
  <2>1. getAssetValueAtDate(e, F) = e.holdings[F - e.holdings[1].date + 1].value
    <3>1. F \in e.holdings[1].date .. Last(e.holdings).date
      BY <1>5, <1>13 DEF hs, n, Last
    <3> QED
      BY <1>1, <1>4, <3>1, ValueAtDate DEF hs
  <2> QED
    BY <1>5, <1>12, <1>13, <2>1 DEF hs
<1>15. Worth(p, F) \in Nat \ {0} /\ Worth(p, U) \in Int
  <2> HIDE DEF U
  <2>1. Worth(p, F) \in Nat \ {0} /\ Worth(p, U) \in Nat \ {0}
    BY <1>12, <1>13
  <2> QED
    BY <2>1
<1>16. Plus(Unity, rs[1].rate) = Fraction(Worth(p, U), Worth(p, F))
  <2>1. rs = CalculateHoldingsReturn(hs, <<>>, Interval)
    BY <1>1, <1>2 DEF hs
  <2>2. Plus(Unity, rs[1].rate) = Fraction(HoldingOn(hs, UpTo(rs[1].to, hs[n].date)).value, hs[1].value)
    BY <1>1, <1>4, <1>9, <2>1, UntradedGrows
  <2>3. UpTo(rs[1].to, hs[n].date) = U
    BY <1>5, <1>11
  <2>4. Worth(p, U) = HoldingOn(hs, U).value
    BY DEF Worth, hs, e
  <2>5. hs[1].value = Worth(p, F)
    <3>1. F - F + 1 = 1
      BY <1>1
    <3> QED
      BY <1>12, <1>13, <3>1
  <2> QED
    BY <2>2, <2>3, <2>4, <2>5
<1>17. StartsWith(rs, p)
  <2> HIDE DEF U
  <2> QED
    BY <1>1, <1>8, <1>9, <1>10, <1>11, <1>14, <1>15, <1>16 DEF StartsWith, e, F, L, U
<1> QED
  BY <1>17 DEF rs

\* What the first return of an entry adds to the first total.
FirstPeriod(p) == [id |-> EntryAt(p).id, return |-> ReturnsOf(p[1], p[2])[1]]

LEMMA FirstPeriodWeighs ==
  ASSUME ReturnInv, HasReport, OneEntryEach, NEW p \in Places, Steady(EntryAt(p)), Untraded(EntryAt(p)),
         NEW F, F = First(EntryAt(p)), NEW L, L = Latest(EntryAt(p)), state.totalHoldings[F] > 0
  PROVE  LET x == FirstPeriod(p)
             w == assetWeight(x, Entries, state.totalHoldings)
             t == state.totalHoldings[F]
         IN  /\ t \in Nat \ {0}
             /\ Is(w, Worth(p, F), t)
             /\ Is(Times(x.return.rate, w), Worth(p, UpTo(F + Interval, L)) - Worth(p, F), t)
<1> DEFINE x == FirstPeriod(p)
           w == assetWeight(x, Entries, state.totalHoldings)
           t == state.totalHoldings[F]
           rs == ReturnsOf(p[1], p[2])
           e == EntryAt(p)
           a == Worth(p, UpTo(F + Interval, L))
           b == Worth(p, F)
           value == getAssetValueAtDate(assetByID(Entries, x.id), x.return.from)
<1>1. /\ F \in DOMAIN state.totalHoldings /\ rs[1].from = F /\ InLowestTerms(rs[1].rate)
      /\ b \in Nat \ {0} /\ a \in Int /\ getAssetValueAtDate(e, F) = b
      /\ Plus(Unity, rs[1].rate) = Fraction(a, b)
  BY FirstReturn DEF StartsWith
<1>2. x.id = e.id /\ x.return = rs[1]
  BY DEF FirstPeriod
<1>3. t \in Nat \ {0}
  <2>1. t \in Int /\ t > 0
    BY <1>1 DEF ReturnInv, HasReport, ReadTotals
  <2> HIDE DEF t
  <2> QED
    BY <2>1
<1>4. value = b
  <2>1. assetByID(Entries, e.id) = e
    BY EntryOfPeriod
  <2> HIDE DEF e, x, b
  <2> QED
    BY <1>1, <1>2, <2>1
<1>5. w = Fraction(b, t)
  <2>1. w = IF t <= 0 THEN Zero ELSE Fraction(value, t)
    <3>1. x.return.from = F
      BY <1>1, <1>2
    <3> HIDE DEF x
    <3> QED
      BY <1>1, <3>1 DEF assetWeight
  <2> HIDE DEF t, value, w, b
  <2> QED
    BY <1>3, <1>4, <2>1
<1> HIDE DEF a, b, t, w, x, rs
<1>6. Is(w, b, t)
  BY <1>1, <1>3, <1>5, IsFraction
<1>7. Is(rs[1].rate, a - b, b)
  BY <1>1, GainOfGrowth
<1>8. Is(Times(rs[1].rate, w), a - b, t)
  BY <1>1, <1>3, <1>5, <1>7, WeightedGain
<1> QED
  BY <1>2, <1>3, <1>6, <1>8 DEF a, b, t, w, x

\* The first of the total returns of one portfolio is made of the first return
\* of each of its entries.
FirstOfAll(ending, place, n) ==
  /\ n \in Nat \ {0} /\ DOMAIN ending = 1 .. n /\ place \in [1 .. n -> Places]
  /\ \A i, j \in 1 .. n : place[i] = place[j] => i = j
  /\ \A p \in Places : \E i \in 1 .. n : place[i] = p
  /\ \A i \in 1 .. n : ending[i] = FirstPeriod(place[i])

LEMMA FirstEnds ==
  ASSUME ReturnInv, HasReport, OnePortfolio, NEW o \in Places
  PROVE  LET F == First(EntryAt(o)) IN
         \E ending, place, n :
           /\ FirstOfAll(ending, place, n)
           /\ report.totalReturns[1] = [from |-> F, to |-> F + Interval,
                                        rate |-> finalReturn(ending, Entries, state.totalHoldings)]
<1> DEFINE periods == returnPeriods(Flat(report.assetsReturnByCategory), Entries)
           S == {periods[x].return.to : x \in DOMAIN periods}
           ends == InOrder(S)
           F == First(EntryAt(o))
           D == F + Interval
           at == {x \in DOMAIN periods : periods[x].return.to = D}
           ending == ItemsAt(periods, at)
           n == Len(ending)
<1>1. \A p \in Places : /\ Steady(EntryAt(p)) /\ Untraded(EntryAt(p))
                        /\ First(EntryAt(p)) = F
  BY DEF OnePortfolio
<1>2. PICK T, pos : periods \in Seq(T) /\ Lists(pos, Returned, Period, periods)
  BY <1>1, PeriodsOfEntries
<1>3. report.totalReturns
        = [k \in DOMAIN ends |->
            [from |-> ends[k] - Interval, to |-> ends[k],
             rate |-> finalReturn(ItemsAt(periods, {x \in DOMAIN periods : periods[x].return.to = ends[k]}),
                                  Entries, state.totalHoldings)]]
  BY DEF ReturnInv, CalculateWeightedTotalReturns, Select
<1> HIDE DEF periods
<1>4. ASSUME NEW p \in Places
      PROVE  /\ F \in Int /\ Interval \in Nat \ {0}
             /\ 1 \in DOMAIN ReturnsOf(p[1], p[2]) /\ ReturnsOf(p[1], p[2])[1].to = D
             /\ \A j \in DOMAIN ReturnsOf(p[1], p[2]) :
                  /\ ReturnsOf(p[1], p[2])[j].to \in Int /\ D <= ReturnsOf(p[1], p[2])[j].to
                  /\ ReturnsOf(p[1], p[2])[j].to = D => j = 1
  BY <1>1, FirstReturn DEF StartsWith
<1>5. F \in Int /\ Interval \in Nat \ {0} /\ D \in Int
  <2>1. F \in Int /\ Interval \in Nat \ {0}
    BY <1>4
  <2> HIDE DEF F
  <2> QED BY <2>1
<1> HIDE DEF D, F
<1>6. ASSUME NEW y \in Returned
      PROVE  /\ y[1] \in Places /\ y = <<y[1], y[2]>>
             /\ pos[y] \in DOMAIN periods /\ periods[pos[y]] = Period[y]
             /\ Period[y].return.to \in Int /\ D <= Period[y].return.to
             /\ Period[y].return.to = D => y[2] = 1
  <2>1. y[1] \in Places /\ y[2] \in DOMAIN ReturnsOf(y[1][1], y[1][2]) /\ y = <<y[1], y[2]>>
    BY DEF Returned
  <2>2. Period[y].return = ReturnsOf(y[1][1], y[1][2])[y[2]]
    BY DEF Period
  <2>3. pos[y] \in DOMAIN periods /\ periods[pos[y]] = Period[y]
    BY <1>2 DEF Lists
  <2> QED
    BY <1>4, <2>1, <2>2, <2>3
<1>7. ASSUME NEW p \in Places
      PROVE  <<p, 1>> \in Returned /\ Period[<<p, 1>>] = FirstPeriod(p) /\ FirstPeriod(p).return.to = D
  <2>1. <<p, 1>> \in Returned
    BY <1>4 DEF Returned
  <2> QED
    BY <1>4, <2>1 DEF Period, FirstPeriod
<1>8. S \in SUBSET Int /\ IsFiniteSet(S) /\ \A x \in S : D <= x
  <2>1. \A x \in DOMAIN periods : periods[x].return.to \in Int /\ D <= periods[x].return.to
    <3> SUFFICES ASSUME NEW x \in DOMAIN periods
                 PROVE  periods[x].return.to \in Int /\ D <= periods[x].return.to
      OBVIOUS
    <3>1. PICK y \in Returned : pos[y] = x
      BY <1>2 DEF Lists
    <3> QED
      BY <1>6, <3>1
  <2>2. DOMAIN periods = 1 .. Len(periods) /\ Len(periods) \in Nat
    BY <1>2
  <2>3. IsFiniteSet(DOMAIN periods)
    BY <2>2, FS_Interval
  <2> DEFINE f == [x \in DOMAIN periods |-> periods[x].return.to]
  <2>4. IsFiniteSet({f[x] : x \in DOMAIN periods})
    <3>1. DOMAIN f = DOMAIN periods
      OBVIOUS
    <3> HIDE DEF f
    <3> QED BY <2>3, <3>1, FiniteImage
  <2>5. {f[x] : x \in DOMAIN periods} = S
    OBVIOUS
  <2> QED
    BY <2>1, <2>4, <2>5
<1>9. D \in S
  <2>1. pos[<<o, 1>>] \in DOMAIN periods /\ periods[pos[<<o, 1>>]].return.to = D
    BY <1>6, <1>7
  <2> QED
    BY <2>1
<1> HIDE DEF S
<1>10. 1 \in DOMAIN ends /\ ends[1] = D
  <2> DEFINE m == Cardinality(S)
  <2>1. /\ m \in Nat /\ ends \in [1 .. m -> S]
        /\ \A i, j \in 1 .. m : i < j => ends[i] < ends[j]
        /\ \A x \in S : \E i \in 1 .. m : ends[i] = x
    BY <1>8, InOrderSorts DEF Sorts
  <2> HIDE DEF m, ends
  <2>2. PICK i \in 1 .. m : ends[i] = D
    BY <1>9, <2>1
  <2>3. 1 \in 1 .. m /\ i \in Int /\ 1 <= i
    BY <2>1
  <2>4. ends[1] \in Int /\ D <= ends[1]
    BY <1>8, <2>1, <2>3
  <2>5. ~ (1 < i)
    <3> SUFFICES ASSUME 1 < i PROVE FALSE
      OBVIOUS
    <3>1. ends[1] < ends[i]
      BY <2>1, <2>3
    <3> QED
      BY <1>5, <2>2, <2>4, <3>1
  <2>6. i = 1
    BY <2>3, <2>5
  <2> QED
    BY <2>1, <2>2, <2>3, <2>6
<1>11. report.totalReturns[1] = [from |-> F, to |-> D,
                                 rate |-> finalReturn(ending, Entries, state.totalHoldings)]
  <2>1. D - Interval = F
    BY <1>5 DEF D
  <2> HIDE DEF ends
  <2> QED
    BY <1>3, <1>10, <2>1
<1> DEFINE Q == {x \in Returned : pos[x] \in at}
<1>12. PICK to : Lists(to, Q, Period, ending)
  <2>1. at \in SUBSET (DOMAIN periods)
    OBVIOUS
  <2> HIDE DEF at, Q, ending
  <2>2. Q = {x \in Returned : pos[x] \in at}
    BY DEF Q
  <2>3. \E to : Lists(to, Q, Period, ItemsAt(periods, at))
    BY <1>2, <2>1, <2>2, TakenLists
  <2> QED
    BY <2>3 DEF ending
<1>13. ending \in Seq(T)
  <2>1. at \in SUBSET (DOMAIN periods)
    OBVIOUS
  <2> HIDE DEF at
  <2> QED BY <1>2, <2>1, ItemsOfPlaces
<1>14. n \in Nat /\ DOMAIN ending = 1 .. n
  <2> HIDE DEF ending
  <2> QED BY <1>13
<1>15. ASSUME NEW x \in Q PROVE x[1] \in Places /\ x = <<x[1], 1>> /\ Period[x] = FirstPeriod(x[1])
  <2>1. x \in Returned /\ periods[pos[x]].return.to = D
    OBVIOUS
  <2>2. x[1] \in Places /\ x = <<x[1], x[2]>> /\ x[2] = 1
    BY <1>6, <2>1
  <2> QED
    BY <1>7, <2>2
<1>16. ASSUME NEW p \in Places PROVE <<p, 1>> \in Q
  <2>1. <<p, 1>> \in Returned /\ Period[<<p, 1>>].return.to = D
    BY <1>7
  <2>2. pos[<<p, 1>>] \in DOMAIN periods /\ periods[pos[<<p, 1>>]].return.to = D
    BY <1>6, <2>1
  <2> QED
    BY <2>1, <2>2
<1> HIDE DEF Q, ending, n, at
<1> DEFINE item(i) == CHOOSE x \in Q : to[x] = i
           place == [i \in 1 .. n |-> item(i)[1]]
<1>17. ASSUME NEW i \in 1 .. n
       PROVE  item(i) \in Q /\ to[item(i)] = i /\ place[i] = item(i)[1]
  <2>1. \E x \in Q : to[x] = i
    BY <1>12, <1>14 DEF Lists
  <2> QED
    BY <2>1
<1> HIDE DEF item
<1>18. /\ place \in [1 .. n -> Places]
       /\ \A i \in 1 .. n : item(i) = <<place[i], 1>>
  BY <1>15, <1>17
<1> HIDE DEF place
<1>19. \A i, j \in 1 .. n : place[i] = place[j] => i = j
  BY <1>17, <1>18
<1>20. ASSUME NEW p \in Places PROVE \E i \in 1 .. n : place[i] = p
  <2> DEFINE i == to[<<p, 1>>]
  <2>1. <<p, 1>> \in Q /\ i \in 1 .. n
    BY <1>12, <1>14, <1>16 DEF Lists
  <2>2. item(i) \in Q /\ to[item(i)] = to[<<p, 1>>]
    BY <1>17, <2>1
  <2>3. item(i) = <<p, 1>>
    BY <1>12, <2>1, <2>2 DEF Lists
  <2>4. place[i] = p
    BY <1>17, <2>1, <2>3
  <2> QED
    BY <2>1, <2>4
<1>21. \A i \in 1 .. n : ending[i] = FirstPeriod(place[i])
  <2> SUFFICES ASSUME NEW i \in 1 .. n PROVE ending[i] = FirstPeriod(place[i])
    OBVIOUS
  <2>1. ending[to[item(i)]] = Period[item(i)]
    BY <1>12, <1>17 DEF Lists
  <2> QED
    BY <1>15, <1>17, <2>1
<1>22. n \in Nat \ {0}
  BY <1>14, <1>20
<1>23. FirstOfAll(ending, place, n)
  BY <1>14, <1>18, <1>19, <1>20, <1>21, <1>22 DEF FirstOfAll
<1> QED
  BY <1>11, <1>23 DEF D, F

LEMMA FirstTotal ==
  ASSUME ReturnInv
  PROVE  FirstTotalIsGrowth
<1> SUFFICES ASSUME HasReport, OnePortfolio,
                    state.totalHoldings[report.totalReturns[1].from] > 0
             PROVE  LET r == report.totalReturns[1] IN
                    Plus(Unity, r.rate) = Fraction(Portfolio(Until(r)), Portfolio(r.from))
  BY DEF FirstTotalIsGrowth
<1> DEFINE o == CHOOSE p \in Places : TRUE
           r == report.totalReturns[1]
           F == First(EntryAt(o))
           L == Latest(EntryAt(o))
           u == UpTo(F + Interval, L)
           t == state.totalHoldings[F]
           U == [p \in Places |-> Worth(p, u)]
           V == [p \in Places |-> Worth(p, F)]
<1>1. o \in Places /\ OneEntryEach
  BY DEF OnePortfolio
<1>2. \A p \in Places : /\ Steady(EntryAt(p)) /\ Untraded(EntryAt(p))
                        /\ F = First(EntryAt(p)) /\ L = Latest(EntryAt(p))
  BY <1>1 DEF OnePortfolio
<1>3. Until(r) = UpTo(r.to, L)
  BY DEF Until, UpTo
<1> HIDE DEF o
<1>4. PICK ending, place, n :
        /\ FirstOfAll(ending, place, n)
        /\ r = [from |-> F, to |-> F + Interval, rate |-> finalReturn(ending, Entries, state.totalHoldings)]
  BY <1>1, FirstEnds
<1>5. r.from = F /\ Until(r) = u /\ r.rate = finalReturn(ending, Entries, state.totalHoldings)
  <2> HIDE DEF r, F, L
  <2> QED BY <1>3, <1>4
<1>6. t > 0
  BY <1>5
<1> HIDE DEF r, F, L
<1> DEFINE weight(i) == assetWeight(ending[i], Entries, state.totalHoldings)
           weights  == [i \in DOMAIN ending |-> weight(i)]
           weighted == [i \in DOMAIN ending |-> Times(ending[i].return.rate, weight(i))]
<1>7. finalReturn(ending, Entries, state.totalHoldings) = WeightedTotal(SumOf(weighted), SumOf(weights))
  BY DEF finalReturn
<1>8. /\ n \in Nat \ {0} /\ DOMAIN ending = 1 .. n /\ place \in [1 .. n -> Places]
      /\ \A i, j \in 1 .. n : place[i] = place[j] => i = j
      /\ \A p \in Places : \E i \in 1 .. n : place[i] = p
      /\ \A i \in 1 .. n : ending[i] = FirstPeriod(place[i])
  BY <1>4 DEF FirstOfAll
<1>9. ASSUME NEW p \in Places
      PROVE  /\ Worth(p, F) \in Nat \ {0} /\ Worth(p, u) \in Int
             /\ t \in Nat \ {0}
             /\ LET w == assetWeight(FirstPeriod(p), Entries, state.totalHoldings) IN
                /\ Is(w, Worth(p, F), t)
                /\ Is(Times(FirstPeriod(p).return.rate, w), Worth(p, u) - Worth(p, F), t)
  <2>1. Steady(EntryAt(p)) /\ Untraded(EntryAt(p)) /\ F = First(EntryAt(p)) /\ L = Latest(EntryAt(p))
    BY <1>2
  <2>2. Worth(p, F) \in Nat \ {0} /\ Worth(p, u) \in Int
    BY <2>1, FirstReturn DEF StartsWith
  <2>3. /\ t \in Nat \ {0}
        /\ LET w == assetWeight(FirstPeriod(p), Entries, state.totalHoldings) IN
           /\ Is(w, Worth(p, F), t)
           /\ Is(Times(FirstPeriod(p).return.rate, w), Worth(p, u) - Worth(p, F), t)
    BY <1>1, <1>6, <2>1, FirstPeriodWeighs
  <2> QED
    BY <2>2, <2>3
<1>10. t \in Nat \ {0} /\ n \in Nat /\ n \in Nat \ {0}
  <2> HIDE DEF t, u
  <2> QED BY <1>1, <1>8, <1>9
<1>11. U \in [Places -> Int] /\ V \in [Places -> Int] /\ V \in [Places -> Nat \ {0}]
  <2> HIDE DEF t, u
  <2>1. \A p \in Places : Worth(p, u) \in Int /\ Worth(p, F) \in Nat \ {0} /\ Worth(p, F) \in Int
    BY <1>9
  <2> QED BY <2>1
<1>12. \A p \in Places : U[p] = Worth(p, u) /\ V[p] = Worth(p, F)
  OBVIOUS
<1>13. Portfolio(u) = (CHOOSE iter : IsSummed(iter, U, Places))[Places]
       /\ Portfolio(F) = (CHOOSE iter : IsSummed(iter, V, Places))[Places]
  <2> HIDE DEF u
  <2> QED BY PortfolioIsSummed
<1> HIDE DEF t, u, U, V
<1> DEFINE iu == CHOOSE iter : IsSummed(iter, U, Places)
           iv == CHOOSE iter : IsSummed(iter, V, Places)
<1>14. IsSummed(iu, U, Places) /\ IsSummed(iv, V, Places)
  BY <1>11, PlacesAreFinite, SummedExists
<1> HIDE DEF iu, iv
<1> DEFINE a == [i \in 1 .. n |-> U[place[i]]]
           b == [i \in 1 .. n |-> V[place[i]]]
<1>15. AddsUp(a, n, iu[Places])
  <2>1. PICK W : SumsAlong(W, U, place, n, iu[Places])
    BY <1>8, <1>10, <1>11, <1>14, PlacesAreFinite, SummedAlong
  <2> QED
    BY <2>1 DEF SumsAlong, AddsUp
<1>16. AddsUp(b, n, iv[Places])
  <2>1. PICK W : SumsAlong(W, V, place, n, iv[Places])
    BY <1>8, <1>10, <1>11, <1>14, PlacesAreFinite, SummedAlong
  <2> QED
    BY <2>1 DEF SumsAlong, AddsUp
<1>17. Shares(weighted, weights, a, b, n, t)
  <2>1. /\ DOMAIN weighted = 1 .. n /\ DOMAIN weights = 1 .. n
        /\ a \in [1 .. n -> Int] /\ b \in [1 .. n -> Nat \ {0}]
    BY <1>8, <1>11
  <2>2. ASSUME NEW i \in 1 .. n
        PROVE  Is(weights[i], b[i], t) /\ Is(weighted[i], a[i] - b[i], t)
    <3>1. place[i] \in Places /\ ending[i] = FirstPeriod(place[i])
      BY <1>8
    <3>2. weights[i] = weight(i) /\ weighted[i] = Times(ending[i].return.rate, weight(i))
      BY <1>8
    <3>3. a[i] = Worth(place[i], u) /\ b[i] = Worth(place[i], F)
      BY <1>12, <3>1
    <3> HIDE DEF weights, weighted, a, b
    <3> QED
      BY <1>9, <3>1, <3>2, <3>3
  <2> HIDE DEF weights, weighted, a, b
  <2> QED
    BY <2>1, <2>2 DEF Shares
<1> HIDE DEF weights, weighted, a, b
<1>18. Plus(Unity, WeightedTotal(SumOf(weighted), SumOf(weights))) = Fraction(iu[Places], iv[Places])
  BY <1>10, <1>15, <1>16, <1>17, GrowthOfPortfolio
<1> QED
  BY <1>5, <1>7, <1>13, <1>18 DEF iu, iv, r

(***************************************************************************)
(* The first return of the whole is the growth of the value of the         *)
(* entries it is made of, for all books, intervals and ranges in which     *)
(* they are held, untraded, over the same days.                            *)
(***************************************************************************)
THEOREM FirstTotalsAreGrowth == Spec => []FirstTotalIsGrowth
<1>1. ReturnInv => FirstTotalIsGrowth
  BY FirstTotal
<1> QED
  BY <1>1, ReturnInvariance, PTL

-----------------------------------------------------------------------------
-----------------------------------------------------------------------------
(***************************************************************************)
(* Nothing that was read is lost on the way to the entries.                *)
(***************************************************************************)
\* Every item of the sequences is an item of their concatenation.
LEMMA FlattenCovers ==
  ASSUME NEW n \in Nat, NEW T, NEW seqs \in [1 .. n -> Seq(T)],
         NEW i \in 1 .. n, NEW j \in DOMAIN seqs[i]
  PROVE  /\ FlattenSeq(seqs) \in Seq(T)
         /\ seqs[i][j] \in ToSet(FlattenSeq(seqs))
<1>1. PICK pos : Arranged(pos, seqs, FlattenSeq(seqs))
  BY FlattenArranged
<1>2. <<i, j>> \in Positions(seqs)
  <2>1. i \in DOMAIN seqs
    OBVIOUS
  <2> QED
    BY <2>1, PositionsAre
<1>3. pos[<<i, j>>] \in DOMAIN FlattenSeq(seqs) /\ FlattenSeq(seqs)[pos[<<i, j>>]] = seqs[i][j]
  BY <1>1, <1>2 DEF Arranged
<1>4. FlattenSeq(seqs) \in Seq(T)
  BY FlattenIsSeq
<1> QED
  BY <1>3, <1>4 DEF ToSet

\* Sorting by date keeps every row.
LEMMA SortCoversRows ==
  ASSUME NEW R, Rows(R)
  PROVE  ToSet(SortedByDate(R)) = R
<1> DEFINE D == {r.date : r \in R}
           days == InOrder(D)
           n == Cardinality(D)
           on(d) == {r \in R : r.date = d}
           pieces == [i \in DOMAIN days |-> SetToSeq(on(days[i]))]
<1>1. D \in SUBSET Int /\ IsFiniteSet(D)
  <2> DEFINE f == [r \in R |-> r.date]
  <2>1. IsFiniteSet({f[r] : r \in R})
    <3> HIDE DEF f
    <3> QED
      BY FiniteImage DEF f, Rows
  <2>2. {f[r] : r \in R} = D
    OBVIOUS
  <2>3. QED
    BY <2>1, <2>2 DEF Rows
<1>2. /\ n \in Nat /\ days \in [1 .. n -> D]
      /\ \A d \in D : \E i \in 1 .. n : days[i] = d
  <2> HIDE DEF D
  <2> QED
    BY <1>1, InOrderSorts DEF Sorts
<1>3. SortedByDate(R) = FlattenSeq(pieces)
  BY DEF SortedByDate
<1> HIDE DEF days, n
<1>4. \A i \in 1 .. n : pieces[i] = SetToSeq(on(days[i]))
  BY <1>2
<1>5. \A d : /\ Cardinality(on(d)) \in Nat
             /\ SetToSeq(on(d)) \in [1 .. Cardinality(on(d)) -> on(d)]
             /\ \A r \in on(d) : \E j \in 1 .. Cardinality(on(d)) : SetToSeq(on(d))[j] = r
  <2> SUFFICES ASSUME NEW d
               PROVE  /\ Cardinality(on(d)) \in Nat
                      /\ SetToSeq(on(d)) \in [1 .. Cardinality(on(d)) -> on(d)]
                      /\ \A r \in on(d) : \E j \in 1 .. Cardinality(on(d)) : SetToSeq(on(d))[j] = r
    OBVIOUS
  <2>1. IsFiniteSet(on(d))
    BY FS_Subset DEF Rows
  <2> HIDE DEF on
  <2> QED
    BY <2>1, SetToSeqLists, SetToSeqCovers
<1>6. pieces \in [1 .. n -> Seq(R)]
  <2>1. DOMAIN pieces = 1 .. n
    BY <1>2
  <2>2. \A d : on(d) \subseteq R
    OBVIOUS
  <2> HIDE DEF on
  <2>3. \A d : SetToSeq(on(d)) \in Seq(R)
    <3> SUFFICES ASSUME NEW d PROVE SetToSeq(on(d)) \in Seq(R)
      OBVIOUS
    <3>1. SetToSeq(on(d)) \in Seq(on(d))
      BY <1>5
    <3> QED
      BY <2>2, <3>1
  <2>4. pieces = [i \in 1 .. n |-> SetToSeq(on(days[i]))]
    BY <1>2
  <2> QED
    BY <2>3, <2>4
<1>7. ASSUME NEW r \in R PROVE r \in ToSet(FlattenSeq(pieces))
  <2>1. r.date \in D
    OBVIOUS
  <2>2. PICK i \in 1 .. n : days[i] = r.date
    BY <1>2, <2>1
  <2>0. r \in on(r.date)
    OBVIOUS
  <2>3. PICK j \in 1 .. Cardinality(on(r.date)) : SetToSeq(on(r.date))[j] = r
    <3> HIDE DEF on
    <3> QED BY <1>5, <2>0
  <2>4. pieces[i] = SetToSeq(on(r.date))
    BY <1>4, <2>2
  <2> HIDE DEF pieces
  <2>5. j \in DOMAIN pieces[i] /\ pieces[i][j] = r
    <3> HIDE DEF on
    <3> QED BY <1>5, <2>3, <2>4
  <2> QED
    BY <1>2, <1>6, <2>5, FlattenCovers
<1>8. FlattenSeq(pieces) \in Seq(R)
  <2> HIDE DEF pieces
  <2> QED
    BY <1>2, <1>6, FlattenIsSeq
<1>9. ToSet(FlattenSeq(pieces)) \subseteq R
  <2> HIDE DEF pieces
  <2> QED
    BY <1>8, SequenceOfItself
<1> HIDE DEF pieces
<1> QED
  BY <1>3, <1>7, <1>9

\* The rows of an asset of a client are its entry's holdings.
LEMMA EntryHasItsRows ==
  ASSUME NEW holdings, NEW transactions, Rows(holdings),
         NEW s, s = buildAccountState(holdings, transactions)
  PROVE  /\ DOMAIN s = {r.asset : r \in holdings \cup transactions}
         /\ \A a \in DOMAIN s : ToSet(s[a].holdings) = {r \in holdings : r.asset = a}
<1>1. ASSUME NEW a \in DOMAIN s PROVE ToSet(s[a].holdings) = {r \in holdings : r.asset = a}
  <2> DEFINE H == {r \in holdings : r.asset = a}
  <2>1. s[a].holdings = SortedByDate(H)
    BY DEF buildAccountState
  <2>2. H \in SUBSET holdings
    OBVIOUS
  <2> HIDE DEF H
  <2>3. Rows(H)
    BY <2>2, RowsOfSubset
  <2>4. ToSet(SortedByDate(H)) = H
    BY <2>3, SortCoversRows
  <2> QED
    BY <2>1, <2>4 DEF H
<1>2. DOMAIN s = {r.asset : r \in holdings \cup transactions}
  BY DEF buildAccountState
<1> QED
  BY <1>1, <1>2

\* Every asset of the state of one of the clients has an entry.
EntriesFor(s, states, C) ==
  \A c \in C : \A a \in DOMAIN states[c] \cap ToSet(AssetIds) :
    \E k \in DOMAIN s.assetsByCategory : \E i \in DOMAIN s.assetsByCategory[k] :
      s.assetsByCategory[k][i].holdings = states[c][a].holdings

LEMMA AssetsHaveEntries ==
  ASSUME NEW C, NEW order \in Seq(C), NEW states, NEW assets, NEW ch, NEW ct, NEW totals,
         NEW s, s = buildAccountStateByCategory(states, order, assets, ch, ct, totals)
  PROVE  EntriesFor(s, states, ToSet(order))
<1> SUFFICES ASSUME NEW c \in ToSet(order), NEW a \in DOMAIN states[c], a \in ToSet(AssetIds)
             PROVE  \E k \in DOMAIN s.assetsByCategory : \E i \in DOMAIN s.assetsByCategory[k] :
                      s.assetsByCategory[k][i].holdings = states[c][a].holdings
  BY DEF EntriesFor
<1> DEFINE category(x) == IF x \in DOMAIN assets THEN assets[x] ELSE "S / C"
           entry(b, x) == [id |-> x, category |-> category(x),
                           holdings |-> states[b][x].holdings,
                           transactions |-> states[b][x].transactions]
           held(x) == {j \in DOMAIN order : x \in DOMAIN states[order[j]]}
           cs(x) == ItemsAt(order, held(x))
           entries(x) == [j \in DOMAIN cs(x) |-> entry(cs(x)[j], x)]
           all == FlattenSeq([j \in DOMAIN AssetIds |-> entries(AssetIds[j])])
           places(k) == {j \in DOMAIN all : all[j].category = k}
           U == {entry(cx[1], cx[2]) : cx \in C \X ToSet(AssetIds)}
<1>1. /\ DOMAIN s.assetsByCategory = {all[i].category : i \in DOMAIN all}
      /\ \A k \in DOMAIN s.assetsByCategory : s.assetsByCategory[k] = ItemsAt(all, places(k))
  BY DEF buildAccountStateByCategory, Select
<1>2. \A x, y : entry(x, y).holdings = states[x][y].holdings
  OBVIOUS
<1> HIDE DEF entry
<1>3. ASSUME NEW x \in ToSet(AssetIds) PROVE entries(x) \in Seq(U)
  <2>1. held(x) \in SUBSET (DOMAIN order)
    OBVIOUS
  <2> HIDE DEF held
  <2>2. cs(x) \in Seq(C)
    BY <2>1, ItemsOfPlaces
  <2> HIDE DEF cs
  <2>3. \A b \in C : entry(b, x) \in U
    <3> SUFFICES ASSUME NEW b \in C PROVE entry(b, x) \in U
      OBVIOUS
    <3>1. <<b, x>> \in C \X ToSet(AssetIds) /\ <<b, x>>[1] = b /\ <<b, x>>[2] = x
      OBVIOUS
    <3> QED
      BY <3>1
  <2> HIDE DEF U
  <2>4. DOMAIN cs(x) = 1 .. Len(cs(x)) /\ Len(cs(x)) \in Nat /\ \A j \in DOMAIN cs(x) : cs(x)[j] \in C
    BY <2>2
  <2>5. entries(x) \in [1 .. Len(cs(x)) -> U]
    BY <2>3, <2>4
  <2> QED
    BY <2>4, <2>5
<1>4. \E j \in DOMAIN entries(a) : entries(a)[j] = entry(c, a)
  <2>1. PICK i \in DOMAIN order : order[i] = c
    BY DEF ToSet
  <2>2. held(a) \in SUBSET (DOMAIN order) /\ i \in held(a)
    BY <2>1
  <2> HIDE DEF held
  <2>3. order[i] \in ToSet(ItemsAt(order, held(a)))
    BY <2>2, ItemsAreThere
  <2>4. c \in ToSet(cs(a))
    BY <2>1, <2>3
  <2> HIDE DEF cs
  <2>5. PICK j \in DOMAIN cs(a) : cs(a)[j] = c
    BY <2>4 DEF ToSet
  <2> QED
    BY <2>5
<1> HIDE DEF entries, U
<1>5. all \in Seq(U) /\ entry(c, a) \in ToSet(all)
  <2> DEFINE n == Len(AssetIds)
             pieces == [j \in DOMAIN AssetIds |-> entries(AssetIds[j])]
  <2>1. n \in Nat /\ DOMAIN AssetIds = 1 .. n /\ \A j \in DOMAIN AssetIds : AssetIds[j] \in ToSet(AssetIds)
    BY AccountAssumption DEF ToSet
  <2>2. PICK i \in DOMAIN AssetIds : AssetIds[i] = a
    BY DEF ToSet
  <2>3. PICK j \in DOMAIN entries(a) : entries(a)[j] = entry(c, a)
    BY <1>4
  <2> HIDE DEF n
  <2>4. pieces \in [1 .. n -> Seq(U)]
    BY <1>3, <2>1
  <2>5. pieces[i] = entries(a)
    BY <2>2
  <2> HIDE DEF pieces
  <2>6. i \in 1 .. n /\ j \in DOMAIN pieces[i] /\ pieces[i][j] = entry(c, a)
    BY <2>1, <2>3, <2>5
  <2>7. FlattenSeq(pieces) \in Seq(U) /\ pieces[i][j] \in ToSet(FlattenSeq(pieces))
    BY <2>1, <2>4, <2>6, FlattenCovers
  <2> QED
    BY <2>6, <2>7 DEF pieces
<1>6. PICK y \in DOMAIN all : all[y] = entry(c, a)
  <2> HIDE DEF all
  <2> QED BY <1>5 DEF ToSet
<1> DEFINE k == all[y].category
<1>7. k \in DOMAIN s.assetsByCategory /\ s.assetsByCategory[k] = ItemsAt(all, places(k))
  <2> HIDE DEF all
  <2> QED BY <1>1
<1>8. places(k) \in SUBSET (DOMAIN all) /\ y \in places(k)
  <2> HIDE DEF all
  <2> QED OBVIOUS
<1> HIDE DEF all, k, places
<1>9. all[y] \in ToSet(ItemsAt(all, places(k)))
  BY <1>5, <1>8, ItemsAreThere
<1>10. PICK i \in DOMAIN s.assetsByCategory[k] : s.assetsByCategory[k][i] = all[y]
  BY <1>7, <1>9 DEF ToSet
<1> QED
  BY <1>2, <1>6, <1>7, <1>10

-----------------------------------------------------------------------------
\* What the entries hold, all together.
Held == UNION {ToSet(EntryAt(p).holdings) : p \in Positions(state.assetsByCategory)}

\* A record with the fields of an entry.
IsEntry(e) == e = [id |-> e.id, category |-> e.category, holdings |-> e.holdings,
                   transactions |-> e.transactions]

\* The entries of a category have it, and the rows of an entry its id; the totals
\* are those of the rows of all entries.
EntriesHold ==
  /\ \A p \in Positions(state.assetsByCategory) :
       /\ IsEntry(EntryAt(p)) /\ EntryAt(p).category = p[1]
       /\ \A h \in ToSet(EntryAt(p).holdings) : h.asset = EntryAt(p).id
  /\ Rows(Held) /\ state.totalHoldings = GetTotalByDate(Held)

LEMMA RowsAreRead ==
  ASSUME books \in Books, query \in Queries, ReadAccounts
  PROVE  EntriesHold'
<1> DEFINE tables == StoreAccountStates(StatesOf(books))
           from == query.from
           to == query.to
<1>1. PICK order \in SetToSeqs(query.ids) :
        state' = GetMultiAccountStateByCategory(tables, order, from, to)
  BY DEF ReadAccounts
<1> DEFINE clients == ToSet(order)
           holdings == GetByClientIDs(tables.holdings, clients, from, to)
           transactions == GetByClientIDs(tables.transactions, clients, from, to)
           own(rows, c) == {r \in rows : r.client = c}
           states == [c \in clients |-> buildAccountState(own(holdings, c), own(transactions, c))]
<1>2. order \in Seq(clients) /\ clients \subseteq Clients /\ IsFiniteSet(clients)
  <2>1. query.ids \subseteq Clients /\ IsFiniteSet(query.ids)
    BY QueriesAssumption
  <2>2. Cardinality(query.ids) \in Nat
    BY <2>1, FS_CardinalityType
  <2>3. order \in [1 .. Cardinality(query.ids) -> query.ids]
    BY <1>1 DEF SetToSeqs
  <2>4. order \in Seq(query.ids)
    BY <2>2, <2>3
  <2>5. order \in Seq(clients) /\ clients \subseteq query.ids
    BY <2>4, SequenceOfItself
  <2> HIDE DEF clients
  <2> QED
    BY <2>1, <2>5, FS_Subset
<1>3. state' = buildAccountStateByCategory(states, order, tables.assets,
                 GetGroupedByCategoryAndDate(holdings, tables.assets),
                 GetGroupedByCategoryAndDate(transactions, tables.assets), GetTotalByDate(holdings))
  BY <1>1 DEF GetMultiAccountStateByCategory
<1>4. Rows(holdings)
  <2>1. clients \in SUBSET Clients
    BY <1>2
  <2> HIDE DEF clients
  <2> QED BY <1>2, <2>1, QueriedRows
<1>5. \A r \in holdings : r.client \in clients /\ r.asset \in ToSet(AssetIds)
  <2>1. \A r \in holdings : r \in tables.holdings /\ r.client \in clients
    BY DEF GetByClientIDs
  <2> HIDE DEF holdings, clients
  <2> QED
    BY <2>1, HoldingsOfAssets
<1>6. state'.totalHoldings = GetTotalByDate(holdings)
  BY <1>3 DEF buildAccountStateByCategory
<1> DEFINE ch == GetGroupedByCategoryAndDate(holdings, tables.assets)
           ct == GetGroupedByCategoryAndDate(transactions, tables.assets)
           total == GetTotalByDate(holdings)
           assets == tables.assets
<1>7. state' = buildAccountStateByCategory(states, order, assets, ch, ct, total)
  BY <1>3
<1>8. \A c \in clients : states[c] = buildAccountState(own(holdings, c), own(transactions, c))
  OBVIOUS
<1> HIDE DEF holdings, transactions, ch, ct, total, assets, states, clients, tables, from, to
<1>9. ASSUME NEW c \in clients
      PROVE  /\ DOMAIN states[c] = {r.asset : r \in own(holdings, c) \cup own(transactions, c)}
             /\ \A a \in DOMAIN states[c] :
                  ToSet(states[c][a].holdings) = {r \in own(holdings, c) : r.asset = a}
  <2> DEFINE H == own(holdings, c)
             T == own(transactions, c)
             s == states[c]
  <2>1. H \in SUBSET holdings /\ s = buildAccountState(H, T)
    BY <1>8
  <2> HIDE DEF H, T, s, own
  <2>2. Rows(H)
    BY <1>4, <2>1, RowsOfSubset
  <2>3. /\ DOMAIN s = {r.asset : r \in H \cup T}
        /\ \A a \in DOMAIN s : ToSet(s[a].holdings) = {r \in H : r.asset = a}
    BY <2>1, <2>2, EntryHasItsRows
  <2> QED
    BY <2>3 DEF H, T, s
<1>20. EntriesFrom(state', states, clients)
  <2>1. order \in Seq(clients)
    BY <1>2
  <2>2. state' = buildAccountStateByCategory(states, order, assets, ch, ct, total)
    BY <1>7
  <2> QED
    BY <2>1, <2>2, EntriesAreAssets
<1>21. EntriesFor(state', states, clients)
  <2>1. order \in Seq(clients)
    BY <1>2
  <2>2. state' = buildAccountStateByCategory(states, order, assets, ch, ct, total)
    BY <1>7
  <2>3. EntriesFor(state', states, ToSet(order))
    BY <2>1, <2>2, AssetsHaveEntries
  <2> QED
    BY <2>3 DEF clients
<1> DEFINE S == state'.assetsByCategory
<1>10. ASSUME NEW k \in DOMAIN S, NEW i \in DOMAIN S[k]
       PROVE  /\ IsEntry(S[k][i]) /\ S[k][i].category = k
              /\ ToSet(S[k][i].holdings) \subseteq holdings
              /\ \A h \in ToSet(S[k][i].holdings) : h.asset = S[k][i].id
  <2>1. PICK c \in clients : \E a \in DOMAIN states[c] : HasHistory(S[k][i], k, a, states[c][a])
    BY <1>10, <1>20 DEF EntriesFrom
  <2>2. PICK a \in DOMAIN states[c] : HasHistory(S[k][i], k, a, states[c][a])
    BY <2>1
  <2>3. ToSet(states[c][a].holdings) = {r \in own(holdings, c) : r.asset = a}
    BY <1>9
  <2>4. IsEntry(S[k][i])
    BY <2>2 DEF HasHistory, IsEntry
  <2>5. S[k][i].category = k /\ S[k][i].id = a /\ ToSet(S[k][i].holdings) = ToSet(states[c][a].holdings)
    BY <2>2 DEF HasHistory
  <2> HIDE DEF S
  <2> QED
    BY <2>3, <2>4, <2>5
<1>11. ASSUME NEW r \in holdings
       PROVE  \E k \in DOMAIN S : \E i \in DOMAIN S[k] : r \in ToSet(S[k][i].holdings)
  <2> DEFINE c == r.client  a == r.asset
  <2>1. c \in clients /\ a \in ToSet(AssetIds) /\ r \in own(holdings, c)
    BY <1>5
  <2>2. a \in DOMAIN states[c] /\ r \in ToSet(states[c][a].holdings)
    <3>1. a \in DOMAIN states[c]
      BY <1>9, <2>1
    <3> QED
      BY <1>9, <2>1, <3>1
  <2> HIDE DEF c, a
  <2>3. \E k \in DOMAIN S : \E i \in DOMAIN S[k] : S[k][i].holdings = states[c][a].holdings
    BY <1>21, <2>1, <2>2 DEF EntriesFor
  <2> HIDE DEF S
  <2> QED
    BY <2>2, <2>3
<1>12. \A p \in Positions(S) : p[1] \in DOMAIN S /\ p[2] \in DOMAIN S[p[1]]
  BY PositionsAre
<1>13. \A k \in DOMAIN S : \A i \in DOMAIN S[k] : <<k, i>> \in Positions(S)
  BY PositionsAre
<1> DEFINE all == UNION {ToSet(S[p[1]][p[2]].holdings) : p \in Positions(S)}
<1>14. all = holdings
  <2> HIDE DEF S
  <2>1. ASSUME NEW r \in all PROVE r \in holdings
    <3>1. PICK p \in Positions(S) : r \in ToSet(S[p[1]][p[2]].holdings)
      OBVIOUS
    <3> HIDE DEF all
    <3> QED
      BY <1>10, <1>12, <3>1
  <2>2. ASSUME NEW r \in holdings PROVE r \in all
    <3>0. PICK k \in DOMAIN S : \E i \in DOMAIN S[k] : r \in ToSet(S[k][i].holdings)
      BY <1>11
    <3>1. PICK i \in DOMAIN S[k] : r \in ToSet(S[k][i].holdings)
      BY <3>0
    <3>2. <<k, i>> \in Positions(S)
      BY <1>13
    <3> QED
      BY <3>1, <3>2
  <2> QED
    BY <2>1, <2>2
<1>15. Held' = all
  BY DEF Held, EntryAt
<1>16. ASSUME NEW p \in Positions(S)
       PROVE  /\ IsEntry(S[p[1]][p[2]]) /\ S[p[1]][p[2]].category = p[1]
              /\ \A h \in ToSet(S[p[1]][p[2]].holdings) : h.asset = S[p[1]][p[2]].id
  <2> HIDE DEF S
  <2> QED
    BY <1>10, <1>12
<1>17. \A p \in Positions(S) : /\ IsEntry(EntryAt(p)') /\ EntryAt(p)'.category = p[1]
                               /\ \A h \in ToSet(EntryAt(p)'.holdings) : h.asset = EntryAt(p)'.id
  BY <1>16 DEF EntryAt
<1>18. Rows(Held') /\ state'.totalHoldings = GetTotalByDate(Held')
  <2> HIDE DEF all
  <2> QED
    BY <1>4, <1>6, <1>14, <1>15
<1> HIDE DEF all
<1>19. EntriesHold' <=>
         /\ \A p \in Positions(S) : /\ IsEntry(EntryAt(p)') /\ EntryAt(p)'.category = p[1]
                                    /\ \A h \in ToSet(EntryAt(p)'.holdings) : h.asset = EntryAt(p)'.id
         /\ Rows(Held') /\ state'.totalHoldings = GetTotalByDate(Held')
  BY DEF EntriesHold, IsEntry
<1> QED
  BY <1>17, <1>18, <1>19

-----------------------------------------------------------------------------
(***************************************************************************)
(* The inductive invariant of what is shown: every stage's result is that  *)
(* of the stages before.                                                   *)
(***************************************************************************)
ShownInv ==
  /\ ReturnInv
  /\ stage # "asked" => EntriesHold
  /\ HasReport => report = GenerateReport(state, query.from, query.to, Interval)
  /\ stage \in {"framed", "done"} => /\ query.from <= query.to
                                     /\ frames = GenerateReportDataframes(report, Variables, GridDays)
  /\ stage = "done" => charts = ParseAccountsReportToPDF(frames, GridDays)

LEMMA ShownStays ==
  ASSUME ShownInv, [Next]_vars
  PROVE  ShownInv'
<1>1. ReturnInv'
  BY ReturnsStay DEF ShownInv
<1>2. CASE ReadAccounts
  <2>1. EntriesHold'
    BY <1>2, RowsAreRead DEF ShownInv, ReturnInv
  <2>2. stage' = "read"
    BY <1>2 DEF ReadAccounts
  <2> QED
    BY <1>1, <2>1, <2>2 DEF ShownInv, HasReport
<1>3. CASE ~ ReadAccounts
  <2>1. query' = query /\ state' = state /\ (stage' # "asked" => stage # "asked")
    BY <1>3 DEF Next, vars, LoopForever, GetReport, RangeRefused, GenerateDataframes,
                GenerateFile, Ended
  <2>2. stage' # "asked" => EntriesHold'
    BY <2>1 DEF ShownInv, EntriesHold, Held, EntryAt
  <2>3. Interval' = Interval /\ GridDays' = GridDays
    BY <2>1 DEF Interval, GridDays
  <2>4. HasReport' => report' = GenerateReport(state', query'.from, query'.to, Interval')
    BY <1>3, <2>1, <2>3 DEF ShownInv, HasReport, Next, vars, LoopForever, GetReport, RangeRefused,
                            GenerateDataframes, GenerateFile, Ended
  <2>5. stage' \in {"framed", "done"} =>
          /\ query'.from <= query'.to
          /\ frames' = GenerateReportDataframes(report', Variables, GridDays')
    BY <1>3, <2>1, <2>3 DEF ShownInv, Next, vars, LoopForever, GetReport, RangeRefused,
                            GenerateDataframes, GenerateFile, Ended
  <2>6. stage' = "done" => charts' = ParseAccountsReportToPDF(frames', GridDays')
    BY <1>3, <2>1, <2>3 DEF ShownInv, Next, vars, LoopForever, GetReport, RangeRefused,
                            GenerateDataframes, GenerateFile, Ended
  <2> QED
    BY <1>1, <2>2, <2>4, <2>5, <2>6 DEF ShownInv
<1> QED
  BY <1>2, <1>3

LEMMA ShownInvariance == Spec => []ShownInv
<1>1. Init => ShownInv
  BY DEF Init, ShownInv, ReturnInv, HasReport
<1>2. ShownInv /\ [Next]_vars => ShownInv'
  BY ShownStays
<1> QED
  BY <1>1, <1>2, PTL DEF Spec

-----------------------------------------------------------------------------
-----------------------------------------------------------------------------
(***************************************************************************)
(* Tables: a column for each entry, a cell for each day.                   *)
(***************************************************************************)
\* The only item at some places is the last of them.
LEMMA OnlyItem ==
  ASSUME NEW T, NEW items \in Seq(T), NEW places \in SUBSET (DOMAIN items),
         NEW x \in DOMAIN items, places = {x}
  PROVE  Last(ItemsAt(items, places)) = items[x]
<1> DEFINE found == ItemsAt(items, places)
<1>1. found \in Seq(T) /\ ToSet(found) = {items[i] : i \in places}
  BY ItemsOfPlaces
<1>2. found # <<>>
  BY ItemsAreTaken
<1> HIDE DEF found
<1>3. Last(found) \in ToSet(found)
  <2>1. Len(found) \in DOMAIN found /\ Last(found) = found[Len(found)]
    BY <1>1, <1>2 DEF Last
  <2> QED
    BY <2>1 DEF ToSet
<1> QED
  BY <1>1, <1>3 DEF found

\* A name that only one entry has finds that entry.
OnlyOneNamed(entries, x) ==
  \A y \in DOMAIN entries :
    (entries[y].category = entries[x].category /\ entries[y].id = entries[x].id) => y = x

LEMMA NameFindsEntry ==
  ASSUME NEW T, NEW entries \in Seq(T), NEW x \in DOMAIN entries, OnlyOneNamed(entries, x),
         NEW n, n = <<entries[x].category, entries[x].id>>
  PROVE  /\ n \in {<<entries[i].category, entries[i].id>> : i \in DOMAIN entries}
         /\ Last(ItemsAt(entries, {y \in DOMAIN entries : <<entries[y].category, entries[y].id>> = n}))
              = entries[x]
<1> DEFINE places == {y \in DOMAIN entries : <<entries[y].category, entries[y].id>> = n}
<1>1. places \in SUBSET (DOMAIN entries) /\ places = {x}
  BY DEF OnlyOneNamed
<1> HIDE DEF places
<1>2. Last(ItemsAt(entries, places)) = entries[x]
  BY <1>1, OnlyItem
<1> QED
  BY <1>2 DEF places

\* Days that lie whole intervals after the first are days of the grid.
LEMMA MultipleOnGrid ==
  ASSUME NEW j \in Int, NEW interval \in Nat \ {0}
  PROVE  (interval * j) % interval = 0
<1> DEFINE m == interval * j
           q == m \div interval
           r == m % interval
<1>1. m \in Int
  OBVIOUS
<1>2. q \in Int /\ r \in Nat /\ r < interval /\ m = interval * q + r
  <2> HIDE DEF m
  <2> QED BY <1>1
<1>3. r = interval * (j - q)
  <2> HIDE DEF q, r
  <2> QED BY <1>2
<1>4. j - q \in Int
  BY <1>2
<1>5. r = 0
  <2> HIDE DEF q, r
  <2> QED BY <1>2, <1>3, <1>4, MultipleBound
<1> QED
  BY <1>5

\* The j-th of the intervals that tile some days ends j intervals after the first day.
LEMMA TileEnds ==
  ASSUME NEW T, NEW rs \in Seq(T), rs # <<>>, NEW first \in Int, NEW last,
         NEW interval \in Nat \ {0}, Tile(rs, first, last, interval)
  PROVE  \A j \in DOMAIN rs : rs[j].to = first + interval * j
<1> DEFINE m == Len(rs)
           S == {j \in Int : rs[j].to = first + interval * j}
           from == 2
<1>1. m \in Nat \ {0} /\ DOMAIN rs = 1 .. m
  OBVIOUS
<1>2. /\ rs[1].from = first
      /\ \A j \in 1 .. m : rs[j].to = rs[j].from + interval
      /\ \A j \in 2 .. m : rs[j].from = rs[j - 1].to
  BY <1>1 DEF Tile
<1> HIDE DEF m
<1>3. from - 1 \in S
  BY <1>1, <1>2
<1>4. ASSUME NEW j \in from .. m, j - 1 \in S PROVE j \in S
  <2> DEFINE t == rs[j].to  u == rs[j].from  w == rs[j - 1].to
  <2>1. j \in 1 .. m /\ j \in 2 .. m /\ j \in Int
    BY <1>1
  <2>2. t = u + interval /\ u = w /\ w = first + interval * (j - 1)
    BY <1>2, <1>4, <2>1
  <2> HIDE DEF t, u, w
  <2>3. t = first + interval * j
    <3>1. interval * (j - 1) = interval * j - interval
      BY <2>1
    <3>2. interval * j \in Int
      BY <2>1
    <3> DEFINE a == interval * j  b == interval * (j - 1)
    <3> HIDE DEF a, b
    <3>3. b = a - interval /\ a \in Int
      BY <3>1, <3>2 DEF a, b
    <3>4. t = first + b + interval
      BY <2>2, <3>3 DEF b
    <3>5. t = first + a
      BY <3>3, <3>4
    <3> QED
      BY <3>5 DEF a
  <2> QED
    BY <2>1, <2>3 DEF t
<1> HIDE DEF S, from
<1>5. from \in Int /\ m \in Int
  BY <1>1 DEF from
<1>6. \A j \in from .. m : j \in S
  BY <1>3, <1>4, <1>5, DayInduction
<1>7. \A j \in 1 .. m : j \in S
  <2>1. \A j \in 1 .. m : j = 1 \/ j \in from .. m
    BY <1>1 DEF from
  <2>2. 1 \in S
    BY <1>3 DEF from
  <2> QED
    BY <1>6, <2>1, <2>2
<1> QED
  BY <1>1, <1>7 DEF S

-----------------------------------------------------------------------------
\* Where every entry has an id of its own, the id tells the entry's place.
LEMMA IdTellsPlace ==
  ASSUME ReturnInv, stage # "asked", OneEntryEach,
         NEW p \in Positions(state.assetsByCategory), NEW q \in Positions(state.assetsByCategory),
         EntryAt(p).id = EntryAt(q).id
  PROVE  p = q
<1> DEFINE assets == state.assetsByCategory
<1>1. PICK T : \A k \in DOMAIN assets : assets[k] \in Seq(T)
  BY DEF ReturnInv, ReadTotals
<1>2. IsFiniteSet(DOMAIN assets)
  BY DEF ReturnInv, ReadTotals
<1> HIDE DEF assets
<1>3. PICK pos : Arranged(pos, assets, Flat(assets))
  BY <1>1, <1>2, FlatArranged
<1>4. /\ pos[p] \in DOMAIN Flat(assets) /\ Flat(assets)[pos[p]] = EntryAt(p)
      /\ pos[q] \in DOMAIN Flat(assets) /\ Flat(assets)[pos[q]] = EntryAt(q)
  BY <1>3 DEF Arranged, EntryAt, assets
<1>5. pos[p] = pos[q]
  BY <1>4 DEF OneEntryEach, Entries, assets
<1> QED
  BY <1>3, <1>5 DEF Arranged, assets

LEMMA PlacesArePositions ==
  \A p \in Places : /\ p \in Positions(state.assetsByCategory)
                    /\ p[1] \in Earning(DOMAIN state.assetsByCategory)
                    /\ p[1] \in DOMAIN state.assetsByCategory
                    /\ p[2] \in DOMAIN state.assetsByCategory[p[1]]
                    /\ p = <<p[1], p[2]>>
BY DEF Places, Positions, Earning

\* The table's column of an entry with returns is made of them.
LEMMA ReturnsHaveColumn ==
  ASSUME ShownInv, HasReport, OneEntryEach, NEW p \in Places,
         ReturnsOf(p[1], p[2]) # <<>>, Identified(EntryAt(p))
  PROVE  LET all == Flat(report.assetsReturnByCategory) IN
         /\ \E T : all \in Seq(T)
         /\ \E x \in DOMAIN all : /\ OnlyOneNamed(all, x)
                                  /\ all[x].category = p[1] /\ all[x].id = EntryAt(p).id
                                  /\ all[x].returns = ReturnsOf(p[1], p[2])
<1> DEFINE all == Flat(report.assetsReturnByCategory)
<1>1. PICK pos : all \in Seq({Result(q) : q \in Places}) /\ Lists(pos, Places, Results, all)
  BY ResultsOfEntries DEF ShownInv
<1> HIDE DEF all
<1>2. \A q \in Places : all[pos[q]] = Result(q) /\ pos[q] \in DOMAIN all
  BY <1>1 DEF Lists, Results
<1>3. \A y \in DOMAIN all : \E q \in Places : pos[q] = y
  BY <1>1 DEF Lists
<1>4. Len(EntryAt(p).holdings) >= 2 /\ Len(EntryAt(p).holdings) \in Nat
  <2> DEFINE hs == EntryAt(p).holdings
  <2>1. hs \in Seq(ToSet(hs)) /\ Len(hs) >= 2
    BY ReturnsOfEntry DEF ShownInv
  <2> HIDE DEF hs
  <2>2. Len(hs) \in Nat
    BY <2>1
  <2> QED
    BY <2>1, <2>2 DEF hs
<1>5. ~ (Len(EntryAt(p).holdings) < 2)
  <2> DEFINE n == Len(EntryAt(p).holdings)
  <2>1. n >= 2 /\ n \in Nat
    BY <1>4
  <2> HIDE DEF n
  <2>2. ~ (n < 2)
    BY <2>1
  <2> QED
    BY <2>2 DEF n
<1>6. /\ Result(p).id = EntryAt(p).id /\ Result(p).category = EntryAt(p).category
      /\ Result(p).returns = CalculateHoldingsReturn(EntryAt(p).holdings, EntryAt(p).transactions, Interval)
  BY <1>5 DEF Result, CalculateAssetReturn
<1>7. Result(p).returns = ReturnsOf(p[1], p[2])
  BY <1>6, ReturnsOfEntry DEF ShownInv
<1>8. EntryAt(p).category = p[1]
  BY PlacesArePositions DEF ShownInv, EntriesHold, HasReport
<1>9. ASSUME NEW y \in DOMAIN all, all[y].id = EntryAt(p).id PROVE y = pos[p]
  <2>1. PICK q \in Places : pos[q] = y
    BY <1>3
  <2>2. all[y] = Result(q)
    BY <1>2, <2>1
  <2>3. Result(q).id = "" \/ Result(q).id = EntryAt(q).id
    BY DEF Result, CalculateAssetReturn
  <2>4. EntryAt(q).id = EntryAt(p).id
    BY <1>9, <2>2, <2>3 DEF Identified
  <2>5. q = p
    <3>1. p \in Positions(state.assetsByCategory) /\ q \in Positions(state.assetsByCategory)
      BY PlacesArePositions
    <3>2. ReturnInv /\ stage # "asked"
      BY DEF ShownInv, HasReport
    <3> QED
      BY <2>4, <3>1, <3>2, IdTellsPlace
  <2> QED
    BY <2>1, <2>5
<1>10. all[pos[p]] = Result(p) /\ pos[p] \in DOMAIN all
  BY <1>2
<1>11. OnlyOneNamed(all, pos[p])
  BY <1>6, <1>9, <1>10 DEF OnlyOneNamed
<1> QED
  BY <1>1, <1>6, <1>7, <1>8, <1>10, <1>11 DEF all

\* The cell of a return, at the day that only this return ends on.
LEMMA CellOfReturn ==
  ASSUME NEW T, NEW rs \in Seq(T), NEW j \in DOMAIN rs, NEW dates, rs[j].to \in dates,
         \A i \in DOMAIN rs : rs[i].to = rs[j].to => i = j
  PROVE  Merged(ReturnColumn(rs, dates), [d \in dates |-> 0])[rs[j].to] = Percentage(rs[j].rate)
<1> DEFINE at == rs[j].to
           places == {i \in DOMAIN rs : rs[i].to = at}
           ended == {rs[i].to : i \in DOMAIN rs} \cap dates
           column == ReturnColumn(rs, dates)
           none == [d \in dates |-> 0]
<1>1. places \in SUBSET (DOMAIN rs) /\ places = {j}
  OBVIOUS
<1>2. Select(rs, LAMBDA r : r.to = at) = ItemsAt(rs, places)
  BY DEF Select
<1>3. Last(ItemsAt(rs, places)) = rs[j]
  <2> HIDE DEF places
  <2> QED BY <1>1, OnlyItem
<1>4. DOMAIN column = ended /\ at \in ended
  BY DEF ReturnColumn
<1>5. column[at] = Percentage(Last(Select(rs, LAMBDA r : r.to = at)).rate)
  BY <1>4 DEF ReturnColumn
<1>6. column[at] = Percentage(rs[j].rate)
  <2> HIDE DEF column, places
  <2> QED BY <1>2, <1>3, <1>5
<1>7. Merged(column, none)[at] = column[at]
  <2> HIDE DEF column, none, ended, at
  <2> QED BY <1>4 DEF Merged
<1> QED
  BY <1>6, <1>7

-----------------------------------------------------------------------------
\* The days on which the returns of an entry end that has them from the first day on.
LEMMA ReturnsEndOnGrid ==
  ASSUME ShownInv, HasReport, NEW p \in Places, ReturnsOf(p[1], p[2]) # <<>>,
         First(EntryAt(p)) = query.from
  PROVE  LET rs == ReturnsOf(p[1], p[2]) IN
         /\ \E T : rs \in Seq(T)
         /\ \A j \in DOMAIN rs : /\ rs[j].to <= query.to => rs[j].to \in GridDays
                                 /\ \A i \in DOMAIN rs : rs[i].to = rs[j].to => i = j
<1> DEFINE e == EntryAt(p)
           rs == ReturnsOf(p[1], p[2])
           from == query.from
<1>1. /\ Interval \in Nat \ {0} /\ First(e) \in Int /\ Latest(e) \in Int
      /\ rs = CalculateHoldingsReturn(e.holdings, e.transactions, Interval)
  BY ReturnsOfEntry DEF ShownInv
<1>2. from \in Int /\ query.to \in Int
  BY QueriesAssumption DEF ShownInv, ReturnInv
<1>3. PICK T : rs \in Seq(T)
  <2> DEFINE hs == e.holdings  ts == e.transactions
  <2>1. Head(hs).date \in Int /\ Last(hs).date \in Int /\ rs # <<>>
        /\ rs = CalculateHoldingsReturn(hs, ts, Interval)
    BY <1>1 DEF First, Latest
  <2> HIDE DEF hs, ts, rs
  <2> QED
    BY <1>1, <2>1, HoldingsReturnTiles
<1>4. Tile(rs, First(e), Latest(e), Interval)
  <2> HIDE DEF e
  <2> QED
    BY <1>1, HoldingsReturnTiles DEF First, Latest
<1>5. First(e) = from /\ rs # <<>>
  OBVIOUS
<1> HIDE DEF e, rs, from
<1>6. ASSUME NEW j \in DOMAIN rs PROVE j \in Nat /\ rs[j].to = from + Interval * j
  <2>1. \A i \in DOMAIN rs : rs[i].to = First(e) + Interval * i
    BY <1>1, <1>3, <1>4, <1>5, TileEnds
  <2>2. j \in Nat
    BY <1>3
  <2> QED
    BY <1>5, <2>1, <2>2
<1>7. ASSUME NEW j \in DOMAIN rs, rs[j].to <= query.to PROVE rs[j].to \in GridDays
  <2> DEFINE a == Interval * j  d == rs[j].to
  <2>1. a \in Nat /\ d = from + a
    BY <1>1, <1>6
  <2>2. a % Interval = 0
    BY <1>1, <1>6, MultipleOnGrid
  <2> HIDE DEF a, d
  <2>3. d - from = a /\ d \in Int /\ from <= d
    BY <1>2, <2>1
  <2>4. d <= query.to
    BY <1>7 DEF d
  <2>5. d \in from .. query.to /\ (d - from) % Interval = 0
    BY <1>2, <2>2, <2>3, <2>4
  <2> QED
    BY <2>5 DEF GridDays, GenerateDates, Grid, d, from
<1>8. ASSUME NEW j \in DOMAIN rs, NEW i \in DOMAIN rs, rs[i].to = rs[j].to PROVE i = j
  <2> DEFINE a == Interval * j  b == Interval * i
  <2>1. a \in Int /\ b \in Int /\ from + a = from + b
    BY <1>1, <1>6, <1>8
  <2>2. a = b
    <3> HIDE DEF a, b
    <3> QED BY <1>2, <2>1
  <2> QED
    BY <1>1, <1>6, <2>2, Cancel
<1> QED
  BY <1>3, <1>7, <1>8 DEF rs

(***************************************************************************)
(* A return is in the table of returns, at the date it ends, for all       *)
(* books, intervals and ranges.                                            *)
(***************************************************************************)
THEOREM ReturnsAreShown == Spec => []ReturnsShownAtTheirEnd
<1>1. ShownInv => ReturnsShownAtTheirEnd
  <2> SUFFICES ASSUME ShownInv, stage \in {"framed", "done"}, OneEntryEach, NEW p \in Places,
                      ReturnsOf(p[1], p[2]) # <<>>, First(EntryAt(p)) = query.from,
                      Identified(EntryAt(p)), NEW j \in DOMAIN ReturnsOf(p[1], p[2]),
                      ReturnsOf(p[1], p[2])[j].to <= query.to
               PROVE  /\ ReturnsOf(p[1], p[2])[j].to \in GridDays
                      /\ frames.ReturnDF[<<p[1], EntryAt(p).id>>][ReturnsOf(p[1], p[2])[j].to]
                           = Percentage(ReturnsOf(p[1], p[2])[j].rate)
    BY DEF ReturnsShownAtTheirEnd
  <2> DEFINE rs == ReturnsOf(p[1], p[2])
             d == rs[j].to
             n == <<p[1], EntryAt(p).id>>
             all == Flat(report.assetsReturnByCategory)
             column(e) == Merged(ReturnColumn(e.returns, GridDays), [x \in GridDays |-> 0])
             columns == Columns(all, column)
             total == IF report.totalReturns = <<>> THEN <<>>
                      ELSE Named(TOTAL, ReturnColumn(report.totalReturns, GridDays))
  <2>1. HasReport
    BY DEF HasReport
  <2>2. PICK T : rs \in Seq(T)
    BY <2>1, ReturnsEndOnGrid
  <2>3. d \in GridDays /\ \A i \in DOMAIN rs : rs[i].to = d => i = j
    BY <2>1, ReturnsEndOnGrid
  <2>4. PICK U : all \in Seq(U)
    BY <2>1, ReturnsHaveColumn
  <2>5. PICK x \in DOMAIN all : /\ OnlyOneNamed(all, x)
                                /\ all[x].category = p[1] /\ all[x].id = EntryAt(p).id
                                /\ all[x].returns = rs
    BY <2>1, ReturnsHaveColumn
  <2>6. frames.ReturnDF = Merged(columns, total)
    BY DEF ShownInv, GenerateReportDataframes, parseAccountsReturnToDataFrame
  <2>7. n = <<all[x].category, all[x].id>>
    BY <2>5
  <2> DEFINE names == {<<all[i].category, all[i].id>> : i \in DOMAIN all}
             one == Last(ItemsAt(all, {y \in DOMAIN all : <<all[y].category, all[y].id>> = n}))
  <2>8. n \in names /\ one = all[x]
    <3> HIDE DEF all, n, rs
    <3> QED BY <2>4, <2>5, <2>7, NameFindsEntry
  <2>9. DOMAIN columns = names /\ (n \in names => columns[n] = column(one))
    BY DEF Columns, Select
  <2>10. column(all[x])[d] = Percentage(rs[j].rate)
    <3> HIDE DEF all
    <3>1. column(all[x]) = Merged(ReturnColumn(rs, GridDays), [y \in GridDays |-> 0])
      BY <2>5
    <3> HIDE DEF rs, column
    <3>2. Merged(ReturnColumn(rs, GridDays), [y \in GridDays |-> 0])[d] = Percentage(rs[j].rate)
      BY <2>2, <2>3, CellOfReturn DEF rs
    <3> QED
      BY <3>1, <3>2
  <2> HIDE DEF columns, total, names, one, column
  <2>11. Merged(columns, total)[n] = columns[n]
    <3> HIDE DEF n
    <3> QED BY <2>8, <2>9 DEF Merged
  <2> HIDE DEF all, n, d
  <2>12. frames.ReturnDF[n][d] = Percentage(rs[j].rate)
    BY <2>6, <2>8, <2>9, <2>10, <2>11
  <2> QED
    BY <2>3, <2>12 DEF n, d
<1> QED
  BY <1>1, ShownInvariance, PTL

-----------------------------------------------------------------------------
(***************************************************************************)
(* Shares: the sum of a function's values over a finite set.               *)
(***************************************************************************)
SumOver(v, S) == (CHOOSE iter : IsSummed(iter, v, S))[S]

IsAmounts(v, S) == IsFiniteSet(S) /\ \A x \in S : v[x] \in Int

\* Induction over the subsets of a finite set, a member at a time.
LEMMA SubsetInduction ==
  ASSUME NEW R, IsFiniteSet(R), NEW P, {} \in P,
         \A s \in SUBSET R : (s # {} /\ s \ {picked(s)} \in P) => s \in P
  PROVE  \A s \in SUBSET R : s \in P
<1> DEFINE T == {k \in Nat : \A s \in SUBSET R : Cardinality(s) <= k => s \in P}
<1>1. 0 \in T
  <2>1. ASSUME NEW s \in SUBSET R, Cardinality(s) <= 0 PROVE s \in P
    <3>1. s = {}
      BY <2>1, PickedShrinks
    <3> QED
      BY <3>1
  <2> QED
    BY <2>1
<1>2. ASSUME NEW k \in Nat, k \in T PROVE k + 1 \in T
  <2>1. ASSUME NEW s \in SUBSET R, Cardinality(s) <= k + 1 PROVE s \in P
    <3>1. CASE s = {}
      BY <3>1
    <3>2. CASE s # {}
      <4> DEFINE t == s \ {picked(s)}
      <4>1. t \in SUBSET R /\ Cardinality(t) <= k
        BY <2>1, <3>2, PickedShrinks
      <4>2. t \in P
        <5> HIDE DEF t
        <5> QED BY <1>2, <4>1
      <4> QED
        BY <3>2, <4>2
    <3> QED
      BY <3>1, <3>2
  <2> QED
    BY <2>1
<1>3. \A k \in Nat : k \in T
  <2> HIDE DEF T
  <2> QED BY <1>1, <1>2, NatSetInduction
<1>4. \A s \in SUBSET R : Cardinality(s) \in Nat /\ Cardinality(s) <= Cardinality(s)
  <2>1. \A s \in SUBSET R : Cardinality(s) \in Nat
    BY PickedShrinks
  <2> QED
    BY <2>1
<1> QED
  BY <1>3, <1>4

LEMMA SumOfNothing == ASSUME NEW v PROVE SumOver(v, {}) = 0
<1> DEFINE sums == CHOOSE iter : IsSummed(iter, v, {})
<1>1. IsSummed(sums, v, {})
  BY FS_EmptySet, SummedExists
<1> HIDE DEF sums
<1>2. sums[{}] = 0
  BY <1>1 DEF IsSummed
<1> QED
  BY <1>2 DEF SumOver, sums

\* A part of a set sums to what it sums to on the way to the whole.
LEMMA SumOfPart ==
  ASSUME NEW R, IsFiniteSet(R), NEW v, NEW iter, IsSummed(iter, v, R), NEW t \in SUBSET R
  PROVE  SumOver(v, t) = iter[t]
<1> DEFINE sums == CHOOSE it : IsSummed(it, v, t)
           P == {s \in SUBSET t : sums[s] = iter[s]}
<1>1. IsFiniteSet(t)
  BY FS_Subset
<1>2. IsSummed(sums, v, t)
  BY <1>1, SummedExists
<1> HIDE DEF sums
<1>3. sums[{}] = 0 /\ \A s \in SUBSET t : s # {} => sums[s] = v[picked(s)] + sums[s \ {picked(s)}]
  BY <1>2 DEF IsSummed
<1>4. iter[{}] = 0 /\ \A s \in SUBSET R : s # {} => iter[s] = v[picked(s)] + iter[s \ {picked(s)}]
  BY DEF IsSummed
<1>5. \A s \in SUBSET t : (s # {} /\ s \ {picked(s)} \in P) => s \in P
  BY <1>3, <1>4
<1>6. {} \in P
  BY <1>3, <1>4
<1>7. t \in P
  <2>1. \A s \in SUBSET t : s \in P
    <3> HIDE DEF P
    <3> QED BY <1>1, <1>5, <1>6, SubsetInduction
  <2> QED
    BY <2>1
<1> QED
  BY <1>7 DEF SumOver, sums

\* Any member may be summed last.
LEMMA SumSplits ==
  ASSUME NEW S, NEW v, IsAmounts(v, S), NEW x \in S
  PROVE  /\ SumOver(v, S) \in Int /\ SumOver(v, S \ {x}) \in Int
         /\ SumOver(v, S) = v[x] + SumOver(v, S \ {x})
<1> DEFINE w == [y \in S |-> v[y]]
           sums == CHOOSE iter : IsSummed(iter, v, S)
<1>1. IsSummed(sums, v, S)
  BY SummedExists DEF IsAmounts
<1> HIDE DEF sums
<1>2. IsSummed(sums, w, S)
  <2>1. \A s \in SUBSET S : s # {} => w[picked(s)] = v[picked(s)]
    BY DEF picked
  <2> HIDE DEF w
  <2> QED
    BY <1>1, <2>1 DEF IsSummed
<1>3. w \in [S -> Int] /\ IsFiniteSet(S) /\ w[x] = v[x]
  BY DEF IsAmounts
<1> HIDE DEF w
<1>4. /\ sums[S] \in Int /\ sums[S \ {x}] \in Int
      /\ sums[S] = v[x] + sums[S \ {x}]
  <2>1. AnyOrder(sums, w, S) /\ \A s \in SUBSET S : sums[s] \in Int
    BY <1>2, <1>3, SummedAnyOrder, SummedTyped
  <2> QED
    BY <1>3, <2>1 DEF AnyOrder
<1>5. \A t \in SUBSET S : SumOver(v, t) = sums[t]
  BY <1>1, <1>3, SumOfPart
<1>6. SumOver(v, S) = sums[S] /\ SumOver(v, S \ {x}) = sums[S \ {x}]
  BY <1>5
<1> QED
  BY <1>4, <1>6

LEMMA SumTyped ==
  ASSUME NEW S, NEW v, IsAmounts(v, S)
  PROVE  SumOver(v, S) \in Int
<1>1. CASE S = {}
  BY <1>1, SumOfNothing
<1>2. CASE S # {}
  BY <1>2, SumSplits
<1> QED
  BY <1>1, <1>2

LEMMA PartsAreAmounts ==
  ASSUME NEW S, NEW v, IsAmounts(v, S), NEW s \in SUBSET S
  PROVE  /\ IsAmounts(v, s)
         /\ s # {} => /\ picked(s) \in s /\ picked(s) \in S /\ s \ {picked(s)} \in SUBSET S
                      /\ SumOver(v, s) = v[picked(s)] + SumOver(v, s \ {picked(s)})
<1>1. IsFiniteSet(s)
  BY FS_Subset DEF IsAmounts
<1>2. IsAmounts(v, s)
  BY <1>1 DEF IsAmounts
<1>3. s # {} => picked(s) \in s
  BY DEF picked
<1> QED
  BY <1>2, <1>3, SumSplits

-----------------------------------------------------------------------------
\* Two sums differ by at most what their terms do.
LEMMA ScaledDistance ==
  ASSUME NEW a \in Int, NEW b \in Int, NEW x \in Int, NEW y \in Int, NEW X \in Int, NEW Y \in Int
  PROVE  a * (x + X) - b * (y + Y) = (a * x - b * y) + (a * X - b * Y)
OBVIOUS

LEMMA SumsCompared ==
  ASSUME NEW S, NEW v, NEW w, IsAmounts(v, S), IsAmounts(w, S), NEW a \in Int, NEW b \in Int,
         NEW e \in Int, \A x \in S : a * v[x] - b * w[x] \in -e .. e
  PROVE  a * SumOver(v, S) - b * SumOver(w, S) \in -(e * Cardinality(S)) .. e * Cardinality(S)
<1> DEFINE apart(s) == a * SumOver(v, s) - b * SumOver(w, s)
           within(s) == -(e * Cardinality(s)) .. e * Cardinality(s)
           P == {s \in SUBSET S : apart(s) \in within(s)}
<1>1. {} \in P
  <2>1. SumOver(v, {}) = 0 /\ SumOver(w, {}) = 0 /\ Cardinality({}) = 0
    BY SumOfNothing, FS_EmptySet
  <2>2. a * 0 - b * 0 = 0 /\ e * 0 = 0
    OBVIOUS
  <2> QED
    BY <2>1, <2>2
<1>2. ASSUME NEW s \in SUBSET S, s # {}, s \ {picked(s)} \in P PROVE s \in P
  <2> DEFINE p == picked(s)  t == s \ {p}  n == Cardinality(t)
             X == SumOver(v, t)  Y == SumOver(w, t)
  <2>1. /\ p \in S /\ t \in SUBSET S
        /\ SumOver(v, s) = v[p] + X /\ SumOver(w, s) = w[p] + Y
    BY <1>2, PartsAreAmounts
  <2>2. X \in Int /\ Y \in Int /\ v[p] \in Int /\ w[p] \in Int
    <3>1. IsAmounts(v, t) /\ IsAmounts(w, t)
      <4> HIDE DEF t
      <4> QED BY <2>1, PartsAreAmounts
    <3>2. SumOver(v, t) \in Int /\ SumOver(w, t) \in Int
      <4> HIDE DEF t
      <4> QED BY <3>1, SumTyped
    <3> QED
      BY <2>1, <3>2 DEF IsAmounts
  <2>3. n \in Nat /\ Cardinality(s) = n + 1
    <3>1. Cardinality(s) \in Nat /\ Cardinality(s \ {picked(s)}) = Cardinality(s) - 1
      BY <1>2, PickedShrinks DEF IsAmounts
    <3>2. Cardinality(s \ {picked(s)}) \in Nat
      BY <2>1, PickedShrinks DEF IsAmounts
    <3> QED
      BY <3>1, <3>2
  <2>4. a * v[p] - b * w[p] \in -e .. e
    BY <2>1
  <2>5. a * X - b * Y \in -(e * n) .. e * n
    BY <1>2
  <2> HIDE DEF p, t, n, X, Y
  <2> DEFINE near == a * v[p] - b * w[p]  far == a * X - b * Y  en == e * n
  <2>6. apart(s) = near + far
    BY <2>1, <2>2, ScaledDistance
  <2>7. e * Cardinality(s) = en + e /\ en \in Int
    BY <2>3
  <2>8. near \in Int /\ far \in Int
    BY <2>2
  <2>9. near \in -e .. e /\ far \in -en .. en
    BY <2>4, <2>5
  <2> HIDE DEF near, far, en
  <2>10. near + far \in -(en + e) .. en + e
    BY <2>7, <2>8, <2>9
  <2> DEFINE k == Cardinality(s)
  <2> HIDE DEF apart, k
  <2>11. within(s) = -(e * k) .. e * k
    BY DEF k
  <2>12. e * k = en + e
    BY <2>7 DEF k
  <2>13. apart(s) \in within(s)
    <3> HIDE DEF within
    <3> QED BY <2>6, <2>10, <2>11, <2>12
  <2> HIDE DEF within
  <2> QED
    BY <2>13
<1> HIDE DEF P
<1>3. \A s \in SUBSET S : s \in P
  BY <1>1, <1>2, SubsetInduction DEF IsAmounts
<1>4. S \in P
  BY <1>3
<1> QED
  BY <1>4 DEF P

\* A sum over other members with the same values.
LEMMA SumMoves ==
  ASSUME NEW S, NEW v, IsAmounts(v, S), NEW f, NEW w, \A x \in S : w[f[x]] = v[x],
         \A x, y \in S : f[x] = f[y] => x = y
  PROVE  /\ IsAmounts(w, {f[x] : x \in S})
         /\ SumOver(w, {f[x] : x \in S}) = SumOver(v, S)
<1> DEFINE image(s) == {f[x] : x \in s}
           P == {s \in SUBSET S : SumOver(w, image(s)) = SumOver(v, s)}
<1>1. IsAmounts(w, image(S))
  <2> DEFINE g == [x \in S |-> f[x]]
  <2>1. DOMAIN g = S /\ IsFiniteSet(S)
    BY DEF IsAmounts
  <2>2. {g[x] : x \in S} = image(S)
    OBVIOUS
  <2> HIDE DEF g
  <2>3. IsFiniteSet({g[x] : x \in S})
    BY <2>1, FiniteImage
  <2>4. \A y \in image(S) : w[y] \in Int
    BY DEF IsAmounts
  <2> QED
    BY <2>2, <2>3, <2>4 DEF IsAmounts
<1>2. {} \in P
  <2>1. image({}) = {}
    OBVIOUS
  <2> HIDE DEF image
  <2> QED
    BY <2>1, SumOfNothing
<1>3. ASSUME NEW s \in SUBSET S, s # {}, s \ {picked(s)} \in P PROVE s \in P
  <2> DEFINE p == picked(s)  t == s \ {p}
  <2>1. p \in s /\ p \in S /\ SumOver(v, s) = v[p] + SumOver(v, t)
    <3> HIDE DEF P, image
    <3> QED BY <1>3, PartsAreAmounts
  <2> HIDE DEF p
  <2>2. f[p] \in image(s) /\ image(s) \ {f[p]} = image(t) /\ image(s) \in SUBSET image(S)
    BY <2>1
  <2>3. SumOver(w, image(t)) = SumOver(v, t)
    BY <1>3 DEF p
  <2> HIDE DEF t, image
  <2>4. IsAmounts(w, image(s))
    BY <1>1, <2>2, PartsAreAmounts
  <2>5. SumOver(w, image(s)) = w[f[p]] + SumOver(w, image(t))
    BY <2>2, <2>4, SumSplits
  <2> QED
    BY <2>1, <2>3, <2>5
<1> HIDE DEF P
<1>4. \A s \in SUBSET S : s \in P
  BY <1>2, <1>3, SubsetInduction DEF IsAmounts
<1>5. S \in P
  BY <1>4
<1> QED
  BY <1>1, <1>5 DEF P

\* Members of no value may be left out.
LEMMA SumWithZeros ==
  ASSUME NEW T, NEW w, IsAmounts(w, T), NEW S \in SUBSET T, \A x \in T \ S : w[x] = 0
  PROVE  SumOver(w, T) = SumOver(w, S)
<1> DEFINE rest == T \ S
           P == {s \in SUBSET rest : SumOver(w, S \cup s) = SumOver(w, S)}
<1>1. {} \in P
  <2>1. S \cup {} = S
    OBVIOUS
  <2> QED
    BY <2>1
<1>2. ASSUME NEW s \in SUBSET rest, s # {}, s \ {picked(s)} \in P PROVE s \in P
  <2> DEFINE p == picked(s)  t == s \ {p}  U == S \cup s
  <2>1. p \in s
    BY <1>2 DEF picked
  <2> HIDE DEF p
  <2>2. p \in U /\ U \ {p} = S \cup t /\ U \in SUBSET T /\ w[p] = 0
    BY <2>1
  <2>3. SumOver(w, S \cup t) = SumOver(w, S)
    BY <1>2 DEF p
  <2> HIDE DEF t, U
  <2>4. IsAmounts(w, U)
    BY <2>2, PartsAreAmounts
  <2>5. SumOver(w, U) = w[p] + SumOver(w, U \ {p}) /\ SumOver(w, U \ {p}) \in Int
    BY <2>2, <2>4, SumSplits
  <2>7. SumOver(w, U \ {p}) = SumOver(w, S)
    BY <2>2, <2>3
  <2>8. SumOver(w, U) = 0 + SumOver(w, S) /\ SumOver(w, S) \in Int
    BY <2>2, <2>5, <2>7
  <2>6. SumOver(w, U) = SumOver(w, S)
    BY <2>8
  <2> QED
    BY <2>6 DEF U
<1> HIDE DEF P
<1>3. IsFiniteSet(rest)
  BY FS_Subset DEF IsAmounts
<1>4. \A s \in SUBSET rest : s \in P
  <2> HIDE DEF rest
  <2> QED BY <1>1, <1>2, <1>3, SubsetInduction
<1>5. rest \in P
  BY <1>4
<1>6. S \cup rest = T
  OBVIOUS
<1> HIDE DEF rest
<1> QED
  BY <1>5, <1>6 DEF P

\* A sum of amounts that are not negative is no less than each of them.
LEMMA SumAtLeast ==
  ASSUME NEW S, NEW v, IsAmounts(v, S), \A x \in S : v[x] \in Nat, NEW x \in S
  PROVE  SumOver(v, S) \in Nat /\ v[x] <= SumOver(v, S)
<1> DEFINE P == {s \in SUBSET S : SumOver(v, s) \in Nat}
<1>1. {} \in P
  BY SumOfNothing
<1>2. ASSUME NEW s \in SUBSET S, s # {}, s \ {picked(s)} \in P PROVE s \in P
  <2>1. /\ picked(s) \in S
        /\ SumOver(v, s) = v[picked(s)] + SumOver(v, s \ {picked(s)})
    BY <1>2, PartsAreAmounts
  <2>2. v[picked(s)] \in Nat /\ SumOver(v, s \ {picked(s)}) \in Nat
    BY <1>2, <2>1
  <2> QED
    BY <2>1, <2>2
<1> HIDE DEF P
<1>3. \A s \in SUBSET S : s \in P
  BY <1>1, <1>2, SubsetInduction DEF IsAmounts
<1>4. S \in P /\ S \ {x} \in P
  BY <1>3
<1>5. SumOver(v, S) \in Nat /\ SumOver(v, S \ {x}) \in Nat
  BY <1>4 DEF P
<1>6. SumOver(v, S) = v[x] + SumOver(v, S \ {x})
  BY SumSplits
<1> QED
  BY <1>5, <1>6

-----------------------------------------------------------------------------
\* What the property sums is the sum of the cells.
LEMMA CellsAreSummed ==
  ASSUME NEW f
  PROVE  MapThenSumSet(LAMBDA x : f[x], DOMAIN f) = SumOver(f, DOMAIN f)
BY DEF MapThenSumSet, MapThenFoldSet, SumOver, IsSummed, picked

\* Dividing a multiple and a rest gives the multiple.
LEMMA DivWithRest ==
  ASSUME NEW g \in Nat \ {0}, NEW a \in Int, NEW r \in 0 .. g - 1
  PROVE  (g * a + r) \div g = a
<1> DEFINE m == g * a + r
           q == m \div g
           t == m % g
<1>0. g * a \in Int
  OBVIOUS
<1>1. m \in Int
  BY <1>0
<1>2. q \in Int /\ t \in Nat /\ t < g /\ m = g * q + t
  <2> HIDE DEF m
  <2> QED BY <1>1
<1> HIDE DEF q, t
<1>3. g * q + t = g * a + r
  BY <1>2
<1>4. r - t = g * (q - a) /\ t - r = g * (a - q)
  BY <1>2, <1>3
<1>5. r = t
  <2>1. CASE r >= t
    <3>1. r - t \in Nat /\ r - t < g /\ q - a \in Int
      BY <1>2, <2>1
    <3>2. r - t = 0
      <4> DEFINE k == r - t  j == q - a
      <4>1. k \in Nat /\ k < g /\ j \in Int /\ k = g * j
        BY <1>4, <3>1
      <4> HIDE DEF k, j
      <4>2. k = 0
        BY <4>1, MultipleBound
      <4> QED
        BY <4>2 DEF k
    <3> QED
      BY <1>2, <3>2
  <2>2. CASE t > r
    <3>1. t - r \in Nat /\ t - r < g /\ a - q \in Int
      BY <1>2, <2>2
    <3>2. t - r = 0
      <4> DEFINE k == t - r  j == a - q
      <4>1. k \in Nat /\ k < g /\ j \in Int /\ k = g * j
        BY <1>4, <3>1
      <4> HIDE DEF k, j
      <4>2. k = 0
        BY <4>1, MultipleBound
      <4> QED
        BY <4>2 DEF k
    <3> QED
      BY <1>2, <3>2
  <2> QED
    BY <1>2, <2>1, <2>2
<1>6. g * q = g * a
  <2>1. g * q \in Int
    BY <1>2
  <2> DEFINE x == g * q  y == g * a
  <2> HIDE DEF x, y
  <2>2. x \in Int /\ y \in Int /\ x + t = y + r
    BY <1>0, <1>3, <2>1 DEF x, y
  <2>3. x = y
    BY <1>2, <1>5, <2>2
  <2> QED
    BY <2>3 DEF x, y
<1>7. q = a
  BY <1>2, <1>6, Cancel
<1> QED
  BY <1>7 DEF q

\* The quotient is the last multiple up to a number.
LEMMA DivBounds ==
  ASSUME NEW g \in Nat \ {0}, NEW m \in Int
  PROVE  m \div g \in Int /\ g * (m \div g) <= m /\ m < g * (m \div g) + g
<1> DEFINE q == m \div g
           t == m % g
<1>1. q \in Int /\ t \in Nat /\ t < g /\ m = g * q + t
  OBVIOUS
<1> DEFINE x == g * q
<1>2. x \in Int
  BY <1>1
<1> HIDE DEF q, t
<1>3. m = x + t
  BY <1>1
<1> HIDE DEF x
<1>4. x <= m /\ m < x + g
  BY <1>1, <1>2, <1>3
<1> QED
  BY <1>1, <1>4 DEF x, q

LEMMA DivWhole ==
  ASSUME NEW g \in Nat \ {0}, NEW m \in Int, m % g = 0
  PROVE  m \div g \in Int /\ m = g * (m \div g)
<1> DEFINE q == m \div g
           t == m % g
<1>1. q \in Int /\ m = g * q + t
  OBVIOUS
<1> DEFINE x == g * q
<1>2. x \in Int
  BY <1>1
<1>3. t = 0
  OBVIOUS
<1> HIDE DEF q, t
<1>4. m = x + t
  BY <1>1
<1> HIDE DEF x
<1>5. m = x
  BY <1>2, <1>3, <1>4
<1> QED
  BY <1>1, <1>5 DEF x, q

\* A value in whole hundredths is shown as it is.
LEMMA WholeHundredths ==
  ASSUME NEW v \in Int, v >= One, (100 * v) % One = 0
  PROVE  Shown(v) \in Nat \ {0} /\ One * Shown(v) = 100 * v
<1> DEFINE c == (100 * v) \div One
           p == Fraction(v, One)
<1>0. One \in Nat \ {0}
  BY AccountAssumption
<1>1. c \in Int /\ One * c = 100 * v
  <2> DEFINE m == 100 * v
  <2>1. m \in Int /\ m % One = 0
    OBVIOUS
  <2> HIDE DEF m
  <2>2. m \div One \in Int /\ m = One * (m \div One)
    BY <1>0, <2>1, DivWhole
  <2> QED
    BY <2>2 DEF m
<1>2. p.num \in Int /\ p.den \in Nat \ {0}
  BY <1>0, FractionIsExact DEF InLowestTerms
<1>3. PICK k \in Int : v = p.num * k /\ One = p.den * k
  BY <1>0, FractionIsExact
<1> HIDE DEF c, p
<1>4. k # 0
  BY <1>0, <1>2, <1>3
<1>5. k * (p.den * c) = k * (100 * p.num)
  <2>1. (p.den * k) * c = 100 * (p.num * k)
    BY <1>1, <1>3
  <2>2. (p.den * k) * c = k * (p.den * c) /\ 100 * (p.num * k) = k * (100 * p.num)
    BY <1>1, <1>2
  <2> QED
    BY <2>1, <2>2
<1>6. p.den * c = 100 * p.num
  <2>1. p.den * c \in Int /\ 100 * p.num \in Int
    BY <1>1, <1>2
  <2> QED
    BY <1>4, <1>5, <2>1, Cancel
<1>7. Hundredths(p) = c
  <2> DEFINE g == 2 * p.den
  <2>1. g \in Nat \ {0} /\ p.den \in 0 .. g - 1
    BY <1>2
  <2>2. g * c = 2 * (p.den * c)
    BY <1>1, <1>2
  <2>3. 200 * p.num + p.den = g * c + p.den
    BY <1>2, <1>6, <2>2
  <2>4. Hundredths(p) = (g * c + p.den) \div g
    BY <2>3 DEF Hundredths
  <2> HIDE DEF g
  <2> QED
    BY <1>1, <2>1, <2>4, DivWithRest
<1>8. Shown(v) = c
  BY <1>0, <1>7 DEF Shown, p
<1>9. c > 0
  <2>1. c <= 0 => One * c <= 0
    BY <1>0, <1>1
  <2> QED
    BY <1>0, <1>1, <2>1
<1> QED
  BY <1>1, <1>8, <1>9

LEMMA NothingShown == Shown(0) = 0
BY AccountAssumption DEF Shown

\* A share is the percentage in hundredths, but for half of one.
Rounded(s, c, t) == s \in Nat /\ (2 * t) * s - 20000 * c \in -t .. t

LEMMA SharesAreRounded ==
  ASSUME NEW c \in Nat, NEW t \in Nat \ {0}
  PROVE  Rounded(Share(c, t), c, t)
<1> DEFINE n == 100 * c
           p == Fraction(n, t)
           s == Share(c, t)
           m == 200 * p.num + p.den
           g == 2 * p.den
<1>1. n \in Int
  OBVIOUS
<1>2. p.num \in Int /\ p.den \in Nat \ {0} /\ p.num * t = n * p.den
  <2> HIDE DEF n
  <2> QED BY <1>1, FractionIsExact DEF InLowestTerms
<1>3. s = m \div g
  BY DEF Share, Hundredths
<1>4. m \in Int /\ g \in Nat \ {0}
  BY <1>2
<1> HIDE DEF m, g, s, p
<1>5. s \in Int /\ g * s <= m /\ m < g * s + g
  BY <1>3, <1>4, DivBounds
<1>6. p.num >= 0
  <2>1. n * p.den >= 0
    BY <1>2 DEF n
  <2>2. p.num < 0 => p.num * t < 0
    BY <1>2
  <2>3. p.num * t >= 0
    BY <1>2, <2>1
  <2> QED
    BY <1>2, <2>2, <2>3
<1>7. s >= 0
  <2>1. m > 0
    BY <1>2, <1>6 DEF m
  <2>2. s <= -1 => g * s <= -g
    BY <1>4, <1>5
  <2>3. g * s \in Int
    BY <1>4, <1>5
  <2> DEFINE x == g * s
  <2> HIDE DEF x
  <2>4. x > -g
    BY <1>4, <1>5, <2>1, <2>3 DEF x
  <2>5. ~ (s <= -1)
    BY <1>4, <2>2, <2>3, <2>4 DEF x
  <2> QED
    BY <1>5, <2>5
\* Multiplied by the total, and divided by the denominator.
<1> DEFINE d == p.den
           x == (2 * t) * s
           y == 20000 * c
<1>8. x \in Int /\ y \in Int /\ d \in Nat \ {0}
  BY <1>2, <1>5
<1>9. t * m = d * (y + t)
  <2>1. t * m = 200 * (p.num * t) + t * d
    BY <1>2 DEF m
  <2>2. 200 * (n * d) = d * y
    BY <1>2 DEF n
  <2>3. t * m = d * y + t * d
    BY <1>2, <2>1, <2>2
  <2>4. d * (y + t) = d * y + t * d
    BY <1>8
  <2> QED
    BY <2>3, <2>4
<1>10. t * (g * s) = d * x /\ t * g = d * (2 * t)
  BY <1>2, <1>5 DEF g
<1>11. t * (g * s) <= t * m /\ t * m < t * (g * s) + t * g
  <2> DEFINE gs == g * s
  <2>1. gs \in Int /\ gs <= m /\ m < gs + g
    BY <1>4, <1>5
  <2> HIDE DEF gs
  <2>2. t * gs <= t * m
    BY <1>4, <2>1
  <2>3. t * m < t * (gs + g)
    BY <1>4, <2>1
  <2>4. t * (gs + g) = t * gs + t * g
    BY <1>4, <2>1
  <2> QED
    BY <2>2, <2>3, <2>4 DEF gs
<1>12. d * x <= d * (y + t) /\ d * (y + t) < d * x + d * (2 * t)
  BY <1>9, <1>10, <1>11
<1> HIDE DEF d, x, y
<1>13. d * x + d * (2 * t) = d * (x + 2 * t)
  BY <1>8
<1>14. x <= y + t
  <2>1. x > y + t => d * x > d * (y + t)
    BY <1>8
  <2>2. d * x \in Int /\ d * (y + t) \in Int
    BY <1>8
  <2> QED
    BY <1>8, <1>12, <2>1, <2>2
<1>15. y + t < x + 2 * t
  <2>1. y + t >= x + 2 * t => d * (y + t) >= d * (x + 2 * t)
    BY <1>8
  <2>2. d * (x + 2 * t) \in Int /\ d * (y + t) \in Int
    BY <1>8
  <2>3. d * (y + t) < d * (x + 2 * t)
    BY <1>12, <1>13
  <2> QED
    BY <1>8, <2>1, <2>2, <2>3
<1>16. x - y \in -t .. t
  BY <1>8, <1>14, <1>15
<1> QED
  BY <1>5, <1>7, <1>16 DEF x, y, s, Rounded

-----------------------------------------------------------------------------
\* With one holding a day, the holding of a day is the one with its date.
LEMMA HoldingFound ==
  ASSUME NEW T, NEW hs \in Seq(T), OnePerDate(ToSet(hs)), NEW d
  PROVE  /\ \A h \in ToSet(hs) : h.date = d => HoldingOn(hs, d) = h
         /\ (\A h \in ToSet(hs) : h.date # d) => HoldingOn(hs, d) = NoHolding
<1> DEFINE found == {i \in DOMAIN hs : hs[i].date = d}
           n == Len(hs)
<1>1. n \in Nat /\ DOMAIN hs = 1 .. n
  OBVIOUS
<1>2. found \in SUBSET (1 .. n)
  BY <1>1
<1>3. HoldingOn(hs, d) = IF found = {} THEN NoHolding ELSE hs[Max(found)]
  BY DEF HoldingOn
<1>4. \A i \in found : hs[i].date = d /\ hs[i] \in ToSet(hs)
  BY DEF ToSet
<1>5. ASSUME NEW h \in ToSet(hs), h.date = d PROVE \E i \in found : hs[i] = h
  <2>1. PICK i \in DOMAIN hs : hs[i] = h
    BY DEF ToSet
  <2> QED
    BY <1>5, <2>1
<1> HIDE DEF found, n
<1>6. ASSUME NEW h \in ToSet(hs), h.date = d PROVE HoldingOn(hs, d) = h
  <2>1. found # {}
    BY <1>5, <1>6
  <2>2. Max(found) \in found
    BY <1>1, <1>2, <2>1, MaxExists
  <2>3. hs[Max(found)].date = d /\ hs[Max(found)] \in ToSet(hs)
    BY <1>4, <2>2
  <2>4. hs[Max(found)] = h
    <3> DEFINE g == hs[Max(found)]
    <3>1. g \in ToSet(hs) /\ g.date = h.date
      BY <1>6, <2>3
    <3> HIDE DEF g
    <3>2. g = h
      BY <3>1 DEF OnePerDate
    <3> QED
      BY <3>2 DEF g
  <2> QED
    BY <1>3, <2>1, <2>4
<1>7. ASSUME \A h \in ToSet(hs) : h.date # d PROVE HoldingOn(hs, d) = NoHolding
  <2>1. found = {}
    BY <1>4, <1>7
  <2> QED
    BY <1>3, <2>1
<1> QED
  BY <1>6, <1>7

\* Leaving out days off the grid does not change what is held on it.
LEMMA FilteredHoldings ==
  ASSUME NEW T, NEW hs \in Seq(T), OnePerDate(ToSet(hs)), NEW grid, NEW d \in grid
  PROVE  HoldingOn(FilterHoldingsByInterval(hs, grid), d) = HoldingOn(hs, d)
<1> DEFINE places == {i \in DOMAIN hs : hs[i].date \in grid}
           kept == ItemsAt(hs, places)
<1>1. FilterHoldingsByInterval(hs, grid) = kept
  BY DEF FilterHoldingsByInterval, Select
<1>2. places \in SUBSET (DOMAIN hs)
  OBVIOUS
<1>3. kept \in Seq(T) /\ ToSet(kept) = {hs[i] : i \in places}
  <2> HIDE DEF places
  <2> QED BY <1>2, ItemsOfPlaces
<1>4. \A h \in ToSet(kept) : h \in ToSet(hs)
  BY <1>3 DEF ToSet
<1>5. \A h \in ToSet(hs) : h.date = d => h \in ToSet(kept)
  <2>1. ASSUME NEW h \in ToSet(hs), h.date = d PROVE h \in {hs[i] : i \in places}
    <3>1. PICK i \in DOMAIN hs : hs[i] = h
      BY DEF ToSet
    <3>2. i \in places
      BY <2>1, <3>1
    <3> QED
      BY <3>1, <3>2
  <2> QED
    BY <1>3, <2>1
<1> HIDE DEF kept, places
<1>6. OnePerDate(ToSet(kept))
  BY <1>4 DEF OnePerDate
<1>7. CASE \E h \in ToSet(hs) : h.date = d
  <2>1. PICK h \in ToSet(hs) : h.date = d
    BY <1>7
  <2>2. h \in ToSet(kept)
    BY <1>5, <2>1
  <2>3. HoldingOn(hs, d) = h
    BY <2>1, HoldingFound
  <2>4. HoldingOn(kept, d) = h
    BY <1>3, <1>6, <2>1, <2>2, HoldingFound
  <2> QED
    BY <1>1, <2>3, <2>4
<1>8. CASE \A h \in ToSet(hs) : h.date # d
  <2>1. \A h \in ToSet(kept) : h.date # d
    BY <1>4, <1>8
  <2>2. HoldingOn(hs, d) = NoHolding
    BY <1>8, HoldingFound
  <2>3. HoldingOn(kept, d) = NoHolding
    BY <1>3, <1>6, <2>1, HoldingFound
  <2> QED
    BY <1>1, <2>2, <2>3
<1> QED
  BY <1>7, <1>8

\* Holdings in the order of their dates have one a date.
LEMMA OneHoldingADay ==
  ASSUME NEW hs, hs \in Seq(ToSet(hs)), \A h \in ToSet(hs) : h.date \in Int,
         \A j \in 2 .. Len(hs) : hs[j - 1].date < hs[j].date
  PROVE  OnePerDate(ToSet(hs))
<1> DEFINE n == Len(hs)
<1>1. n \in Nat /\ DOMAIN hs = 1 .. n
  OBVIOUS
<1>2. \A i \in 1 .. n : hs[i].date \in Int
  BY <1>1 DEF ToSet
<1>3. ASSUME NEW i \in 1 .. n, NEW j \in 1 .. n, i < j PROVE hs[i].date < hs[j].date
  <2> DEFINE S == {k \in Int : hs[i].date < hs[k].date}
             from == i + 2
  <2>0. i + 1 \in 2 .. n /\ (i + 1) - 1 = i
    BY <1>1, <1>3
  <2>1. from - 1 \in S
    <3>1. hs[i].date < hs[i + 1].date
      BY <2>0
    <3>2. from - 1 = i + 1 /\ i + 1 \in Int
      OBVIOUS
    <3> QED
      BY <3>1, <3>2
  <2>2. ASSUME NEW k \in from .. n, k - 1 \in S PROVE k \in S
    <3>1. k \in 2 .. n /\ k \in 1 .. n /\ k - 1 \in 1 .. n
      BY <1>1
    <3>2. hs[i].date < hs[k - 1].date /\ hs[k - 1].date < hs[k].date
      BY <2>2, <3>1
    <3> DEFINE x == hs[i].date  y == hs[k - 1].date  z == hs[k].date
    <3>3. x \in Int /\ y \in Int /\ z \in Int /\ x < y /\ y < z
      BY <1>2, <3>1, <3>2
    <3> HIDE DEF x, y, z
    <3>4. x < z
      BY <3>3
    <3> QED
      BY <3>1, <3>4 DEF x, z
  <2> HIDE DEF S, from
  <2>3. from \in Int /\ n \in Int
    BY <1>1 DEF from
  <2>4. \A k \in from .. n : k \in S
    BY <2>1, <2>2, <2>3, DayInduction
  <2>5. j = from - 1 \/ j \in from .. n
    BY <1>1, <1>3 DEF from
  <2>6. j \in S
    BY <2>1, <2>4, <2>5
  <2> QED
    BY <2>6 DEF S
<1> SUFFICES ASSUME NEW r \in ToSet(hs), NEW q \in ToSet(hs), r.date = q.date PROVE r = q
  BY DEF OnePerDate
<1>4. PICK i \in 1 .. n : hs[i] = r
  BY <1>1 DEF ToSet
<1>5. PICK j \in 1 .. n : hs[j] = q
  BY <1>1 DEF ToSet
<1>6. ~ (i < j) /\ ~ (j < i)
  <2>1. i < j => r.date < q.date
    BY <1>3, <1>4, <1>5
  <2>2. j < i => q.date < r.date
    BY <1>3, <1>4, <1>5
  <2>3. r.date \in Int /\ q.date \in Int
    OBVIOUS
  <2> QED
    BY <2>1, <2>2, <2>3
<1>7. i = j
  <2> HIDE DEF n
  <2> QED BY <1>1, <1>6
<1> QED
  BY <1>4, <1>5, <1>7

-----------------------------------------------------------------------------
\* An entry with the holdings of the grid's days, and what it takes to be kept.
OnlyOn(e, grid) == [e EXCEPT !.holdings = FilterHoldingsByInterval(@, grid)]

HeldOn(e, grid) == Dates(e.holdings) \cap grid # {}

LEMMA AssetsFiltered ==
  ASSUME NEW T, NEW assets \in Seq(T), NEW grid, NEW kept, kept = FilterAssets(assets, grid)
  PROVE  /\ kept \in Seq({OnlyOn(assets[i], grid) : i \in DOMAIN assets})
         /\ \A j \in DOMAIN kept : \E i \in DOMAIN assets : kept[j] = OnlyOn(assets[i], grid)
         /\ \A i \in DOMAIN assets : HeldOn(assets[i], grid) =>
              \E j \in DOMAIN kept : kept[j] = OnlyOn(assets[i], grid)
<1> DEFINE places == {i \in DOMAIN assets : HeldOn(assets[i], grid)}
           held == ItemsAt(assets, places)
<1>1. kept = [j \in DOMAIN held |-> OnlyOn(held[j], grid)]
  BY DEF FilterAssets, Select, HeldOn, OnlyOn
<1>2. places \in SUBSET (DOMAIN assets)
  OBVIOUS
<1>3. held \in Seq(T) /\ ToSet(held) = {assets[i] : i \in places}
  <2> HIDE DEF places
  <2> QED BY <1>2, ItemsOfPlaces
<1>4. \A j \in DOMAIN held : \E i \in DOMAIN assets : held[j] = assets[i]
  <2>1. \A j \in DOMAIN held : held[j] \in {assets[i] : i \in places}
    BY <1>3 DEF ToSet
  <2> HIDE DEF held, places
  <2> QED
    BY <1>2, <2>1
<1>5. ASSUME NEW i \in DOMAIN assets, HeldOn(assets[i], grid)
      PROVE  \E j \in DOMAIN held : held[j] = assets[i]
  <2>1. i \in places
    BY <1>5
  <2>2. assets[i] \in ToSet(held)
    <3> HIDE DEF held, places
    <3> QED BY <1>3, <2>1
  <2> HIDE DEF held
  <2> QED
    BY <2>2 DEF ToSet
<1> HIDE DEF held, places
<1>6. DOMAIN held = 1 .. Len(held) /\ Len(held) \in Nat
  BY <1>3
<1>7. DOMAIN kept = DOMAIN held /\ \A j \in DOMAIN held : kept[j] = OnlyOn(held[j], grid)
  BY <1>1
<1>8. ASSUME NEW j \in DOMAIN kept
      PROVE  \E i \in DOMAIN assets : kept[j] = OnlyOn(assets[i], grid)
  <2>1. PICK i \in DOMAIN assets : held[j] = assets[i]
    BY <1>4, <1>7
  <2> QED
    BY <1>7, <2>1
<1>9. ASSUME NEW i \in DOMAIN assets, HeldOn(assets[i], grid)
      PROVE  \E j \in DOMAIN kept : kept[j] = OnlyOn(assets[i], grid)
  <2>1. PICK j \in DOMAIN held : held[j] = assets[i]
    BY <1>5, <1>9
  <2> QED
    BY <1>7, <2>1
<1>10. kept \in Seq({OnlyOn(assets[i], grid) : i \in DOMAIN assets})
  <2> DEFINE U == {OnlyOn(assets[i], grid) : i \in DOMAIN assets}
             n == Len(held)
  <2>1. \A j \in DOMAIN held : OnlyOn(held[j], grid) \in U
    BY <1>4
  <2> HIDE DEF U, n
  <2>2. kept \in [1 .. n -> U] /\ n \in Nat
    BY <1>1, <1>6, <2>1 DEF n
  <2> QED
    BY <2>2 DEF U
<1> QED
  BY <1>8, <1>9, <1>10

\* The entries of a report are those that are held on its days.
KeptOf(f, grid) ==
  LET filtered == [k \in DOMAIN f |-> FilterAssets(f[k], grid)]
  IN  Restrict(filtered, {k \in DOMAIN f : filtered[k] # <<>>})

EntriesKept(all, f, grid) ==
  /\ \E U : all \in Seq(U)
  /\ \A y \in DOMAIN all : \E p \in Positions(f) : all[y] = OnlyOn(f[p[1]][p[2]], grid)
  /\ \A p \in Positions(f) : HeldOn(f[p[1]][p[2]], grid) =>
       \E y \in DOMAIN all : all[y] = OnlyOn(f[p[1]][p[2]], grid)

LEMMA KeptEntries ==
  ASSUME NEW f, IsFiniteSet(DOMAIN f), NEW T, \A k \in DOMAIN f : f[k] \in Seq(T), NEW grid
  PROVE  EntriesKept(Flat(KeptOf(f, grid)), f, grid)
<1> DEFINE g == KeptOf(f, grid)
           all == Flat(g)
           of(k) == FilterAssets(f[k], grid)
           U == UNION {{OnlyOn(f[k][i], grid) : i \in DOMAIN f[k]} : k \in DOMAIN f}
<1>1. ASSUME NEW k \in DOMAIN f
      PROVE  /\ of(k) \in Seq({OnlyOn(f[k][i], grid) : i \in DOMAIN f[k]})
             /\ \A j \in DOMAIN of(k) : \E i \in DOMAIN f[k] : of(k)[j] = OnlyOn(f[k][i], grid)
             /\ \A i \in DOMAIN f[k] : HeldOn(f[k][i], grid) =>
                  \E j \in DOMAIN of(k) : of(k)[j] = OnlyOn(f[k][i], grid)
  <2> DEFINE assets == f[k]  kept == of(k)
  <2>1. assets \in Seq(T) /\ kept = FilterAssets(assets, grid)
    OBVIOUS
  <2> HIDE DEF assets, kept
  <2>2. /\ kept \in Seq({OnlyOn(assets[i], grid) : i \in DOMAIN assets})
        /\ \A j \in DOMAIN kept : \E i \in DOMAIN assets : kept[j] = OnlyOn(assets[i], grid)
        /\ \A i \in DOMAIN assets : HeldOn(assets[i], grid) =>
             \E j \in DOMAIN kept : kept[j] = OnlyOn(assets[i], grid)
    BY <2>1, AssetsFiltered
  <2> QED
    BY <2>2 DEF assets, kept
<1>2. /\ DOMAIN g \subseteq DOMAIN f
      /\ \A k \in DOMAIN g : g[k] = of(k)
      /\ \A k \in DOMAIN f : of(k) # <<>> => k \in DOMAIN g
  BY DEF KeptOf, Restrict
<1> HIDE DEF g, U, of
<1>3. IsFiniteSet(DOMAIN g)
  BY <1>2, FS_Subset
<1>4. \A k \in DOMAIN g : g[k] \in Seq(U)
  <2> SUFFICES ASSUME NEW k \in DOMAIN g PROVE g[k] \in Seq(U)
    OBVIOUS
  <2> DEFINE V == {OnlyOn(f[k][i], grid) : i \in DOMAIN f[k]}
  <2>1. g[k] \in Seq(V)
    BY <1>1, <1>2
  <2>2. V \subseteq U
    BY <1>2 DEF U
  <2> HIDE DEF V
  <2> QED
    BY <2>1, <2>2
<1>5. all \in Seq(U)
  BY <1>3, <1>4, FlatArranged
<1>6. PICK pos : Arranged(pos, g, all)
  BY <1>3, <1>4, FlatArranged
<1> HIDE DEF all
<1>7. ASSUME NEW y \in DOMAIN all PROVE \E p \in Positions(f) : all[y] = OnlyOn(f[p[1]][p[2]], grid)
  <2>1. PICK q \in Positions(g) : pos[q] = y
    BY <1>6 DEF Arranged
  <2>2. all[y] = g[q[1]][q[2]] /\ q[1] \in DOMAIN g /\ q[2] \in DOMAIN g[q[1]]
    BY <1>6, <2>1, PositionsAre DEF Arranged
  <2> DEFINE k == q[1]  j == q[2]
  <2>5. k \in DOMAIN f /\ g[k] = of(k) /\ j \in DOMAIN of(k)
    BY <1>2, <2>2
  <2>6. PICK i \in DOMAIN f[k] : of(k)[j] = OnlyOn(f[k][i], grid)
    <3> HIDE DEF k, j
    <3> QED BY <1>1, <2>5
  <2>3. i \in DOMAIN f[q[1]] /\ g[q[1]][q[2]] = OnlyOn(f[q[1]][i], grid)
    BY <2>5, <2>6
  <2>4. <<q[1], i>> \in Positions(f)
    BY <1>2, <2>2, PositionsAre
  <2> QED
    BY <2>2, <2>3, <2>4
<1>8. ASSUME NEW p \in Positions(f), HeldOn(f[p[1]][p[2]], grid)
      PROVE  \E y \in DOMAIN all : all[y] = OnlyOn(f[p[1]][p[2]], grid)
  <2>1. p[1] \in DOMAIN f /\ p[2] \in DOMAIN f[p[1]]
    BY PositionsAre
  <2>2. PICK j \in DOMAIN of(p[1]) : of(p[1])[j] = OnlyOn(f[p[1]][p[2]], grid)
    BY <1>1, <1>8, <2>1
  <2>3. of(p[1]) # <<>>
    BY <2>2
  <2>4. <<p[1], j>> \in Positions(g) /\ g[p[1]][j] = OnlyOn(f[p[1]][p[2]], grid)
    BY <1>2, <2>1, <2>2, <2>3, PositionsAre
  <2>5. pos[<<p[1], j>>] \in DOMAIN all /\ all[pos[<<p[1], j>>]] = g[p[1]][j]
    <3> DEFINE q == <<p[1], j>>
    <3>1. q \in Positions(g) /\ q[1] = p[1] /\ q[2] = j
      BY <2>4
    <3> HIDE DEF q
    <3>2. pos[q] \in DOMAIN all /\ all[pos[q]] = g[q[1]][q[2]]
      BY <1>6, <3>1 DEF Arranged
    <3> QED
      BY <3>1, <3>2 DEF q
  <2> QED
    BY <2>4, <2>5
<1> QED
  BY <1>5, <1>7, <1>8 DEF EntriesKept, all, g

-----------------------------------------------------------------------------
\* The last of the items at some places is at one of them.
LEMMA LastOfPlaces ==
  ASSUME NEW T, NEW items \in Seq(T), NEW places \in SUBSET (DOMAIN items), places # {}
  PROVE  \E x \in places : Last(ItemsAt(items, places)) = items[x]
<1> DEFINE found == ItemsAt(items, places)
<1>1. found \in Seq(T) /\ ToSet(found) = {items[i] : i \in places}
  BY ItemsOfPlaces
<1>2. found # <<>>
  BY ItemsAreTaken
<1> HIDE DEF found
<1>3. Last(found) \in ToSet(found)
  <2>1. Len(found) \in DOMAIN found /\ Last(found) = found[Len(found)]
    BY <1>1, <1>2 DEF Last
  <2> QED
    BY <2>1 DEF ToSet
<1> QED
  BY <1>1, <1>3 DEF found

\* The name of an entry's column, and the table of holdings without its total.
NameOf(p) == <<p[1], EntryAt(p).id>>

HoldingsTable ==
  LET column(e) == HoldingColumn(e.holdings, GridDays)
  IN  Columns(Flat(report.assetsByCategory), column)

LEMMA EntriesInOrder ==
  ASSUME ShownInv, stage # "asked", NEW p \in Positions(state.assetsByCategory)
  PROVE  LET hs == EntryAt(p).holdings IN
         /\ hs \in Seq(ToSet(hs)) /\ OnePerDate(ToSet(hs))
         /\ \A h \in ToSet(hs) : h.date \in Int /\ h.value \in Int /\ h.units \in Int
<1> DEFINE hs == EntryAt(p).holdings
<1>1. p[1] \in DOMAIN state.assetsByCategory /\ p[2] \in DOMAIN state.assetsByCategory[p[1]]
      /\ p = <<p[1], p[2]>>
  BY PositionsAre
<1>2. /\ hs \in Seq(ToSet(hs))
      /\ \A h \in ToSet(hs) : h.date \in query.from .. query.to /\ h.value \in Int /\ h.units \in Int
      /\ \A j \in 2 .. Len(hs) : hs[j - 1].date < hs[j].date
  BY <1>1 DEF ShownInv, ReturnInv, ReadInOrder
<1>3. query.from \in Int /\ query.to \in Int
  BY QueriesAssumption DEF ShownInv, ReturnInv
<1> HIDE DEF hs
<1>4. \A h \in ToSet(hs) : h.date \in Int
  BY <1>2, <1>3
<1>5. OnePerDate(ToSet(hs))
  BY <1>2, <1>4, OneHoldingADay
<1> QED
  BY <1>2, <1>4, <1>5 DEF hs

\* The report's entries are those read, held on the days of the grid.
LEMMA ReportKeepsEntries ==
  ASSUME ShownInv, HasReport
  PROVE  EntriesKept(Flat(report.assetsByCategory), state.assetsByCategory, GridDays)
<1> DEFINE assets == state.assetsByCategory
           grid == GridDays
<1>1. IsFiniteSet(DOMAIN assets) /\ \E T : \A k \in DOMAIN assets : assets[k] \in Seq(T)
  BY DEF ShownInv, ReturnInv, ReadTotals, HasReport
<1>2. report.assetsByCategory = KeptOf(assets, grid)
  <2>1. report = GenerateReport(state, query.from, query.to, Interval)
    BY DEF ShownInv
  <2>2. GenerateReport(state, query.from, query.to, Interval).assetsByCategory
          = KeptOf(assets, Grid(query.from, query.to, Interval))
    BY DEF GenerateReport, KeptOf
  <2> QED
    BY <2>1, <2>2 DEF GridDays, GenerateDates
<1> HIDE DEF assets, grid
<1> QED
  BY <1>1, <1>2, KeptEntries DEF assets, grid

LEMMA OnlyOnIs ==
  ASSUME NEW e, IsEntry(e), NEW grid
  PROVE  /\ OnlyOn(e, grid).id = e.id /\ OnlyOn(e, grid).category = e.category
         /\ OnlyOn(e, grid).holdings = FilterHoldingsByInterval(e.holdings, grid)
<1> DEFINE id == e.id  category == e.category  hs == e.holdings  ts == e.transactions
           f == FilterHoldingsByInterval(hs, grid)
<1>1. e = [id |-> id, category |-> category, holdings |-> hs, transactions |-> ts]
  BY DEF IsEntry
<1>2. OnlyOn(e, grid) = [e EXCEPT !.holdings = f]
  BY DEF OnlyOn
<1> HIDE DEF id, category, hs, ts, f
<1>3. [e EXCEPT !.holdings = f] = [id |-> id, category |-> category, holdings |-> f, transactions |-> ts]
  BY <1>1
<1> QED
  BY <1>2, <1>3 DEF id, category, hs, f

\* A column shows what one of the entries is worth.
LEMMA CellsOfEntries ==
  ASSUME ShownInv, HasReport
  PROVE  /\ \A n \in DOMAIN HoldingsTable : \E p \in Positions(state.assetsByCategory) :
              /\ n = NameOf(p)
              /\ HoldingsTable[n] = [d \in GridDays |-> Shown(Worth(p, d))]
         /\ \A p \in Positions(state.assetsByCategory) :
              (\E h \in ToSet(EntryAt(p).holdings) : h.date \in GridDays) => NameOf(p) \in DOMAIN HoldingsTable
<1> DEFINE assets == state.assetsByCategory
           all == Flat(report.assetsByCategory)
           grid == GridDays
           names == {<<all[i].category, all[i].id>> : i \in DOMAIN all}
           places(n) == {y \in DOMAIN all : <<all[y].category, all[y].id>> = n}
           one(n) == Last(ItemsAt(all, places(n)))
           column(hs) == HoldingColumn(hs, grid)
<1>1. EntriesKept(all, assets, grid)
  BY ReportKeepsEntries
<1>2. /\ DOMAIN HoldingsTable = names
      /\ \A n \in names : HoldingsTable[n] = column(one(n).holdings)
  BY DEF HoldingsTable, Columns, Select
<1> HIDE DEF all, assets
<1>3. PICK U : all \in Seq(U)
  BY <1>1 DEF EntriesKept
<1>4. ASSUME NEW y \in DOMAIN all
      PROVE  \E p \in Positions(assets) :
               /\ NameOf(p) = <<all[y].category, all[y].id>>
               /\ all[y].holdings = FilterHoldingsByInterval(EntryAt(p).holdings, grid)
  <2>1. PICK p \in Positions(assets) : all[y] = OnlyOn(assets[p[1]][p[2]], grid)
    BY <1>1 DEF EntriesKept
  <2>2. all[y] = OnlyOn(EntryAt(p), grid)
    BY <2>1 DEF EntryAt, assets
  <2>3. IsEntry(EntryAt(p)) /\ EntryAt(p).category = p[1]
    BY DEF ShownInv, EntriesHold, HasReport, assets
  <2> DEFINE e == EntryAt(p)
  <2> HIDE DEF e, grid
  <2>4. /\ OnlyOn(e, grid).id = e.id /\ OnlyOn(e, grid).category = e.category
        /\ OnlyOn(e, grid).holdings = FilterHoldingsByInterval(e.holdings, grid)
    BY <2>3, OnlyOnIs DEF e
  <2>5. NameOf(p) = <<all[y].category, all[y].id>>
    BY <2>2, <2>3, <2>4 DEF NameOf, e
  <2> QED
    BY <2>2, <2>4, <2>5 DEF e
<1>5. ASSUME NEW n \in names
      PROVE  \E p \in Positions(assets) :
               n = NameOf(p) /\ HoldingsTable[n] = [d \in GridDays |-> Shown(Worth(p, d))]
  <2>1. places(n) \in SUBSET (DOMAIN all) /\ places(n) # {}
    OBVIOUS
  <2>2. PICK y \in places(n) : one(n) = all[y]
    <3> HIDE DEF places
    <3> QED BY <1>3, <2>1, LastOfPlaces
  <2>3. y \in DOMAIN all /\ <<all[y].category, all[y].id>> = n
    BY <2>2
  <2>4. PICK p \in Positions(assets) :
               /\ NameOf(p) = <<all[y].category, all[y].id>>
               /\ all[y].holdings = FilterHoldingsByInterval(EntryAt(p).holdings, grid)
    BY <1>4, <2>3
  <2> DEFINE hs == EntryAt(p).holdings
  <2>5. hs \in Seq(ToSet(hs)) /\ OnePerDate(ToSet(hs))
    BY EntriesInOrder DEF HasReport, assets
  <2>6. \A d \in grid : Worth(p, d) = HoldingOn(hs, d).value
    BY DEF Worth
  <2>7. HoldingsTable[n] = column(FilterHoldingsByInterval(hs, grid))
    <3> HIDE DEF one, places, column
    <3> QED BY <1>2, <2>2, <2>4
  <2> HIDE DEF hs, grid
  <2>8. \A d \in grid : HoldingOn(FilterHoldingsByInterval(hs, grid), d) = HoldingOn(hs, d)
    BY <2>5, FilteredHoldings
  <2>9. column(FilterHoldingsByInterval(hs, grid)) = [d \in grid |-> Shown(Worth(p, d))]
    BY <2>6, <2>8 DEF HoldingColumn
  <2> QED
    BY <2>3, <2>4, <2>7, <2>9 DEF grid
<1>6. ASSUME NEW p \in Positions(assets), NEW h \in ToSet(EntryAt(p).holdings), h.date \in grid
      PROVE  NameOf(p) \in names
  <2> DEFINE hs == EntryAt(p).holdings
  <2>1. PICK i \in DOMAIN hs : hs[i] = h
    BY DEF ToSet
  <2>2. HeldOn(EntryAt(p), grid)
    BY <1>6, <2>1 DEF HeldOn, Dates
  <2> HIDE DEF hs
  <2>3. PICK y \in DOMAIN all : all[y] = OnlyOn(EntryAt(p), grid)
    BY <1>1, <2>2 DEF EntriesKept, EntryAt, assets
  <2>4. IsEntry(EntryAt(p)) /\ EntryAt(p).category = p[1]
    BY DEF ShownInv, EntriesHold, HasReport, assets
  <2> DEFINE e == EntryAt(p)
  <2> HIDE DEF e, grid
  <2>5. OnlyOn(e, grid).id = e.id /\ OnlyOn(e, grid).category = e.category
    BY <2>4, OnlyOnIs DEF e
  <2>6. NameOf(p) = <<all[y].category, all[y].id>>
    BY <2>3, <2>4, <2>5 DEF NameOf, e
  <2> QED
    BY <2>6
<1> QED
  BY <1>2, <1>5, <1>6 DEF assets, grid

\* Where every entry has an id of its own, entries differ in their names.
LEMMA NamesDiffer ==
  ASSUME ShownInv, HasReport, OneEntryEach,
         NEW p \in Positions(state.assetsByCategory), NEW q \in Positions(state.assetsByCategory),
         NameOf(p) = NameOf(q)
  PROVE  p = q
<1>1. EntryAt(p).id = EntryAt(q).id
  BY DEF NameOf
<1>2. ReturnInv /\ stage # "asked"
  BY DEF ShownInv, HasReport
<1> QED
  BY <1>1, <1>2, IdTellsPlace

-----------------------------------------------------------------------------
\* The entry of a column, the value of the entries on a day, and the day's rows.
EntryNamed(n) == CHOOSE p \in Positions(state.assetsByCategory) : NameOf(p) = n
Worths(d) == [n \in DOMAIN HoldingsTable |-> Worth(EntryNamed(n), d)]
RowsOn(d) == {r \in Held : r.date = d}
EntryOfRow(r) == CHOOSE p \in Positions(state.assetsByCategory) : r \in ToSet(EntryAt(p).holdings)

LEMMA NamesAreFinite ==
  ASSUME ShownInv, HasReport
  PROVE  IsFiniteSet(DOMAIN HoldingsTable)
<1> DEFINE all == Flat(report.assetsByCategory)
           f == [i \in DOMAIN all |-> <<all[i].category, all[i].id>>]
<1>1. DOMAIN HoldingsTable = {f[i] : i \in DOMAIN all}
  BY DEF HoldingsTable, Columns
<1>2. PICK U : all \in Seq(U)
  BY ReportKeepsEntries DEF EntriesKept
<1>3. DOMAIN f = DOMAIN all
  OBVIOUS
<1> HIDE DEF all, f
<1>4. IsFiniteSet(DOMAIN all)
  <2>1. DOMAIN all = 1 .. Len(all) /\ Len(all) \in Nat
    BY <1>2
  <2> QED
    BY <2>1, FS_Interval
<1>5. IsFiniteSet({f[i] : i \in DOMAIN all})
  BY <1>3, <1>4, FiniteImage
<1> QED
  BY <1>1, <1>5

\* The entry of a column is the one it shows.
LEMMA NamedEntries ==
  ASSUME ShownInv, HasReport, OneEntryEach
  PROVE  /\ \A n \in DOMAIN HoldingsTable : /\ EntryNamed(n) \in Positions(state.assetsByCategory)
                                            /\ NameOf(EntryNamed(n)) = n
                                            /\ HoldingsTable[n] = [d \in GridDays |-> Shown(Worth(EntryNamed(n), d))]
         /\ \A p \in Positions(state.assetsByCategory) : EntryNamed(NameOf(p)) = p
<1> DEFINE P == Positions(state.assetsByCategory)
<1>1. ASSUME NEW p \in P PROVE EntryNamed(NameOf(p)) = p
  <2>1. \E q \in P : NameOf(q) = NameOf(p)
    OBVIOUS
  <2>2. EntryNamed(NameOf(p)) \in P /\ NameOf(EntryNamed(NameOf(p))) = NameOf(p)
    BY <2>1 DEF EntryNamed
  <2> QED
    BY <2>2, NamesDiffer
<1>2. ASSUME NEW n \in DOMAIN HoldingsTable
      PROVE  /\ EntryNamed(n) \in P /\ NameOf(EntryNamed(n)) = n
             /\ HoldingsTable[n] = [d \in GridDays |-> Shown(Worth(EntryNamed(n), d))]
  <2>1. PICK p \in P : n = NameOf(p) /\ HoldingsTable[n] = [d \in GridDays |-> Shown(Worth(p, d))]
    BY CellsOfEntries
  <2>2. EntryNamed(n) = p
    BY <1>1, <2>1
  <2> QED
    BY <2>1, <2>2
<1> QED
  BY <1>1, <1>2

\* What an entry is worth on a day is what its row of the day says, if it has one.
LEMMA WorthOfRow ==
  ASSUME ShownInv, HasReport, NEW p \in Positions(state.assetsByCategory), NEW d
  PROVE  /\ Worth(p, d) \in Int
         /\ \A r \in ToSet(EntryAt(p).holdings) : r.date = d => Worth(p, d) = r.value
         /\ Worth(p, d) # 0 => \E r \in ToSet(EntryAt(p).holdings) : r.date = d
<1> DEFINE hs == EntryAt(p).holdings
<1>1. /\ hs \in Seq(ToSet(hs)) /\ OnePerDate(ToSet(hs))
      /\ \A h \in ToSet(hs) : h.date \in Int /\ h.value \in Int /\ h.units \in Int
  BY EntriesInOrder DEF HasReport
<1>2. Worth(p, d) = HoldingOn(hs, d).value
  BY DEF Worth
<1> HIDE DEF hs
<1>3. /\ \A h \in ToSet(hs) : h.date = d => HoldingOn(hs, d) = h
      /\ (\A h \in ToSet(hs) : h.date # d) => HoldingOn(hs, d) = NoHolding
  BY <1>1, HoldingFound
<1>4. NoHolding.value = 0
  BY DEF NoHolding
<1>5. CASE \E r \in ToSet(hs) : r.date = d
  <2>1. PICK r \in ToSet(hs) : r.date = d
    BY <1>5
  <2>2. Worth(p, d) \in Int
    BY <1>1, <1>2, <1>3, <2>1
  <2>3. \A q \in ToSet(hs) : q.date = d => Worth(p, d) = q.value
    BY <1>2, <1>3
  <2> QED
    BY <1>5, <2>2, <2>3 DEF hs
<1>6. CASE \A r \in ToSet(hs) : r.date # d
  <2>1. Worth(p, d) = 0
    BY <1>2, <1>3, <1>4, <1>6
  <2> QED
    BY <1>6, <2>1 DEF hs
<1> QED
  BY <1>5, <1>6

\* The rows of a day are of entries with columns, of one each.
LEMMA RowsOfDay ==
  ASSUME ShownInv, HasReport, OneEntryEach, NEW d \in GridDays
  PROVE  /\ \A r \in RowsOn(d) : /\ NameOf(EntryOfRow(r)) \in DOMAIN HoldingsTable
                                 /\ Worths(d)[NameOf(EntryOfRow(r))] = r.value
                                 /\ r.value \in Int
         /\ \A r, q \in RowsOn(d) : NameOf(EntryOfRow(r)) = NameOf(EntryOfRow(q)) => r = q
         /\ \A n \in DOMAIN HoldingsTable : Worths(d)[n] # 0 =>
              \E r \in RowsOn(d) : NameOf(EntryOfRow(r)) = n
<1> DEFINE P == Positions(state.assetsByCategory)
<1>1. ASSUME NEW r \in RowsOn(d)
      PROVE  EntryOfRow(r) \in P /\ r \in ToSet(EntryAt(EntryOfRow(r)).holdings) /\ r.date = d
  <2>1. \E p \in P : r \in ToSet(EntryAt(p).holdings)
    BY DEF RowsOn, Held
  <2>2. r.date = d
    BY DEF RowsOn
  <2> QED
    BY <2>1, <2>2 DEF EntryOfRow
<1>2. ASSUME NEW p \in P, NEW r \in ToSet(EntryAt(p).holdings), r.date = d
      PROVE  r \in RowsOn(d)
  BY <1>2 DEF RowsOn, Held
<1>3. \A p, q \in P : NameOf(p) = NameOf(q) => p = q
  BY NamesDiffer
<1>4. ASSUME NEW p \in P, NEW r \in ToSet(EntryAt(p).holdings), NEW q \in ToSet(EntryAt(p).holdings),
             r.date = d, q.date = d
      PROVE  r = q
  <2>1. OnePerDate(ToSet(EntryAt(p).holdings))
    BY EntriesInOrder DEF HasReport
  <2> QED
    BY <1>4, <2>1 DEF OnePerDate
<1>5. ASSUME NEW r \in RowsOn(d)
      PROVE  /\ NameOf(EntryOfRow(r)) \in DOMAIN HoldingsTable
             /\ Worths(d)[NameOf(EntryOfRow(r))] = r.value /\ r.value \in Int
  <2> DEFINE p == EntryOfRow(r)
  <2>1. p \in P /\ r \in ToSet(EntryAt(p).holdings) /\ r.date = d
    BY <1>1
  <2> HIDE DEF p
  <2>2. NameOf(p) \in DOMAIN HoldingsTable
    BY <2>1, CellsOfEntries
  <2>3. EntryNamed(NameOf(p)) = p
    BY <2>1, NamedEntries
  <2>4. Worth(p, d) = r.value /\ Worth(p, d) \in Int
    BY <2>1, WorthOfRow
  <2>5. Worths(d)[NameOf(p)] = Worth(EntryNamed(NameOf(p)), d)
    BY <2>2 DEF Worths
  <2> QED
    BY <2>2, <2>3, <2>4, <2>5 DEF p
<1>6. ASSUME NEW r \in RowsOn(d), NEW q \in RowsOn(d), NameOf(EntryOfRow(r)) = NameOf(EntryOfRow(q))
      PROVE  r = q
  <2>1. EntryOfRow(r) = EntryOfRow(q)
    BY <1>1, <1>3, <1>6
  <2> QED
    BY <1>1, <1>4, <2>1
<1>7. ASSUME NEW n \in DOMAIN HoldingsTable, Worths(d)[n] # 0
      PROVE  \E r \in RowsOn(d) : NameOf(EntryOfRow(r)) = n
  <2> DEFINE p == EntryNamed(n)
  <2>1. p \in P /\ NameOf(p) = n
    BY NamedEntries
  <2>2. Worth(p, d) # 0
    BY <1>7 DEF Worths
  <2> HIDE DEF p
  <2>3. PICK r \in ToSet(EntryAt(p).holdings) : r.date = d
    BY <2>1, <2>2, WorthOfRow
  <2>4. r \in RowsOn(d)
    BY <1>2, <2>1, <2>3
  <2> DEFINE q == EntryOfRow(r)
  <2>5. q \in P /\ r \in ToSet(EntryAt(q).holdings)
    BY <1>1, <2>4
  <2>6. EntryAt(p).id = EntryAt(q).id
    <3>1. r.asset = EntryAt(p).id /\ r.asset = EntryAt(q).id
      <4> HIDE DEF q
      <4> QED BY <2>1, <2>3, <2>5 DEF ShownInv, EntriesHold, HasReport
    <3> QED
      BY <3>1
  <2>7. p = q
    <3>1. ReturnInv /\ stage # "asked"
      BY DEF ShownInv, HasReport
    <3> HIDE DEF q
    <3> QED
      BY <2>1, <2>5, <2>6, <3>1, IdTellsPlace
  <2> QED
    BY <2>1, <2>4, <2>7
<1> QED
  BY <1>5, <1>6, <1>7

\* The total of a day is the sum of what the entries with columns are worth.
LEMMA TotalOfDay ==
  ASSUME ShownInv, HasReport, OneEntryEach, NEW d \in GridDays
  PROVE  /\ IsAmounts(Worths(d), DOMAIN HoldingsTable)
         /\ RowsOn(d) # {} => /\ d \in DOMAIN state.totalHoldings
                              /\ state.totalHoldings[d] = SumOver(Worths(d), DOMAIN HoldingsTable)
<1> DEFINE N == DOMAIN HoldingsTable
           R == RowsOn(d)
           w == Worths(d)
           v == [r \in R |-> r.value]
           f == [r \in R |-> NameOf(EntryOfRow(r))]
<1>1. IsFiniteSet(N) /\ \A n \in N : w[n] \in Int
  <2>1. ASSUME NEW n \in N PROVE w[n] \in Int
    <3>1. EntryNamed(n) \in Positions(state.assetsByCategory)
      BY NamedEntries
    <3>2. Worth(EntryNamed(n), d) \in Int
      BY <3>1, WorthOfRow
    <3> QED
      BY <3>2 DEF Worths
  <2> QED
    BY <2>1, NamesAreFinite
<1>2. /\ \A r \in R : f[r] \in N /\ w[f[r]] = v[r] /\ v[r] \in Int
      /\ \A r, q \in R : f[r] = f[q] => r = q
      /\ \A n \in N : w[n] # 0 => \E r \in R : f[r] = n
  BY RowsOfDay
<1>3. Rows(Held) /\ state.totalHoldings = GetTotalByDate(Held)
  BY DEF ShownInv, EntriesHold, HasReport
<1>4. R \in SUBSET Held
  BY DEF RowsOn
<1>5. IsFiniteSet(R)
  BY <1>3, <1>4, FS_Subset DEF Rows
<1>6. R # {} => /\ d \in DOMAIN state.totalHoldings
                /\ state.totalHoldings[d] = MapThenSumSet(LAMBDA r : r.value, R)
  <2>1. /\ DOMAIN GetTotalByDate(Held) = {r.date : r \in Held}
        /\ \A x \in DOMAIN GetTotalByDate(Held) :
             GetTotalByDate(Held)[x] = MapThenSumSet(LAMBDA r : r.value, {r \in Held : r.date = x})
    BY DEF GetTotalByDate
  <2>2. R # {} => d \in {r.date : r \in Held}
    BY DEF RowsOn
  <2>3. R = {r \in Held : r.date = d}
    BY DEF RowsOn
  <2> QED
    BY <1>3, <2>1, <2>2, <2>3
<1>7. MapThenSumSet(LAMBDA r : r.value, R) = SumOver(v, R)
  BY RowsAreSummed DEF SumOver
<1> HIDE DEF N, R, w, v, f
<1>8. IsAmounts(w, N) /\ IsAmounts(v, R)
  BY <1>1, <1>2, <1>5 DEF IsAmounts
<1>9. SumOver(w, {f[r] : r \in R}) = SumOver(v, R)
  BY <1>2, <1>8, SumMoves
<1>10. SumOver(w, N) = SumOver(w, {f[r] : r \in R})
  <2> DEFINE S == {f[r] : r \in R}
  <2>1. S \in SUBSET N /\ \A n \in N \ S : w[n] = 0
    BY <1>2
  <2> HIDE DEF S
  <2>2. SumOver(w, N) = SumOver(w, S)
    BY <1>8, <2>1, SumWithZeros
  <2> QED
    BY <2>2 DEF S
<1> QED
  BY <1>6, <1>7, <1>8, <1>9, <1>10 DEF N, R, w

-----------------------------------------------------------------------------
\* The total's cell of a day, and the cells of the other columns.
TotalOn(d) == TotalColumn(report.totalHoldings, GridDays)[d]
CellsOn(d) == [n \in DOMAIN HoldingsTable |-> HoldingsTable[n][d]]

LEMMA PairIsNoWord == \A a, b, w : <<a, b>> # Word(w)
<1> SUFFICES ASSUME NEW a, NEW b, NEW w PROVE <<a, b>> # <<w>>
  BY DEF Word
<1>1. Len(<<a, b>>) = 2 /\ Len(<<w>>) = 1
  OBVIOUS
<1> QED
  BY <1>1

LEMMA NoEntryIsTotal ==
  ASSUME ShownInv, HasReport
  PROVE  TOTAL \notin DOMAIN HoldingsTable
<1>1. \A n \in DOMAIN HoldingsTable : \A w : n # Word(w)
  BY CellsOfEntries, PairIsNoWord DEF NameOf
<1> QED
  BY <1>1 DEF TOTAL

\* The cells of the table of shares.
LEMMA SharesOfCells ==
  ASSUME ShownInv, stage \in {"framed", "done"}, NEW frame, frame = frames.ReportPercentageDf
  PROVE  /\ TOTAL \in DOMAIN frame /\ DOMAIN frame \ {TOTAL} = DOMAIN HoldingsTable
         /\ \A n \in DOMAIN HoldingsTable : \A d \in GridDays :
              frame[n][d] = Share(CellsOn(d)[n], TotalOn(d))
<1> DEFINE H == HoldingsTable
           total == TotalColumn(report.totalHoldings, GridDays)
           table == Merged(H, Named(TOTAL, total))
<1>1. TOTAL \notin DOMAIN H
  BY NoEntryIsTotal DEF HasReport
<1>2. frame = divideByTotal(table)
  <2>1. frames.ReportPercentageDf = divideByTotal(parseAccountsReportToDataFrame(report, GridDays))
    BY DEF ShownInv, GenerateReportDataframes
  <2>2. parseAccountsReportToDataFrame(report, GridDays) = table
    BY DEF parseAccountsReportToDataFrame, HoldingsTable
  <2> QED
    BY <2>1, <2>2
<1>3. HasReport
  BY DEF HasReport
<1>4. \A n \in DOMAIN H : DOMAIN H[n] = GridDays
  BY <1>3, CellsOfEntries
<1> HIDE DEF H, total
<1>5. /\ DOMAIN table = DOMAIN H \cup {TOTAL}
      /\ \A n \in DOMAIN H : table[n] = H[n]
      /\ table[TOTAL] = total
  <2>1. DOMAIN Named(TOTAL, total) = {TOTAL} /\ Named(TOTAL, total)[TOTAL] = total
    BY DEF Named
  <2> QED
    BY <1>1, <2>1 DEF Merged
<1> HIDE DEF table
<1>6. /\ DOMAIN frame = DOMAIN table
      /\ \A n \in DOMAIN table : n # TOTAL =>
           frame[n] = [d \in DOMAIN table[n] |-> Share(table[n][d], table[TOTAL][d])]
  BY <1>2, <1>5 DEF divideByTotal
<1>7. ASSUME NEW n \in DOMAIN H, NEW d \in GridDays
      PROVE  frame[n][d] = Share(CellsOn(d)[n], TotalOn(d))
  <2>1. n # TOTAL /\ n \in DOMAIN table /\ table[n] = H[n] /\ DOMAIN H[n] = GridDays
    BY <1>1, <1>4, <1>5
  <2>2. frame[n] = [x \in GridDays |-> Share(H[n][x], total[x])]
    BY <1>5, <1>6, <2>1
  <2>3. frame[n][d] = Share(H[n][d], total[d])
    BY <2>2
  <2>4. CellsOn(d)[n] = H[n][d] /\ TotalOn(d) = total[d]
    BY DEF CellsOn, TotalOn, H, total
  <2> QED
    BY <2>3, <2>4
<1>8. DOMAIN frame \ {TOTAL} = DOMAIN H
  BY <1>1, <1>5, <1>6
<1> QED
  BY <1>5, <1>6, <1>7, <1>8 DEF H

\* A day on which something is held, and all that is at whole hundredths.
GoodDay(d) ==
  /\ \A p \in Positions(state.assetsByCategory) :
       Worth(p, d) = 0 \/ (Worth(p, d) >= One /\ (100 * Worth(p, d)) % One = 0)
  /\ \E p \in Positions(state.assetsByCategory) : Worth(p, d) # 0

\* The cells of such a day show the values as they are.
LEMMA CellsAreExact ==
  ASSUME ShownInv, HasReport, OneEntryEach, NEW d \in GridDays, GoodDay(d),
         NEW n \in DOMAIN HoldingsTable
  PROVE  /\ Worths(d)[n] \in Nat /\ CellsOn(d)[n] \in Nat
         /\ One * CellsOn(d)[n] = 100 * Worths(d)[n]
<1> DEFINE p == EntryNamed(n)
<1>1. /\ p \in Positions(state.assetsByCategory)
      /\ HoldingsTable[n] = [x \in GridDays |-> Shown(Worth(p, x))]
  BY NamedEntries
<1>2. CellsOn(d)[n] = HoldingsTable[n][d] /\ Worths(d)[n] = Worth(p, d)
  BY DEF CellsOn, Worths
<1> HIDE DEF p
<1>3. CellsOn(d)[n] = Shown(Worth(p, d))
  BY <1>1, <1>2
<1> DEFINE v == Worth(p, d)
<1>4. v \in Int /\ (v = 0 \/ (v >= One /\ (100 * v) % One = 0))
  BY <1>1, WorthOfRow DEF GoodDay
<1> HIDE DEF v
<1>5. One \in Nat \ {0}
  BY AccountAssumption
<1>6. CASE v = 0
  <2>1. Shown(v) = 0
    BY <1>6, NothingShown
  <2> QED
    BY <1>2, <1>3, <1>5, <1>6, <2>1 DEF v
<1>7. CASE v >= One /\ (100 * v) % One = 0
  <2>1. Shown(v) \in Nat /\ One * Shown(v) = 100 * v
    BY <1>4, <1>7, WholeHundredths
  <2>2. v \in Nat
    BY <1>4, <1>5, <1>7
  <2> QED
    BY <1>2, <1>3, <2>1, <2>2 DEF v
<1> QED
  BY <1>4, <1>6, <1>7

\* The total of such a day is the sum of the cells.
LEMMA TotalIsExact ==
  ASSUME ShownInv, HasReport, OneEntryEach, NEW d \in GridDays, GoodDay(d)
  PROVE  /\ IsAmounts(CellsOn(d), DOMAIN HoldingsTable)
         /\ TotalOn(d) = SumOver(CellsOn(d), DOMAIN HoldingsTable)
         /\ TotalOn(d) \in Nat \ {0}
<1> DEFINE N == DOMAIN HoldingsTable
           w == Worths(d)
           c == CellsOn(d)
           T == SumOver(w, N)
           C == SumOver(c, N)
           card == Cardinality(N)
<1>0. One \in Nat \ {0}
  BY AccountAssumption
<1>1. \A n \in N : w[n] \in Nat /\ c[n] \in Nat /\ One * c[n] = 100 * w[n]
  BY CellsAreExact
<1>2. IsAmounts(w, N)
  BY TotalOfDay
<1> DEFINE p == CHOOSE x \in Positions(state.assetsByCategory) : Worth(x, d) # 0
           m == NameOf(p)
<1>3. p \in Positions(state.assetsByCategory) /\ Worth(p, d) # 0 /\ Worth(p, d) >= One
  BY DEF GoodDay
<1> HIDE DEF p
<1>4. PICK r \in ToSet(EntryAt(p).holdings) : r.date = d
  BY <1>3, WorthOfRow
<1>5. r \in RowsOn(d)
  BY <1>3, <1>4 DEF RowsOn, Held
<1>6. m \in N /\ EntryNamed(m) = p
  BY <1>3, <1>4, CellsOfEntries, NamedEntries
<1>7. w[m] >= One
  BY <1>3, <1>6 DEF Worths
<1>8. d \in DOMAIN state.totalHoldings /\ state.totalHoldings[d] = T
  BY <1>5, TotalOfDay
<1>9. TotalOn(d) = IF d \in DOMAIN report.totalHoldings /\ report.totalHoldings[d] >= One
                   THEN Shown(report.totalHoldings[d]) ELSE 0
  BY DEF TotalOn, TotalColumn
<1>10. report.totalHoldings = Restrict(state.totalHoldings, DOMAIN state.totalHoldings \cap GridDays)
  <2>1. report = GenerateReport(state, query.from, query.to, Interval)
    BY DEF ShownInv
  <2>2. GenerateReport(state, query.from, query.to, Interval).totalHoldings
          = Restrict(state.totalHoldings, DOMAIN state.totalHoldings
                                            \cap Grid(query.from, query.to, Interval))
    BY DEF GenerateReport
  <2> QED
    BY <2>1, <2>2 DEF GridDays, GenerateDates
<1>11. d \in DOMAIN report.totalHoldings /\ report.totalHoldings[d] = T
  BY <1>8, <1>10 DEF Restrict
<1> HIDE DEF N, w, c, m
<1>12. IsAmounts(c, N)
  BY <1>1, <1>2 DEF IsAmounts
<1>13. T \in Nat /\ w[m] <= T
  BY <1>1, <1>2, <1>6, SumAtLeast
<1>14. C \in Nat
  BY <1>1, <1>6, <1>12, SumAtLeast
<1>15. One * C = 100 * T
  <2>1. \A n \in N : One * c[n] - 100 * w[n] \in -0 .. 0
    <3> SUFFICES ASSUME NEW n \in N PROVE One * c[n] - 100 * w[n] \in -0 .. 0
      OBVIOUS
    <3> DEFINE x == One * c[n]  y == 100 * w[n]
    <3>1. x = y /\ y \in Int
      BY <1>1
    <3> HIDE DEF x, y
    <3>2. x - y \in -0 .. 0
      BY <3>1
    <3> QED
      BY <3>2 DEF x, y
  <2>2. One * C - 100 * T \in -(0 * card) .. 0 * card
    <3>1. One \in Int /\ 100 \in Int /\ 0 \in Int
      BY <1>0
    <3> QED
      BY <1>2, <1>12, <2>1, <3>1, SumsCompared
  <2>3. card \in Nat
    BY <1>2, FS_CardinalityType DEF IsAmounts
  <2> HIDE DEF card
  <2>4. 0 * card = 0
    BY <2>3
  <2> DEFINE x == One * C  y == 100 * T
  <2>5. x \in Int /\ y \in Int
    BY <1>0, <1>13, <1>14
  <2> HIDE DEF x, y, C, T
  <2>6. x = y
    BY <2>2, <2>4, <2>5 DEF x, y
  <2> QED
    BY <2>6 DEF x, y
<1>16. T >= One
  <2>1. w[m] \in Nat
    BY <1>1, <1>6
  <2> HIDE DEF T
  <2> QED
    BY <1>0, <1>7, <1>13, <2>1
<1> HIDE DEF T, C
<1>17. (100 * T) % One = 0
  BY <1>0, <1>14, <1>15, MultipleOnGrid
<1>18. Shown(T) \in Nat \ {0} /\ One * Shown(T) = 100 * T
  BY <1>13, <1>16, <1>17, WholeHundredths
<1>19. Shown(T) = C
  <2>1. One * Shown(T) = One * C
    BY <1>15, <1>18
  <2>2. Shown(T) \in Int /\ C \in Int /\ One \in Int \ {0}
    BY <1>0, <1>14, <1>18
  <2> DEFINE s == Shown(T)
  <2> HIDE DEF s
  <2>3. s = C
    BY <2>1, <2>2, Cancel DEF s
  <2> QED
    BY <2>3 DEF s
<1>20. TotalOn(d) = Shown(T)
  BY <1>9, <1>11, <1>16
<1> QED
  BY <1>12, <1>18, <1>19, <1>20 DEF C, c, N

\* Shares in hundredths of a percent that add up to the whole, but for half a
\* hundredth each.
AddToWhole(s, N) ==
  /\ IsAmounts(s, N) /\ \A n \in N : s[n] \in Nat
  /\ 2 * (SumOver(s, N) - 10000) \in -Cardinality(N) .. Cardinality(N)

\* The shares of some cells in their sum.
SharesOf(s, c, N) ==
  /\ IsAmounts(c, N) /\ \A n \in N : c[n] \in Nat
  /\ SumOver(c, N) \in Nat \ {0}
  /\ \A n \in N : s[n] = Share(c[n], SumOver(c, N))

\* Shares of a total that is the sum of their cells add up to the whole.
LEMMA SharesOfTotal ==
  ASSUME NEW N, NEW c, NEW s, SharesOf(s, c, N)
  PROVE  AddToWhole(s, N)
<1> DEFINE t == SumOver(c, N)
<1>0. /\ IsAmounts(c, N) /\ \A n \in N : c[n] \in Nat
      /\ t \in Nat \ {0} /\ \A n \in N : s[n] = Share(c[n], t)
  BY DEF SharesOf
<1> HIDE DEF t
<1>1. ASSUME NEW n \in N PROVE s[n] \in Nat /\ (2 * t) * s[n] - 20000 * c[n] \in -t .. t
  <2> DEFINE x == c[n]
  <2>1. x \in Nat /\ s[n] = Share(x, t)
    BY <1>0
  <2> HIDE DEF x
  <2>2. Rounded(Share(x, t), x, t)
    BY <1>0, <2>1, SharesAreRounded
  <2>3. Rounded(s[n], c[n], t)
    BY <2>1, <2>2 DEF x
  <2> QED
    BY <2>3 DEF Rounded
<1>2. IsAmounts(s, N)
  BY <1>0, <1>1 DEF IsAmounts
<1> DEFINE k == Cardinality(N)
           S == SumOver(s, N)
<1>3. k \in Nat /\ S \in Int /\ t \in Nat \ {0}
  BY <1>0, <1>2, SumTyped, FS_CardinalityType DEF IsAmounts
<1>4. (2 * t) * S - 20000 * t \in -(t * k) .. t * k
  <2> DEFINE a == 2 * t  b == 20000
  <2>1. a \in Int /\ b \in Int /\ t \in Int
    BY <1>3
  <2>2. \A n \in N : a * s[n] - b * c[n] \in -t .. t
    BY <1>1
  <2> HIDE DEF a, b
  <2>3. a * SumOver(s, N) - b * SumOver(c, N) \in -(t * Cardinality(N)) .. t * Cardinality(N)
    BY <1>0, <1>2, <2>1, <2>2, SumsCompared
  <2> QED
    BY <2>3 DEF a, b, t
<1> HIDE DEF k, S
<1> DEFINE z == 2 * (S - 10000)
<1>5. z \in Int
  BY <1>3
<1>6. (2 * t) * S - 20000 * t = t * z
  BY <1>3
<1> HIDE DEF z
<1>7. t * z <= t * k /\ t * (-k) <= t * z
  <2> DEFINE x == t * z  y == t * k
  <2>1. x \in Int /\ y \in Int
    BY <1>3, <1>5
  <2>2. t * (-k) = -y
    BY <1>3
  <2>3. x \in -y .. y
    BY <1>4, <1>6
  <2> HIDE DEF x, y
  <2>4. x <= y /\ -y <= x
    BY <2>1, <2>3
  <2> QED
    BY <2>2, <2>4 DEF x, y
<1>8. z <= k /\ -k <= z
  <2>1. z > k => t * z > t * k
    BY <1>3, <1>5
  <2>2. -k > z => t * (-k) > t * z
    BY <1>3, <1>5
  <2>3. t * z \in Int /\ t * k \in Int /\ t * (-k) \in Int
    BY <1>3, <1>5
  <2> DEFINE x == t * z  y == t * k  u == t * (-k)
  <2> HIDE DEF x, y, u
  <2>4. ~ (z > k) /\ ~ (-k > z)
    BY <1>7, <2>1, <2>2, <2>3 DEF x, y, u
  <2> QED
    BY <1>3, <1>5, <2>4
<1>9. z \in -k .. k
  BY <1>3, <1>5, <1>8
<1> QED
  BY <1>1, <1>2, <1>9 DEF AddToWhole, z, S, k

-----------------------------------------------------------------------------
\* The values of the day, as the property lists them.
LEMMA DayIsGood ==
  ASSUME ShownInv, HasReport, NEW d, ShownExactly(d)
  PROVE  GoodDay(d)
<1> DEFINE assets == state.assetsByCategory
           values == {HoldingOn(Entries[i].holdings, d).value : i \in DOMAIN Entries}
<1>0. (\A v \in values : v = 0 \/ (v >= One /\ (100 * v) % One = 0)) /\ values \ {0} # {}
  BY DEF ShownExactly
<1>1. IsFiniteSet(DOMAIN assets) /\ \E T : \A k \in DOMAIN assets : assets[k] \in Seq(T)
  BY DEF ShownInv, ReturnInv, ReadTotals, HasReport
<1> HIDE DEF assets
<1>2. PICK pos : Arranged(pos, assets, Flat(assets))
  BY <1>1, FlatArranged
<1>3. /\ \A p \in Positions(assets) : pos[p] \in DOMAIN Entries /\ Entries[pos[p]] = EntryAt(p)
      /\ \A i \in DOMAIN Entries : \E p \in Positions(assets) : pos[p] = i
  BY <1>2 DEF Arranged, EntryAt, Entries, assets
<1>4. \A p \in Positions(assets) : Worth(p, d) \in values
  BY <1>3 DEF Worth
<1>5. \E p \in Positions(assets) : Worth(p, d) # 0
  <2>1. PICK i \in DOMAIN Entries : HoldingOn(Entries[i].holdings, d).value # 0
    BY <1>0
  <2>2. PICK p \in Positions(assets) : pos[p] = i
    BY <1>3
  <2>3. Entries[i] = EntryAt(p)
    BY <1>3, <2>2
  <2> QED
    BY <2>1, <2>3 DEF Worth
<1> QED
  BY <1>0, <1>4, <1>5 DEF GoodDay, assets

\* The shares of such a day add up to the whole.
LEMMA DaySharesAddUp ==
  ASSUME ShownInv, stage \in {"framed", "done"}, OneEntryEach, NEW d \in GridDays, GoodDay(d),
         NEW frame, frame = frames.ReportPercentageDf,
         NEW names, names = DOMAIN frame \ {TOTAL},
         NEW s, \A n \in names : s[n] = frame[n][d]
  PROVE  AddToWhole(s, names)
<1> DEFINE c == CellsOn(d)
           t == TotalOn(d)
<1>0. HasReport
  BY DEF HasReport
<1>1. /\ names = DOMAIN HoldingsTable
      /\ \A n \in names : frame[n][d] = Share(c[n], t)
  <2>1. /\ DOMAIN frame \ {TOTAL} = DOMAIN HoldingsTable
        /\ \A n \in DOMAIN HoldingsTable : \A x \in GridDays :
             frame[n][x] = Share(CellsOn(x)[n], TotalOn(x))
    BY SharesOfCells
  <2> QED
    BY <2>1
<1>2. IsAmounts(c, names) /\ t = SumOver(c, names) /\ t \in Nat \ {0}
  BY <1>0, <1>1, TotalIsExact
<1>3. \A n \in names : c[n] \in Nat
  BY <1>0, <1>1, CellsAreExact
<1> HIDE DEF c, t
<1>4. \A n \in names : s[n] = Share(c[n], t)
  BY <1>1
<1>5. SharesOf(s, c, names)
  BY <1>2, <1>3, <1>4 DEF SharesOf
<1> QED
  BY <1>5, SharesOfTotal

\* The pie leaves out shares of nothing only.
LEMMA PositiveSum ==
  ASSUME NEW names, NEW s, IsAmounts(s, names), \A n \in names : s[n] \in Nat,
         NEW pie, DOMAIN pie = {n \in names : s[n] > 0}, \A n \in DOMAIN pie : pie[n] = s[n]
  PROVE  SumOver(pie, DOMAIN pie) = SumOver(s, names)
<1> DEFINE shown == DOMAIN pie
           f == [n \in shown |-> n]
<1>1. shown \in SUBSET names /\ \A n \in names \ shown : s[n] = 0
  OBVIOUS
<1>2. \A n \in shown : pie[f[n]] = s[n]
  OBVIOUS
<1>3. \A n, m \in shown : f[n] = f[m] => n = m
  OBVIOUS
<1>4. {f[n] : n \in shown} = shown
  OBVIOUS
<1> HIDE DEF f, shown
<1>5. SumOver(s, names) = SumOver(s, shown)
  BY <1>1, SumWithZeros
<1>6. IsAmounts(s, shown)
  BY <1>1, PartsAreAmounts
<1>7. SumOver(pie, {f[n] : n \in shown}) = SumOver(s, shown)
  BY <1>2, <1>3, <1>6, SumMoves
<1> QED
  BY <1>4, <1>5, <1>7 DEF shown

LEMMA PieHasAllShares ==
  ASSUME NEW frame, NEW dates, NEW names, names = DOMAIN frame \ {TOTAL},
         NEW s, s = [n \in names |-> frame[n][Max(dates)]], AddToWhole(s, names),
         NEW pie, pie = Pie(frame, dates)
  PROVE  SumOver(pie, DOMAIN pie) = SumOver(s, names)
<1> DEFINE shown == {n \in names : s[n] > 0}
           shares == Series(frame, {}, {TOTAL})
           last == Max(dates)
<1>1. DOMAIN shares = names /\ \A n \in names : shares[n] = frame[n]
  BY DEF Series, Restrict
<1>2. pie = [n \in {n \in DOMAIN shares : shares[n][last] > 0} |-> shares[n][last]]
  BY DEF Pie
<1> HIDE DEF shares, last
<1>3. \A n \in names : s[n] = shares[n][last]
  BY <1>1 DEF last
<1>4. {n \in DOMAIN shares : shares[n][last] > 0} = shown
  BY <1>1, <1>3
<1> HIDE DEF shown
<1>5. pie = [n \in shown |-> shares[n][last]]
  BY <1>2, <1>4
<1>6. \A n \in shown : n \in names
  BY DEF shown
<1>7. DOMAIN pie = shown /\ \A n \in shown : pie[n] = s[n]
  BY <1>3, <1>5, <1>6
<1>8. IsAmounts(s, names) /\ \A n \in names : s[n] \in Nat
  BY DEF AddToWhole
<1> QED
  BY <1>7, <1>8, PositiveSum DEF shown

(***************************************************************************)
(* The shares of a day add up to the whole, in the table and in the pie,   *)
(* but for half a hundredth a share, for all books, intervals and ranges.  *)
(***************************************************************************)
THEOREM SharesAddUp == Spec => []SharesSumToWhole
<1>1. ShownInv => SharesSumToWhole
  <2> DEFINE frame == frames.ReportPercentageDf
             names == DOMAIN frame \ {TOTAL}
             k == Cardinality(names)
             shares(d) == [n \in names |-> frame[n][d]]
  <2> SUFFICES ASSUME ShownInv, stage = "done", OneEntryEach, NEW d \in GridDays, ShownExactly(d)
               PROVE  NearWhole(shares(d), k) /\ (d = Max(GridDays) => NearWhole(charts.pie, k))
    BY DEF SharesSumToWhole
  <2>1. HasReport /\ stage \in {"framed", "done"}
    BY DEF HasReport
  <2>2. GoodDay(d)
    BY <2>1, DayIsGood
  <2> DEFINE s == shares(d)
             pie == charts.pie
  <2>3. DOMAIN s = names /\ \A n \in names : s[n] = frame[n][d]
    OBVIOUS
  <2>4. pie = Pie(frame, GridDays)
    BY DEF ShownInv, ParseAccountsReportToPDF
  <2>5. d = Max(GridDays) => s = [n \in names |-> frame[n][Max(GridDays)]]
    OBVIOUS
  <2>6. frame = frames.ReportPercentageDf /\ names = DOMAIN frame \ {TOTAL}
    OBVIOUS
  <2> HIDE DEF s, pie, frame, names
  <2>7. AddToWhole(s, names)
    BY <2>1, <2>2, <2>3, <2>6, DaySharesAddUp
  <2>8. 2 * (SumOver(s, names) - 10000) \in -k .. k
    BY <2>7 DEF AddToWhole
  <2> HIDE DEF k
  <2>9. NearWhole(s, k)
    <3>1. MapThenSumSet(LAMBDA x : s[x], DOMAIN s) = SumOver(s, names)
      BY <2>3, CellsAreSummed
    <3> QED
      BY <2>8, <3>1 DEF NearWhole
  <2>10. ASSUME d = Max(GridDays) PROVE NearWhole(pie, k)
    <3>1. SumOver(pie, DOMAIN pie) = SumOver(s, names)
      BY <2>4, <2>5, <2>6, <2>7, <2>10, PieHasAllShares
    <3>2. MapThenSumSet(LAMBDA x : pie[x], DOMAIN pie) = SumOver(s, names)
      BY <3>1, CellsAreSummed
    <3> QED
      BY <2>8, <3>2 DEF NearWhole
  <2> QED
    BY <2>9, <2>10 DEF s, pie
<1> QED
  BY <1>1, ShownInvariance, PTL
=============================================================================
