----------------------------- MODULE BasicLemmas -----------------------------
(***************************************************************************)
(* Facts about numbers and sets that several proofs need: remainders, the  *)
(* least and the greatest of a set of numbers, induction over a set of     *)
(* numbers, and the function that a fold over a sequence applies.          *)
(***************************************************************************)
EXTENDS Integers, WellFoundedInduction, TLAPS

-----------------------------------------------------------------------------
(* Remainders *)

\* Division with remainder, the only fact about % the rest uses.
LEMMA DivMod ==
    ASSUME NEW a \in Nat, NEW m \in Nat \ {0}
    PROVE  /\ a % m \in 0 .. m - 1
           /\ a \div m \in Int
           /\ a = m * (a \div m) + (a % m)
<1>1. a % m \in Int /\ a \div m \in Int
    OBVIOUS
<1>2. a % m >= 0 /\ a % m < m
    OBVIOUS
<1>3. a = m * (a \div m) + (a % m)
    OBVIOUS
<1> QED BY <1>1, <1>2, <1>3

\* Two numbers less than n apart differ, or have different remainders.
LEMMA RemaindersDiffer ==
    ASSUME NEW n \in Nat \ {0}, NEW a \in Nat, NEW b \in Nat, a < b, b < a + n
    PROVE  a % n # b % n
<1> SUFFICES ASSUME a % n = b % n PROVE FALSE
    OBVIOUS
<1> DEFINE k == a \div n
           l == b \div n
<1>1. /\ k \in Int /\ l \in Int /\ a % n \in Int
      /\ a = n * k + (a % n) /\ b = n * l + (b % n)
    BY DivMod
<1> HIDE DEF k, l
<1>2. b - a = n * (l - k)
    <2>1. n * l - n * k = n * (l - k)
        BY <1>1
    <2>2. n * k \in Int /\ n * l \in Int
        BY <1>1
    <2> QED BY <2>1, <2>2, <1>1
<1>3. CASE l - k >= 1
    <2>1. n * (l - k) >= n
        BY <1>1, <1>3
    <2> QED BY <2>1, <1>2
<1>4. CASE l - k <= 0
    <2>1. n * (l - k) <= 0
        BY <1>1, <1>4
    <2> QED BY <2>1, <1>2
<1> QED BY <1>1, <1>3, <1>4

\* A number that is taken modulo 2 * n first keeps its remainder by n.
LEMMA RemainderOfRemainder ==
    ASSUME NEW n \in Nat \ {0}, NEW a \in Nat
    PROVE  (a % (2 * n)) % n = a % n
<1> DEFINE w == 2 * n
           m == a % w
           q == a \div w
           t == m \div n
<1>1. m \in Nat /\ q \in Int /\ a = w * q + m
    <2>1. w \in Nat \ {0}
        OBVIOUS
    <2> HIDE DEF w
    <2>2. m \in 0 .. w - 1 /\ q \in Int /\ a = w * q + m
        BY <2>1, DivMod
    <2> QED BY <2>1, <2>2
<1>2. m % n \in 0 .. n - 1 /\ t \in Int /\ m = n * t + (m % n)
    <2> HIDE DEF m
    <2> QED BY <1>1, DivMod
<1>3. a = n * (2 * q + t) + (m % n)
    <2>1. w * q + n * t = n * (2 * q + t)
        <3> HIDE DEF q, t
        <3> QED BY <1>1, <1>2
    <2>2. w * q \in Int /\ n * t \in Int /\ m % n \in Int
        <3> HIDE DEF m, q, t
        <3> QED BY <1>1, <1>2
    <2> HIDE DEF m, q, t, w
    <2> QED BY <2>1, <2>2, <1>1, <1>2
<1>4. a % n \in 0 .. n - 1 /\ a \div n \in Int /\ a = n * (a \div n) + (a % n)
    BY DivMod
<1> DEFINE u == 2 * q + t
           v == a \div n
           r == m % n
           s == a % n
<1>5. u \in Int /\ v \in Int /\ r \in 0 .. n - 1 /\ s \in 0 .. n - 1
    <2> HIDE DEF q, t, m
    <2> QED BY <1>1, <1>2, <1>4
<1>6. n * u + r = n * v + s
    BY <1>3, <1>4
<1> HIDE DEF u, v, r, s, w, m, q, t
<1>7. n * (u - v) = s - r
    <2>1. n * u - n * v = n * (u - v) /\ n * u \in Int /\ n * v \in Int
        BY <1>5
    <2> QED BY <2>1, <1>5, <1>6
<1>8. CASE u - v >= 1
    <2>1. n * (u - v) >= n
        BY <1>5, <1>8
    <2> QED BY <2>1, <1>5, <1>7
<1>9. CASE u - v <= -1
    <2>1. n * (u - v) <= -n
        BY <1>5, <1>9
    <2> QED BY <2>1, <1>5, <1>7
<1>10. CASE u - v = 0
    <2>1. n * (u - v) = 0
        BY <1>10
    <2>2. s = r
        BY <2>1, <1>5, <1>7
    <2> QED BY <2>2 DEF s, r, m, w
<1> QED BY <1>5, <1>8, <1>9, <1>10

\* The remainder is known from any way to divide.
LEMMA RemainderIs ==
    ASSUME NEW n \in Nat \ {0}, NEW a \in Nat, NEW k \in Int, NEW r \in 0 .. n - 1, a = n * k + r
    PROVE  a % n = r
<1> DEFINE q == a \div n
           s == a % n
<1>1. q \in Int /\ s \in 0 .. n - 1 /\ a = n * q + s
    BY DivMod
<1> HIDE DEF q, s
<1>2. n * (q - k) = r - s
    <2>1. n * q - n * k = n * (q - k) /\ n * q \in Int /\ n * k \in Int
        BY <1>1
    <2> QED BY <2>1, <1>1
<1>3. CASE q - k >= 1
    <2>1. n * (q - k) >= n
        BY <1>1, <1>3
    <2> QED BY <2>1, <1>1, <1>2
<1>4. CASE q - k <= -1
    <2>1. n * (q - k) <= -n
        BY <1>1, <1>4
    <2> QED BY <2>1, <1>1, <1>2
<1>5. CASE q - k = 0
    <2>1. n * (q - k) = 0
        BY <1>5
    <2>2. s = r
        BY <2>1, <1>1, <1>2
    <2> QED BY <2>2 DEF s
<1> QED BY <1>1, <1>3, <1>4, <1>5

\* A number below n is its own remainder, and so it is n further on.
LEMMA SmallRemainder ==
    ASSUME NEW n \in Nat \ {0}, NEW r \in 0 .. n - 1
    PROVE  r % n = r /\ (n + r) % n = r
<1>1. r \in Nat /\ r = n * 0 + r /\ n + r \in Nat /\ n + r = n * 1 + r /\ 0 \in Int /\ 1 \in Int
    OBVIOUS
<1>2. r % n = r
    BY <1>1, RemainderIs
<1>3. (n + r) % n = r
    BY <1>1, RemainderIs
<1> QED BY <1>2, <1>3

\* Multiples of n do not change the remainder.
LEMMA RemainderBesideMultiple ==
    ASSUME NEW n \in Nat \ {0}, NEW a \in Nat, NEW k \in Nat
    PROVE  (a + n * k) % n = a % n
<1>1. a % n \in 0 .. n - 1 /\ a \div n \in Int /\ a = n * (a \div n) + (a % n)
    BY DivMod
<1> DEFINE q == a \div n
           r == a % n
<1> HIDE DEF q, r
<1>2. q \in Int /\ r \in 0 .. n - 1 /\ a = n * q + r
    BY <1>1 DEF q, r
<1>3. a + n * k = n * (q + k) + r
    <2>1. n * (q + k) = n * q + n * k /\ n * q \in Int /\ n * k \in Int
        BY <1>2
    <2> QED BY <2>1, <1>2
<1>4. a + n * k \in Nat /\ q + k \in Int
    <2>1. n * k \in Nat
        OBVIOUS
    <2> QED BY <2>1, <1>2
<1>5. (a + n * k) % n = r
    <2> DEFINE b == a + n * k
               l == q + k
    <2>1. b \in Nat /\ l \in Int /\ b = n * l + r
        BY <1>3, <1>4
    <2> HIDE DEF b, l
    <2>2. b % n = r
        BY <2>1, <1>2, RemainderIs
    <2> QED BY <2>2 DEF b
<1> QED BY <1>5 DEF r

-----------------------------------------------------------------------------
(* Least and greatest numbers, and induction *)

\* A set of natural numbers has a least one.
LEMMA LeastNumber ==
    ASSUME NEW T, T \subseteq Nat, T # {}
    PROVE  \E x \in T : \A y \in T : x <= y
<1> DEFINE R == OpToRel(<, Nat)
<1>1. \E x \in T : \A y \in T : ~ (<<y, x>> \in R)
    BY NatLessThanWellFounded, WFMin, Zenon
<1>2. \A x, y \in Nat : x < y => <<x, y>> \in R
    BY DEF OpToRel
<1> HIDE DEF R
<1>3. PICK x \in T : \A y \in T : ~ (<<y, x>> \in R)
    BY <1>1
<1>4. ASSUME NEW y \in T PROVE x <= y
    <2>1. x \in Nat /\ y \in Nat
        OBVIOUS
    <2>2. ~ (y < x)
        BY <1>2, <1>3, <2>1, Zenon
    <2> QED BY <2>1, <2>2
<1> QED BY <1>4

\* A bounded set of natural numbers has a greatest one.
LEMMA GreatestNumber ==
    ASSUME NEW n \in Nat, NEW T, T \subseteq 0 .. n, T # {}
    PROVE  \E x \in T : \A y \in T : x >= y
<1> DEFINE U == {m \in 0 .. n : n - m \in T}
<1>1. U \subseteq Nat /\ U # {}
    <2>1. PICK x \in T : TRUE
        OBVIOUS
    <2>2. n - (n - x) = x /\ n - x \in 0 .. n
        OBVIOUS
    <2>3. n - x \in U
        BY <2>1, <2>2
    <2>4. U \subseteq Nat
        OBVIOUS
    <2> HIDE DEF U
    <2> QED BY <2>3, <2>4
<1>2. PICK m \in U : \A k \in U : m <= k
    <2> HIDE DEF U
    <2> QED BY <1>1, LeastNumber
<1>3. ASSUME NEW y \in T PROVE n - m >= y
    <2>1. n - y \in U
        <3>1. n - (n - y) = y /\ n - y \in 0 .. n
            OBVIOUS
        <3> QED BY <3>1
    <2>2. m <= n - y
        BY <1>2, <2>1
    <2> QED BY <2>2
<1> QED BY <1>3

\* Induction, over a set of numbers instead of a predicate of them.
LEMMA Induction ==
    ASSUME NEW P, 0 \in P, \A n \in Nat : n \in P => n + 1 \in P
    PROVE  Nat \subseteq P
<1> SUFFICES ASSUME Nat \ P # {} PROVE FALSE
    OBVIOUS
<1>1. PICK n \in Nat \ P : \A m \in Nat \ P : n <= m
    BY LeastNumber
<1>2. n # 0 /\ n - 1 \in Nat /\ n - 1 \notin Nat \ P
    BY <1>1
<1>3. n - 1 \in P /\ n = (n - 1) + 1
    BY <1>2
<1> QED BY <1>1, <1>3

\* The same up to n, and down from n + 1.
LEMMA InductionUp ==
    ASSUME NEW n \in Nat, NEW P, 0 \in P, \A i \in 1 .. n : i - 1 \in P => i \in P
    PROVE  0 .. n \subseteq P
<1> DEFINE Q == {i \in Nat : i <= n => i \in P}
<1>1. 0 \in Q
    OBVIOUS
<1>2. ASSUME NEW i \in Nat, i \in Q PROVE i + 1 \in Q
    <2> SUFFICES ASSUME i + 1 <= n PROVE i + 1 \in P
        OBVIOUS
    <2>1. i \in P /\ i + 1 \in 1 .. n /\ (i + 1) - 1 = i
        BY <1>2
    <2> QED BY <2>1
<1>3. Nat \subseteq Q
    <2> HIDE DEF Q
    <2> QED BY <1>1, <1>2, Induction
<1> QED BY <1>3

LEMMA InductionDown ==
    ASSUME NEW n \in Nat, NEW P, n + 1 \in P, \A k \in 1 .. n : k + 1 \in P => k \in P
    PROVE  1 .. n + 1 \subseteq P
<1> DEFINE Q == {i \in Nat : i <= n => n + 1 - i \in P}
<1>1. 0 \in Q
    <2>1. n + 1 - 0 = n + 1
        OBVIOUS
    <2> QED BY <2>1
<1>2. ASSUME NEW i \in Nat, i \in Q PROVE i + 1 \in Q
    <2> SUFFICES ASSUME i + 1 <= n PROVE n + 1 - (i + 1) \in P
        OBVIOUS
    <2>1. n + 1 - i \in P
        BY <1>2
    <2>2. n + 1 - (i + 1) \in 1 .. n /\ (n + 1 - (i + 1)) + 1 = n + 1 - i
        OBVIOUS
    <2> QED BY <2>1, <2>2
<1>3. Nat \subseteq Q
    <2> HIDE DEF Q
    <2> QED BY <1>1, <1>2, Induction
<1>4. ASSUME NEW k \in 1 .. n + 1 PROVE k \in P
    <2>1. n + 1 - k \in Nat /\ n + 1 - k <= n /\ n + 1 - (n + 1 - k) = k
        OBVIOUS
    <2>2. n + 1 - k \in Q
        BY <1>3, <2>1
    <2>3. n + 1 - (n + 1 - k) \in P
        BY <2>1, <2>2
    <2> QED BY <2>1, <2>3
<1> QED BY <1>4

-----------------------------------------------------------------------------
(* Folding *)

\* A fold over m elements takes the greatest of the indices that are left and
\* applies its step to the fold of the others.
IsFold(f, base, m, step) ==
    /\ f[{}] = base
    /\ \A I \in SUBSET (1 .. m) : \A x \in I :
          (\A y \in I : x >= y) => f[I] = step[<<f[I \ {x}], x>>]

\* There is a function that does this, whatever the step is.
LEMMA FoldExists ==
    ASSUME NEW S, NEW base \in S, NEW n \in Nat, NEW step \in [S \X (1 .. n) -> S]
    PROVE  \E f \in [SUBSET (1 .. n) -> S] : IsFold(f, base, n, step)
<1> USE DEF IsFold
<1> DEFINE
      Folds(m, f) == IsFold(f, base, m, step)
      Foldable(m) == \E f \in [SUBSET (1 .. m) -> S] : Folds(m, f)
      P == {m \in Nat : m <= n => Foldable(m)}
<1>1. 0 \in P
    <2>1. Folds(0, [I \in SUBSET (1 .. 0) |-> base])
        OBVIOUS
    <2>2. [I \in SUBSET (1 .. 0) |-> base] \in [SUBSET (1 .. 0) -> S]
        OBVIOUS
    <2>3. Foldable(0)
        <3> HIDE DEF Folds
        <3> QED BY <2>1, <2>2
    <2> HIDE DEF Foldable
    <2> QED BY <2>3
<1>2. ASSUME NEW m \in Nat, m \in P PROVE m + 1 \in P
    <2> SUFFICES ASSUME m + 1 <= n PROVE Foldable(m + 1)
        <3> HIDE DEF Foldable
        <3> QED OBVIOUS
    <2>0. Foldable(m)
        <3> HIDE DEF Foldable
        <3> QED BY <1>2
    <2>1. PICK g \in [SUBSET (1 .. m) -> S] : Folds(m, g)
        <3> HIDE DEF Folds
        <3> QED BY <2>0
    <2> DEFINE f == [I \in SUBSET (1 .. m + 1) |->
                        IF m + 1 \in I THEN step[<<g[I \ {m + 1}], m + 1>>] ELSE g[I]]
    <2>2. \A I \in SUBSET (1 .. m + 1) :
             /\ I \ {m + 1} \in SUBSET (1 .. m)
             /\ m + 1 \notin I => I \in SUBSET (1 .. m)
        OBVIOUS
    <2>3. f \in [SUBSET (1 .. m + 1) -> S]
        <3>1. ASSUME NEW I \in SUBSET (1 .. m + 1) PROVE f[I] \in S
            <4>1. CASE m + 1 \in I
                <5>1. g[I \ {m + 1}] \in S /\ m + 1 \in 1 .. n
                    BY <2>2
                <5> QED BY <4>1, <5>1
            <4>2. CASE m + 1 \notin I
                BY <4>2, <2>2
            <4> QED BY <4>1, <4>2
        <3> QED BY <3>1
    <2>4. \A I \in SUBSET (1 .. m) : f[I] = g[I]
        OBVIOUS
    <2>5. f[{}] = base
        BY <2>1, <2>4
    <2>6. ASSUME NEW I \in SUBSET (1 .. m + 1), NEW x \in I, \A y \in I : x >= y
          PROVE  f[I] = step[<<f[I \ {x}], x>>]
        <3>1. CASE m + 1 \in I
            <4>1. x = m + 1
                BY <3>1, <2>6
            <4>2. f[I] = step[<<g[I \ {m + 1}], m + 1>>]
                BY <3>1
            <4>3. f[I \ {x}] = g[I \ {m + 1}]
                BY <4>1, <2>2, <2>4
            <4> QED BY <4>1, <4>2, <4>3
        <3>2. CASE m + 1 \notin I
            <4>1. I \in SUBSET (1 .. m) /\ I \ {x} \in SUBSET (1 .. m)
                BY <3>2, <2>2
            <4>2. f[I] = g[I] /\ f[I \ {x}] = g[I \ {x}]
                BY <4>1, <2>4
            <4>3. g[I] = step[<<g[I \ {x}], x>>]
                BY <2>1, <2>6, <4>1
            <4> QED BY <4>2, <4>3
        <3> QED BY <3>1, <3>2
    <2>7. Folds(m + 1, f)
        <3> HIDE DEF f
        <3> QED BY <2>5, <2>6
    <2> HIDE DEF f, Folds
    <2> QED BY <2>3, <2>7
<1>3. n \in P
    <2> HIDE DEF P
    <2> QED BY <1>1, <1>2, Induction
<1>4. Foldable(n)
    <2> HIDE DEF Foldable
    <2> QED BY <1>3
<1> QED BY <1>4

-----------------------------------------------------------------------------
(* Recursion *)

\* A function that goes on from each number to the next by a step.
IsRecursion(f, base, m, step) ==
    f[0] = base /\ \A i \in 1 .. m : f[i] = step[<<f[i - 1], i>>]

\* There is one, whatever the step is.
LEMMA RecursionExists ==
    ASSUME NEW S, NEW base \in S, NEW n \in Nat, NEW step \in [S \X (1 .. n) -> S]
    PROVE  \E f \in [0 .. n -> S] : IsRecursion(f, base, n, step)
<1> USE DEF IsRecursion
<1> DEFINE
      Recurses(m, f) == IsRecursion(f, base, m, step)
      Exists(m) == \E f \in [0 .. m -> S] : Recurses(m, f)
      P == {m \in Nat : m <= n => Exists(m)}
<1>1. 0 \in P
    <2>1. [i \in 0 .. 0 |-> base] \in [0 .. 0 -> S] /\ Recurses(0, [i \in 0 .. 0 |-> base])
        OBVIOUS
    <2>2. Exists(0)
        <3> HIDE DEF Recurses
        <3> QED BY <2>1
    <2> HIDE DEF Exists
    <2> QED BY <2>2
<1>2. ASSUME NEW m \in Nat, m \in P PROVE m + 1 \in P
    <2> SUFFICES ASSUME m + 1 <= n PROVE Exists(m + 1)
        <3> HIDE DEF Exists
        <3> QED OBVIOUS
    <2>0. Exists(m)
        <3> HIDE DEF Exists
        <3> QED BY <1>2
    <2>1. PICK g \in [0 .. m -> S] : Recurses(m, g)
        <3> HIDE DEF Recurses
        <3> QED BY <2>0
    <2> DEFINE f == [i \in 0 .. m + 1 |-> IF i = m + 1 THEN step[<<g[m], m + 1>>] ELSE g[i]]
    <2>2. step[<<g[m], m + 1>>] \in S
        OBVIOUS
    <2>3. f \in [0 .. m + 1 -> S]
        BY <2>2
    <2>4. f[0] = base
        BY <2>1
    <2>5. ASSUME NEW i \in 1 .. m + 1 PROVE f[i] = step[<<f[i - 1], i>>]
        <3>1. CASE i = m + 1
            <4>1. i - 1 = m /\ f[i] = step[<<g[m], m + 1>>] /\ f[m] = g[m]
                BY <3>1
            <4> HIDE DEF f
            <4> QED BY <3>1, <4>1
        <3>2. CASE i # m + 1
            <4>1. i \in 1 .. m /\ i - 1 \in 0 .. m /\ f[i] = g[i] /\ f[i - 1] = g[i - 1]
                BY <3>2
            <4>2. g[i] = step[<<g[i - 1], i>>]
                BY <2>1, <4>1
            <4> HIDE DEF f
            <4> QED BY <4>1, <4>2
        <3> QED BY <3>1, <3>2
    <2>6. Recurses(m + 1, f)
        <3> HIDE DEF f
        <3> QED BY <2>4, <2>5
    <2> HIDE DEF f, Recurses
    <2> QED BY <2>3, <2>6
<1>3. n \in P
    <2> HIDE DEF P
    <2> QED BY <1>1, <1>2, Induction
<1>4. Exists(n)
    <2> HIDE DEF Exists
    <2> QED BY <1>3
<1> QED BY <1>4
=============================================================================
