----------------------------- MODULE MachOProofs ------------------------------
(***************************************************************************)
(* Proofs about what is done with Mach-O files, for every file.            *)
(*                                                                         *)
(* MachOTools: the dump lists what the file holds, in order, and names the *)
(* right library of an undefined symbol; the calls reported are those of   *)
(* the symbol's stub, each with the start of its function and the constant *)
(* it passes.                                                              *)
(*                                                                         *)
(* XNUBoot, for every kernelcache, device tree and place in memory: giving *)
(* up does no harm but behind the payload, the stub's loop ends whenever   *)
(* it moves a whole number of pairs of registers, and when the kernel is   *)
(* entered the stub has moved the whole image, as it was put together, and *)
(* the memory map says where everything is.                                *)
(***************************************************************************)
EXTENDS MachOTools, XNUBoot, BasicLemmas, SequenceTheorems

-----------------------------------------------------------------------------
(* LEB128 numbers *)

\* The value of a number is a number.
LEMMA UlebType == ASSUME NEW w \in Seq(Nat) PROVE Uleb128(w) \in Nat
<1> DEFINE n == Len(w)
           Digit(i) == w[i] % Base
           step == [x \in Nat \X (1 .. n) |-> Digit(n + 1 - x[2]) + Base * x[1]]
           Chosen(g) == g = [i \in 1 .. Len(w) + 1 |->
                               IF i > Len(w) THEN 0 ELSE (w[i] % Base) + Base * g[i + 1]]
<1>1. n \in Nat /\ \A i \in 1 .. n : Digit(i) \in Nat
    <2>1. n \in Nat /\ \A i \in 1 .. n : w[i] \in Nat
        OBVIOUS
    <2>2. ASSUME NEW i \in 1 .. n PROVE Digit(i) \in Nat
        <3>1. w[i] \in Nat /\ Base \in Nat \ {0}
            BY <2>1, BaseAssumption
        <3>2. w[i] % Base \in 0 .. Base - 1
            BY <3>1, DivMod
        <3> QED BY <3>1, <3>2
    <2> HIDE DEF Digit
    <2> QED BY <2>1, <2>2
<1> HIDE DEF n, Digit
<1>2. step \in [Nat \X (1 .. n) -> Nat]
    <2>1. ASSUME NEW x \in Nat \X (1 .. n) PROVE Digit(n + 1 - x[2]) + Base * x[1] \in Nat
        <3>0. x[1] \in Nat /\ x[2] \in 1 .. n
            OBVIOUS
        <3>1. n + 1 - x[2] \in 1 .. n /\ x[1] \in Nat /\ Base \in Nat
            BY <3>0, <1>1, BaseAssumption
        <3>2. Digit(n + 1 - x[2]) \in Nat /\ Base * x[1] \in Nat
            BY <3>1, <1>1
        <3> QED BY <3>2
    <2> QED BY <2>1
<1>3. PICK f \in [0 .. n -> Nat] : IsRecursion(f, 0, n, step)
    <2>1. 0 \in Nat
        OBVIOUS
    <2> HIDE DEF step
    <2> QED BY <2>1, <1>1, <1>2, RecursionExists
<1>4. f[0] = 0 /\ \A i \in 1 .. n : f[i] = step[<<f[i - 1], i>>]
    BY <1>3 DEF IsRecursion
<1> DEFINE h == [i \in 1 .. n + 1 |-> f[n + 1 - i]]
<1>5. ASSUME NEW i \in 1 .. n + 1
      PROVE  h[i] = IF i > n THEN 0 ELSE Digit(i) + Base * h[i + 1]
    <2>1. CASE i > n
        <3>1. n + 1 - i = 0 /\ h[i] = f[n + 1 - i]
            BY <2>1, <1>1
        <3> QED BY <3>1, <2>1, <1>4
    <2>2. CASE ~(i > n)
        <3>1. /\ n + 1 - i \in 1 .. n /\ i + 1 \in 1 .. n + 1
              /\ n + 1 - (n + 1 - i) = i /\ (n + 1 - i) - 1 = n + 1 - (i + 1)
            BY <2>2, <1>1
        <3>2. h[i] = f[n + 1 - i] /\ h[i + 1] = f[(n + 1 - i) - 1]
            BY <3>1
        <3>3. f[(n + 1 - i) - 1] \in Nat
            BY <3>1, <1>1
        <3>4. f[n + 1 - i] = step[<<f[(n + 1 - i) - 1], n + 1 - i>>]
            BY <3>1, <1>4
        <3>5. step[<<f[(n + 1 - i) - 1], n + 1 - i>>] = Digit(n + 1 - (n + 1 - i)) + Base * f[(n + 1 - i) - 1]
            BY <3>1, <3>3
        <3> HIDE DEF h, step
        <3> QED BY <2>2, <3>1, <3>2, <3>4, <3>5
    <2> QED BY <2>1, <2>2
<1>6. Chosen(h)
    <2> HIDE DEF h
    <2>1. h = [i \in 1 .. n + 1 |-> h[i]]
        BY DEF h
    <2> QED BY <2>1, <1>5 DEF n, Digit
<1>7. Chosen(CHOOSE g : Chosen(g))
    <2> HIDE DEF Chosen
    <2> QED BY <1>6
<1> DEFINE c == CHOOSE g : Chosen(g)
<1>8. Uleb128(w) = c[1]
    BY DEF Uleb128
<1>9. Chosen(c)
    BY <1>7
<1> HIDE DEF c
<1>10. \A i \in 1 .. n + 1 : c[i] = IF i > n THEN 0 ELSE Digit(i) + Base * c[i + 1]
    BY <1>9 DEF n, Digit
<1>11. \A k \in 0 .. n : c[n + 1 - k] \in Nat
    <2> DEFINE P == {k \in Nat : k <= n => c[n + 1 - k] \in Nat}
    <2>1. 0 \in P
        <3>1. n + 1 - 0 \in 1 .. n + 1 /\ n + 1 - 0 > n
            BY <1>1
        <3>2. c[n + 1 - 0] = 0
            BY <3>1, <1>10
        <3> QED BY <3>2
    <2>2. ASSUME NEW k \in Nat, k \in P PROVE k + 1 \in P
        <3> SUFFICES ASSUME k + 1 <= n PROVE c[n + 1 - (k + 1)] \in Nat
            OBVIOUS
        <3>1. /\ n + 1 - (k + 1) \in 1 .. n /\ n + 1 - (k + 1) \in 1 .. n + 1
              /\ ~(n + 1 - (k + 1) > n) /\ (n + 1 - (k + 1)) + 1 = n + 1 - k
            BY <1>1
        <3>2. c[n + 1 - k] \in Nat
            BY <2>2, <1>1
        <3>3. c[n + 1 - (k + 1)] = Digit(n + 1 - (k + 1)) + Base * c[n + 1 - k]
            BY <3>1, <1>10
        <3>4. Digit(n + 1 - (k + 1)) \in Nat
            BY <3>1, <1>1
        <3>5. Base * c[n + 1 - k] \in Nat
            BY <3>2, BaseAssumption
        <3> QED BY <3>3, <3>4, <3>5
    <2>3. Nat \subseteq P
        <3> HIDE DEF P
        <3> QED BY <2>1, <2>2, Induction
    <2> QED BY <2>3
<1>12. n \in 0 .. n /\ n + 1 - n = 1
    BY <1>1
<1> QED BY <1>8, <1>11, <1>12

\* The last number that ends before a byte, and the number that ends at it.
LEMMA LastEndBefore ==
    ASSUME NEW buf \in Seq(Nat), NEW i \in 1 .. Len(buf)
    PROVE  /\ Max(EndsBefore(buf, i)) \in EndsBefore(buf, i)
           /\ \A e \in EndsBefore(buf, i) : Max(EndsBefore(buf, i)) >= e
           /\ Max(EndsBefore(buf, i)) \in 0 .. i - 1
           /\ NumberEndingAt(buf, i) \in Seq(Nat)
<1> DEFINE T == EndsBefore(buf, i)
<1>1. T \subseteq 0 .. i - 1 /\ T # {} /\ i - 1 \in Nat
    BY DEF EndsBefore
<1>2. \E x \in T : \A y \in T : x >= y
    <2> HIDE DEF T
    <2> QED BY <1>1, GreatestNumber
<1>3. Max(T) \in T /\ \A y \in T : Max(T) >= y
    <2> HIDE DEF T
    <2> QED BY <1>2 DEF Max
<1>4. Max(T) \in 0 .. i - 1
    <2> HIDE DEF T
    <2> QED BY <1>1, <1>3
<1>5. NumberEndingAt(buf, i) \in Seq(Nat)
    <2>1. Max(T) + 1 \in 1 .. Len(buf) /\ i \in 1 .. Len(buf)
        BY <1>4
    <2> HIDE DEF T
    <2>2. \A j \in Max(T) + 1 .. i : buf[j] \in Nat
        BY <2>1
    <2>3. SubSeq(buf, Max(T) + 1, i) \in Seq(Nat)
        BY <2>1, <2>2, SubSeqProperties
    <2> QED BY <2>3 DEF NumberEndingAt, T
<1> QED BY <1>3, <1>4, <1>5

\* What a byte adds to the sum: the number that ends at it.
Adds(buf, i) == IF More(buf[i]) THEN 0 ELSE Uleb128(NumberEndingAt(buf, i))

LEMMA AddsType ==
    ASSUME NEW buf \in Seq(Nat), NEW i \in 1 .. Len(buf) PROVE Adds(buf, i) \in Nat
<1>1. Uleb128(NumberEndingAt(buf, i)) \in Nat
    BY LastEndBefore, UlebType
<1> QED BY <1>1 DEF Adds

\* The sums of a list of numbers are numbers and begin with the first offset.
LEMMA SumsAre ==
    ASSUME NEW buf \in Seq(Nat), NEW init \in Nat
    PROVE  /\ Sums(buf, init) \in [0 .. Len(buf) -> Nat]
           /\ Sums(buf, init)[0] = init
           /\ \A i \in 1 .. Len(buf) :
                 Sums(buf, init)[i] = Sums(buf, init)[i - 1] + Adds(buf, i)
<1> DEFINE n == Len(buf)
           step == [x \in Nat \X (1 .. n) |-> x[1] + Adds(buf, x[2])]
           Chosen(g) == g = [i \in 0 .. n |-> IF i = 0 THEN init ELSE g[i - 1] + Adds(buf, i)]
<1>1. n \in Nat /\ \A i \in 1 .. n : Adds(buf, i) \in Nat
    BY AddsType
<1> HIDE DEF n
<1>2. step \in [Nat \X (1 .. n) -> Nat]
    <2>1. ASSUME NEW x \in Nat \X (1 .. n) PROVE x[1] + Adds(buf, x[2]) \in Nat
        <3>1. x[1] \in Nat /\ x[2] \in 1 .. n
            OBVIOUS
        <3>2. Adds(buf, x[2]) \in Nat
            BY <3>1, <1>1
        <3> QED BY <3>1, <3>2
    <2> QED BY <2>1
<1>3. PICK f \in [0 .. n -> Nat] : IsRecursion(f, init, n, step)
    <2> HIDE DEF step
    <2> QED BY <1>1, <1>2, RecursionExists
<1>4. f[0] = init /\ \A i \in 1 .. n : f[i] = f[i - 1] + Adds(buf, i)
    <2>1. f[0] = init /\ \A i \in 1 .. n : f[i] = step[<<f[i - 1], i>>]
        BY <1>3 DEF IsRecursion
    <2>2. ASSUME NEW i \in 1 .. n PROVE f[i] = f[i - 1] + Adds(buf, i)
        <3>1. f[i - 1] \in Nat
            BY <1>1
        <3>2. step[<<f[i - 1], i>>] = f[i - 1] + Adds(buf, i)
            BY <3>1
        <3> HIDE DEF step
        <3> QED BY <2>1, <3>2
    <2> QED BY <2>1, <2>2
<1>5. Chosen(f)
    BY <1>1, <1>4
<1>6. Chosen(CHOOSE g : Chosen(g))
    <2> HIDE DEF Chosen
    <2> QED BY <1>5
<1> DEFINE c == CHOOSE g : Chosen(g)
<1>7. Sums(buf, init) = c
    BY DEF Sums, Adds, n
<1>8. Chosen(c)
    BY <1>6
<1> HIDE DEF c
<1>9. /\ DOMAIN c = 0 .. n /\ c = [i \in 0 .. n |-> c[i]] /\ c[0] = init
      /\ \A i \in 1 .. n : c[i] = c[i - 1] + Adds(buf, i)
    <2>1. c = [i \in 0 .. n |-> IF i = 0 THEN init ELSE c[i - 1] + Adds(buf, i)]
        BY <1>8
    <2> HIDE DEF Chosen
    <2>2. DOMAIN c = 0 .. n
        BY ONLY <2>1
    <2>3. ASSUME NEW i \in 0 .. n PROVE c[i] = IF i = 0 THEN init ELSE c[i - 1] + Adds(buf, i)
        BY ONLY <2>1
    <2>4. c[0] = init
        BY <2>3, <1>1
    <2>5. ASSUME NEW i \in 1 .. n PROVE c[i] = c[i - 1] + Adds(buf, i)
        BY <2>3, <1>1
    <2>6. c = [i \in 0 .. n |-> c[i]]
        BY ONLY <2>1, <2>2
    <2> QED BY <2>2, <2>4, <2>5, <2>6
<1>10. \A i \in 0 .. n : c[i] \in Nat
    <2> DEFINE P == {i \in Nat : i <= n => c[i] \in Nat}
    <2>1. 0 \in P
        BY <1>9
    <2>2. ASSUME NEW i \in Nat, i \in P PROVE i + 1 \in P
        <3> SUFFICES ASSUME i + 1 <= n PROVE c[i + 1] \in Nat
            OBVIOUS
        <3>1. i + 1 \in 1 .. n /\ (i + 1) - 1 = i /\ c[i] \in Nat
            BY <2>2, <1>1
        <3>2. c[i + 1] = c[i] + Adds(buf, i + 1) /\ Adds(buf, i + 1) \in Nat
            BY <3>1, <1>9, <1>1
        <3> QED BY <3>1, <3>2
    <2>3. Nat \subseteq P
        <3> HIDE DEF P
        <3> QED BY <2>1, <2>2, Induction
    <2> QED BY <2>3
<1>11. c \in [0 .. n -> Nat]
    BY <1>9, <1>10
<1> QED BY <1>7, <1>9, <1>11 DEF n

\* Sums do not decrease.
LEMMA SumsGrow ==
    ASSUME NEW buf \in Seq(Nat), NEW init \in Nat,
           NEW i \in 0 .. Len(buf), NEW j \in 0 .. Len(buf), i <= j
    PROVE  Sums(buf, init)[i] <= Sums(buf, init)[j]
<1> DEFINE s == Sums(buf, init)
           n == Len(buf)
           P == {k \in Nat : i + k <= n => s[i] <= s[i + k]}
<1>1. /\ n \in Nat /\ s \in [0 .. n -> Nat]
      /\ \A k \in 1 .. n : Adds(buf, k) \in Nat /\ s[k] = s[k - 1] + Adds(buf, k)
    <2>1. n \in Nat
        OBVIOUS
    <2>2. s \in [0 .. n -> Nat] /\ \A k \in 1 .. n : s[k] = s[k - 1] + Adds(buf, k)
        BY SumsAre
    <2>3. \A k \in 1 .. n : Adds(buf, k) \in Nat
        BY AddsType
    <2> HIDE DEF s, n
    <2> QED BY <2>1, <2>2, <2>3
<1>2. i \in 0 .. n /\ j \in 0 .. n
    OBVIOUS
<1> HIDE DEF s, n
<1>3. 0 \in P
    <2>1. s[i] \in Nat /\ i + 0 = i
        BY <1>1, <1>2
    <2> QED BY <2>1
<1>4. ASSUME NEW k \in Nat, k \in P PROVE k + 1 \in P
    <2> SUFFICES ASSUME i + (k + 1) <= n PROVE s[i] <= s[i + (k + 1)]
        OBVIOUS
    <2>1. i + (k + 1) \in 1 .. n /\ (i + (k + 1)) - 1 = i + k /\ i + k \in 0 .. n
        BY <1>1, <1>2
    <2>2. s[i + (k + 1)] = s[i + k] + Adds(buf, i + (k + 1)) /\ Adds(buf, i + (k + 1)) \in Nat
        BY <2>1, <1>1
    <2>3. s[i] <= s[i + k] /\ s[i] \in Nat /\ s[i + k] \in Nat
        BY <2>1, <1>1, <1>2, <1>4
    <2> QED BY <2>2, <2>3
<1>5. Nat \subseteq P
    <2> HIDE DEF P
    <2> QED BY <1>3, <1>4, Induction
<1>6. j - i \in Nat /\ i + (j - i) = j
    BY <1>1, <1>2
<1>7. j - i \in P
    <2> HIDE DEF P
    <2> QED BY <1>5, <1>6
<1>8. s[i] <= s[j]
    BY <1>2, <1>6, <1>7
<1> QED BY <1>8 DEF s

-----------------------------------------------------------------------------
(* Reading numbers forwards and backwards *)

\* The least of some numbers.
LEMMA LeastOf ==
    ASSUME NEW T, T \subseteq Nat, T # {}
    PROVE  Min(T) \in T /\ \A y \in T : Min(T) <= y
<1>1. \E x \in T : \A y \in T : x <= y
    BY LeastNumber
<1> QED BY <1>1 DEF Min

\* The end of the first number of some bytes, or 0.
FirstEnd(bytes) == SelectInSeq(bytes, LAMBDA b : ~More(b))

LEMMA FirstEndIs ==
    ASSUME NEW bytes \in Seq(Nat)
    PROVE  /\ FirstEnd(bytes) \in 0 .. Len(bytes)
           /\ \A i \in 1 .. Len(bytes) : ~More(bytes[i]) =>
                 /\ FirstEnd(bytes) \in 1 .. i
                 /\ ~More(bytes[FirstEnd(bytes)])
           /\ \A i \in 1 .. FirstEnd(bytes) - 1 : More(bytes[i])
<1> DEFINE T == {i \in 1 .. Len(bytes) : ~More(bytes[i])}
           f == FirstEnd(bytes)
<1>1. f = IF T # {} THEN Min(T) ELSE 0
    BY DEF FirstEnd, SelectInSeq
<1>2. T \subseteq Nat /\ Len(bytes) \in Nat
    OBVIOUS
<1>3. \A i \in 1 .. Len(bytes) : i \in T <=> ~More(bytes[i])
    OBVIOUS
<1>4. T \subseteq 1 .. Len(bytes)
    OBVIOUS
<1> HIDE DEF T, f
<1>5. CASE T = {}
    <2>1. f = 0 /\ \A i \in 1 .. Len(bytes) : More(bytes[i])
        BY <1>1, <1>3, <1>5
    <2> QED BY <2>1, <1>2 DEF f
<1>6. CASE T # {}
    <2>1. f \in T /\ \A i \in T : f <= i
        BY <1>1, <1>2, <1>6, LeastOf
    <2>2. f \in 1 .. Len(bytes) /\ ~More(bytes[f])
        BY <2>1, <1>3, <1>4
    <2>3. ASSUME NEW i \in 1 .. f - 1 PROVE More(bytes[i])
        BY <2>1, <2>2, <1>3
    <2>4. ASSUME NEW i \in 1 .. Len(bytes), ~More(bytes[i]) PROVE f \in 1 .. i
        BY <2>1, <2>2, <2>4, <1>3
    <2> QED BY <2>2, <2>3, <2>4 DEF f
<1> QED BY <1>5, <1>6

\* A part of some bytes is bytes.
LEMMA PartOf ==
    ASSUME NEW buf \in Seq(Nat), NEW a \in Nat, NEW b \in 0 .. Len(buf)
    PROVE  /\ SubSeq(buf, a + 1, b) \in Seq(Nat)
           /\ Len(SubSeq(buf, a + 1, b)) = IF a <= b THEN b - a ELSE 0
           /\ \A i \in 1 .. b - a : SubSeq(buf, a + 1, b)[i] = buf[a + i]
<1>1. \A i \in a + 1 .. b : buf[i] \in Nat
    OBVIOUS
<1>2. a + 1 \in Int /\ b \in Int
    OBVIOUS
<1>3. /\ SubSeq(buf, a + 1, b) \in Seq(Nat)
      /\ Len(SubSeq(buf, a + 1, b)) = IF a + 1 <= b THEN b - (a + 1) + 1 ELSE 0
      /\ \A i \in 1 .. b - (a + 1) + 1 : SubSeq(buf, a + 1, b)[i] = buf[(a + 1) + i - 1]
    BY <1>1, <1>2, SubSeqProperties
<1>4. ASSUME NEW i \in 1 .. b - a PROVE SubSeq(buf, a + 1, b)[i] = buf[a + i]
    <2>1. i \in 1 .. b - (a + 1) + 1 /\ (a + 1) + i - 1 = a + i
        OBVIOUS
    <2> QED BY <2>1, <1>3
<1> QED BY <1>3, <1>4

\* A part of a part is a part.
LEMMA PartOfPart ==
    ASSUME NEW buf \in Seq(Nat), NEW a \in Nat, NEW b \in 0 .. Len(buf), NEW n \in Nat, a + n <= b
    PROVE  SubSeq(SubSeq(buf, a + 1, b), 1, n) = SubSeq(buf, a + 1, a + n)
<1> DEFINE w == SubSeq(buf, a + 1, b)
           u == SubSeq(w, 1, n)
           v == SubSeq(buf, a + 1, a + n)
<1>1. w \in Seq(Nat) /\ Len(w) = b - a /\ \A i \in 1 .. b - a : w[i] = buf[a + i]
    BY PartOf
<1>2. v \in Seq(Nat) /\ Len(v) = n /\ \A i \in 1 .. n : v[i] = buf[a + i]
    <2>1. a + n \in 0 .. Len(buf) /\ (a + n) - a = n /\ a <= a + n
        OBVIOUS
    <2> QED BY <2>1, PartOf
<1> HIDE DEF w, v
<1>3. u \in Seq(Nat) /\ Len(u) = n /\ \A i \in 1 .. n : u[i] = w[i]
    <2>1. n \in 0 .. Len(w) /\ 0 + 1 = 1 /\ n - 0 = n /\ 0 <= n /\ 0 \in Nat
        BY <1>1
    <2>2. SubSeq(w, 0 + 1, n) \in Seq(Nat) /\ Len(SubSeq(w, 0 + 1, n)) = n
        BY <2>1, <1>1, PartOf
    <2>3. \A i \in 1 .. n - 0 : SubSeq(w, 0 + 1, n)[i] = w[0 + i]
        BY <2>1, <1>1, PartOf
    <2> QED BY <2>1, <2>2, <2>3
<1> HIDE DEF u
<1>4. ASSUME NEW i \in 1 .. n PROVE u[i] = v[i]
    <2>1. i \in 1 .. b - a
        OBVIOUS
    <2> QED BY <2>1, <1>1, <1>2, <1>3
<1>5. u = v
    BY <1>2, <1>3, <1>4, SeqEqual
<1> QED BY <1>5 DEF u, v, w

\* What the forward decoder reads: a number of the data, unless none is left.
LEMMA DecodeIs ==
    ASSUME NEW buf \in Seq(Nat), NEW a \in Nat
    PROVE  LET read == DecodeUleb128(SubSeq(buf, a + 1, Len(buf)))
           IN /\ read.nbytes \in Nat /\ read.val \in Nat
              /\ \A e \in 1 .. Len(buf) : a < e /\ ~More(buf[e]) =>
                    /\ read.nbytes > 0 /\ a + read.nbytes <= e
                    /\ ~More(buf[a + read.nbytes])
                    /\ read.val = Uleb128(SubSeq(buf, a + 1, a + read.nbytes))
              /\ \A i \in a + 1 .. a + read.nbytes - 1 : More(buf[i])
<1> DEFINE bytes == SubSeq(buf, a + 1, Len(buf))
           n == FirstEnd(bytes)
<1>0. Len(buf) \in Nat /\ Len(buf) \in 0 .. Len(buf)
    OBVIOUS
<1>1. /\ bytes \in Seq(Nat) /\ Len(bytes) = IF a <= Len(buf) THEN Len(buf) - a ELSE 0
      /\ \A i \in 1 .. Len(buf) - a : bytes[i] = buf[a + i]
    BY <1>0, PartOf
<1>2. /\ n \in 0 .. Len(bytes)
      /\ \A i \in 1 .. Len(bytes) : ~More(bytes[i]) => n \in 1 .. i /\ ~More(bytes[n])
      /\ \A i \in 1 .. n - 1 : More(bytes[i])
    <2> HIDE DEF bytes
    <2> QED BY <1>1, FirstEndIs
<1>3. DecodeUleb128(bytes) = [nbytes |-> n, val |-> Uleb128(SubSeq(bytes, 1, n))]
    BY DEF DecodeUleb128, FirstEnd
<1>4. SubSeq(bytes, 1, n) \in Seq(Nat)
    <2> HIDE DEF n, bytes
    <2>1. n \in 0 .. Len(bytes) /\ 0 + 1 = 1
        BY <1>2
    <2>2. SubSeq(bytes, 0 + 1, n) \in Seq(Nat)
        BY <2>1, <1>1, PartOf
    <2> QED BY <2>1, <2>2
<1>5. Uleb128(SubSeq(bytes, 1, n)) \in Nat
    BY <1>4, UlebType
<1>6. ASSUME NEW e \in 1 .. Len(buf), a < e, ~More(buf[e])
      PROVE  /\ n > 0 /\ a + n <= e
             /\ ~More(buf[a + n])
             /\ Uleb128(SubSeq(bytes, 1, n)) = Uleb128(SubSeq(buf, a + 1, a + n))
    <2> HIDE DEF n
    <2>1. e - a \in 1 .. Len(bytes) /\ e - a \in 1 .. Len(buf) - a /\ a + (e - a) = e
        BY <1>1, <1>6
    <2>2. ~More(bytes[e - a])
        BY <2>1, <1>1, <1>6
    <2>3. n \in 1 .. e - a /\ ~More(bytes[n])
        BY <2>1, <2>2, <1>2
    <2>4. n > 0 /\ a + n <= e /\ n \in 1 .. Len(buf) - a /\ a + n <= Len(buf) /\ n \in Nat
        BY <2>1, <2>3
    <2>5. ~More(buf[a + n])
        BY <2>3, <2>4, <1>1
    <2>6. SubSeq(bytes, 1, n) = SubSeq(buf, a + 1, a + n)
        BY <2>4, <1>0, PartOfPart
    <2> QED BY <2>4, <2>5, <2>6
<1>7. ASSUME NEW i \in a + 1 .. a + n - 1 PROVE More(buf[i])
    <2> HIDE DEF n
    <2>1. n \in Nat /\ i - a \in 1 .. n - 1 /\ n <= Len(bytes)
        BY <1>1, <1>2
    <2>2. i - a \in 1 .. Len(buf) - a /\ a + (i - a) = i
        BY <2>1, <1>1
    <2> QED BY <2>1, <2>2, <1>1, <1>2
<1>8. n \in Nat
    <2> HIDE DEF n
    <2> QED BY <1>1, <1>2
<1> HIDE DEF n
<1>9. /\ DecodeUleb128(bytes).nbytes = n
      /\ DecodeUleb128(bytes).val = Uleb128(SubSeq(bytes, 1, n))
    BY <1>3
<1> HIDE DEF bytes
<1>10. LET read == DecodeUleb128(bytes)
       IN /\ read.nbytes \in Nat /\ read.val \in Nat
          /\ \A e \in 1 .. Len(buf) : a < e /\ ~More(buf[e]) =>
                /\ read.nbytes > 0 /\ a + read.nbytes <= e
                /\ ~More(buf[a + read.nbytes])
                /\ read.val = Uleb128(SubSeq(buf, a + 1, a + read.nbytes))
          /\ \A i \in a + 1 .. a + read.nbytes - 1 : More(buf[i])
    BY <1>5, <1>6, <1>7, <1>8, <1>9
<1> QED BY <1>10 DEF bytes

\* A list of numbers, and where they begin.
IsNumberList(buf) == buf \in Seq(Nat) /\ buf # <<>> /\ ~More(buf[Len(buf)])
Begins(buf) == {a \in 0 .. Len(buf) - 1 : a = 0 \/ ~More(buf[a])}

\* Within a number the sums stay, and its end adds it.
LEMMA NumberAt ==
    ASSUME NEW buf, IsNumberList(buf), NEW init \in Nat, NEW a \in Begins(buf)
    PROVE  LET leb == ReadAt(buf, a)
               next == a + leb.nbytes
               s == Sums(buf, init)
           IN /\ leb \in [idx : Nat, nbytes : Nat, val : Nat] /\ leb.idx = a
              /\ leb.nbytes \in Nat \ {0} /\ leb.val \in Nat
              /\ next \in 1 .. Len(buf) /\ ~More(buf[next])
              /\ s[next - 1] = s[a] /\ s[next] = s[a] + leb.val
              /\ Max(EndsBefore(buf, next)) = a
<1> DEFINE leb == ReadAt(buf, a)
           k == leb.nbytes
           s == Sums(buf, init)
           n == Len(buf)
<1>1. /\ buf \in Seq(Nat) /\ n \in Nat \ {0} /\ ~More(buf[n])
      /\ a \in 0 .. n - 1 /\ (a = 0 \/ ~More(buf[a]))
    BY DEF IsNumberList, Begins
<1>2. /\ leb = [idx |-> a, nbytes |-> DecodeUleb128(SubSeq(buf, a + 1, Len(buf))).nbytes,
                val |-> DecodeUleb128(SubSeq(buf, a + 1, Len(buf))).val]
      /\ k = DecodeUleb128(SubSeq(buf, a + 1, Len(buf))).nbytes
      /\ leb.val = DecodeUleb128(SubSeq(buf, a + 1, Len(buf))).val
    BY DEF ReadAt, At
<1>3. /\ k \in Nat /\ leb.val \in Nat
      /\ k > 0 /\ a + k <= n /\ ~More(buf[a + k])
      /\ leb.val = Uleb128(SubSeq(buf, a + 1, a + k))
      /\ \A i \in a + 1 .. a + k - 1 : More(buf[i])
    <2>1. a \in Nat /\ n \in 1 .. Len(buf) /\ a < n
        BY <1>1
    <2> HIDE DEF leb, k
    <2> QED BY <1>1, <1>2, <2>1, DecodeIs
<1> HIDE DEF leb, k, n
<1>4. a + k \in 1 .. n
    BY <1>1, <1>3
<1>5. Max(EndsBefore(buf, a + k)) = a
    <2> DEFINE p == Max(EndsBefore(buf, a + k))
    <2>0. a + k \in 1 .. Len(buf)
        BY <1>4 DEF n
    <2>1. /\ p \in EndsBefore(buf, a + k) /\ p \in 0 .. (a + k) - 1
          /\ \A e \in EndsBefore(buf, a + k) : p >= e
        BY ONLY <1>1, <2>0, LastEndBefore
    <2>2. a \in EndsBefore(buf, a + k)
        BY <1>1, <1>3 DEF EndsBefore
    <2>3. p = 0 \/ ~More(buf[p])
        BY <2>1 DEF EndsBefore
    <2> HIDE DEF p
    <2>4. p >= a /\ p \in Int
        BY <2>1, <2>2, <1>1, <1>3
    <2>5. ASSUME p > a PROVE FALSE
        <3>1. p \in a + 1 .. a + k - 1 /\ p # 0
            BY <2>1, <2>5, <1>1, <1>3
        <3> QED BY <3>1, <2>3, <1>3
    <2>6. p = a
        BY <2>4, <2>5, <1>1
    <2> QED BY <2>6 DEF p
<1>6. Adds(buf, a + k) = leb.val
    BY <1>3, <1>5 DEF Adds, NumberEndingAt
<1>7. /\ s \in [0 .. n -> Nat]
      /\ \A i \in 1 .. n : s[i] = s[i - 1] + Adds(buf, i)
    BY <1>1, SumsAre DEF n
<1> HIDE DEF s
<1>8. s[a + k - 1] = s[a]
    <2> DEFINE P == {j \in Nat : j < k => s[a + j] = s[a]}
    <2>1. 0 \in P
        BY <1>1
    <2>2. ASSUME NEW j \in Nat, j \in P PROVE j + 1 \in P
        <3> SUFFICES ASSUME j + 1 < k PROVE s[a + (j + 1)] = s[a]
            OBVIOUS
        <3>1. /\ a + (j + 1) \in a + 1 .. a + k - 1 /\ a + (j + 1) \in 1 .. n
              /\ (a + (j + 1)) - 1 = a + j /\ a + j \in 0 .. n
            BY <1>1, <1>3
        <3>2. Adds(buf, a + (j + 1)) = 0
            BY <3>1, <1>3 DEF Adds
        <3>3. s[a + j] = s[a] /\ s[a + j] \in Nat
            BY <3>1, <2>2, <1>3, <1>7
        <3> QED BY <3>1, <3>2, <3>3, <1>7
    <2>3. Nat \subseteq P
        <3> HIDE DEF P
        <3> QED BY <2>1, <2>2, Induction
    <2>4. k - 1 \in Nat /\ k - 1 < k /\ a + (k - 1) = a + k - 1
        BY <1>1, <1>3
    <2>5. k - 1 \in P
        <3> HIDE DEF P
        <3> QED BY <2>3, <2>4
    <2> QED BY <2>4, <2>5
<1>9. s[a + k] = s[a] + leb.val
    <2>1. s[a + k] = s[a + k - 1] + Adds(buf, a + k)
        <3>1. a + k - 1 = (a + k) - 1
            BY <1>1, <1>3
        <3> QED BY <3>1, <1>4, <1>7
    <2> QED BY ONLY <2>1, <1>6, <1>8
<1>10. /\ leb \in [idx : Nat, nbytes : Nat, val : Nat] /\ leb.idx = a
       /\ leb.nbytes \in Nat \ {0} /\ leb.val \in Nat
       /\ a + leb.nbytes \in 1 .. Len(buf) /\ ~More(buf[a + leb.nbytes])
       /\ s[a + leb.nbytes - 1] = s[a] /\ s[a + leb.nbytes] = s[a] + leb.val
       /\ Max(EndsBefore(buf, a + leb.nbytes)) = a
    <2>1. k = leb.nbytes /\ n = Len(buf)
        BY DEF k, n
    <2>2. leb \in [idx : Nat, nbytes : Nat, val : Nat] /\ leb.idx = a
        BY <1>1, <1>2, <1>3
    <2>3. leb.nbytes \in Nat \ {0} /\ leb.val \in Nat
        BY ONLY <1>3, <2>1
    <2>4. a + leb.nbytes \in 1 .. Len(buf) /\ ~More(buf[a + leb.nbytes])
        BY ONLY <1>3, <1>4, <2>1
    <2>5. s[a + leb.nbytes - 1] = s[a] /\ s[a + leb.nbytes] = s[a] + leb.val
        BY ONLY <1>8, <1>9, <2>1
    <2>6. Max(EndsBefore(buf, a + leb.nbytes)) = a
        BY ONLY <1>5, <2>1
    <2> QED BY ONLY <2>2, <2>3, <2>4, <2>5, <2>6
<1> QED BY <1>10 DEF leb, s

\* Backwards, the number that ends at a byte is read: what the byte adds.
LEMMA NumberBefore ==
    ASSUME NEW buf \in Seq(Nat), NEW e \in 1 .. Len(buf), ~More(buf[e])
    PROVE  DecodeUleb128Backwards(SubSeq(buf, 1, e)).val = Adds(buf, e)
<1> DEFINE prev == SubSeq(buf, 1, e)
           p == Max(EndsBefore(buf, e))
           ends == {i \in 1 .. Len(prev) - 1 : ~More(prev[i])}
           start == IF ends = {} THEN 0 ELSE Max(ends)
<1>1. prev \in Seq(Nat) /\ Len(prev) = e /\ \A i \in 1 .. e : prev[i] = buf[i]
    <2>1. 0 + 1 = 1 /\ e \in 0 .. Len(buf) /\ 0 <= e /\ e - 0 = e /\ 0 \in Nat
        OBVIOUS
    <2>2. /\ SubSeq(buf, 0 + 1, e) \in Seq(Nat) /\ Len(SubSeq(buf, 0 + 1, e)) = e
          /\ \A i \in 1 .. e - 0 : SubSeq(buf, 0 + 1, e)[i] = buf[0 + i]
        BY <2>1, PartOf
    <2>3. \A i \in 1 .. e : buf[0 + i] = buf[i]
        OBVIOUS
    <2> QED BY <2>1, <2>2, <2>3
<1>2. /\ p \in EndsBefore(buf, e) /\ p \in 0 .. e - 1
      /\ \A i \in EndsBefore(buf, e) : p >= i
    BY LastEndBefore
<1>3. EndsBefore(buf, e) = {0} \cup ends
    BY <1>1 DEF EndsBefore
<1>4. ends \subseteq 1 .. e - 1
    BY <1>1
<1> HIDE DEF prev, p
<1>5. start = p
    <2> HIDE DEF ends
    <2>1. CASE ends = {}
        BY <2>1, <1>2, <1>3
    <2>2. CASE ends # {}
        <3>1. PICK i \in ends : TRUE
            BY <2>2
        <3>2. p > 0
            BY <3>1, <1>2, <1>3, <1>4
        <3>3. p \in ends /\ \A j \in ends : p >= j
            <4>1. p \in {0} \cup ends /\ \A j \in {0} \cup ends : p >= j
                BY ONLY <1>2, <1>3
            <4>2. p # 0
                BY ONLY <3>2
            <4> QED BY ONLY <4>1, <4>2
        <3>4. Max(ends) \in ends /\ \A j \in ends : Max(ends) >= j
            BY <3>3 DEF Max
        <3>5. Max(ends) >= p /\ p >= Max(ends)
            BY ONLY <3>3, <3>4
        <3>7. p \in Int /\ Max(ends) \in Int
            <4>1. \A j \in 1 .. e - 1 : j \in Int
                OBVIOUS
            <4> QED BY ONLY <4>1, <3>3, <3>4, <1>4
        <3>6. Max(ends) = p
            BY ONLY <3>5, <3>7
        <3> QED BY <2>2, <3>6
    <2> QED BY <2>1, <2>2
<1>6. DecodeUleb128Backwards(prev) = DecodeUleb128(SubSeq(prev, 1 + start, Len(prev)))
    BY DEF DecodeUleb128Backwards
<1>7. 1 + start = p + 1 /\ p \in Nat
    <2> HIDE DEF start
    <2> QED BY <1>2, <1>5
<1> HIDE DEF start, ends
<1> DEFINE read == DecodeUleb128(SubSeq(prev, p + 1, Len(prev)))
<1>8. /\ read.nbytes \in Nat /\ read.nbytes > 0 /\ p + read.nbytes <= e
      /\ ~More(prev[p + read.nbytes])
      /\ read.val = Uleb128(SubSeq(prev, p + 1, p + read.nbytes))
    <2>1. e \in 1 .. Len(prev) /\ p < e /\ ~More(prev[e])
        BY <1>1, <1>2
    <2> QED BY <2>1, <1>1, <1>7, DecodeIs
<1> HIDE DEF read
<1>9. p + read.nbytes = e
    <2>1. CASE p + read.nbytes < e
        <3>1. p + read.nbytes \in 1 .. e - 1 /\ p + read.nbytes \in 1 .. e
            BY <2>1, <1>7, <1>8, SMTT(60)
        <3>2. ~More(buf[p + read.nbytes])
            BY <3>1, <1>1, <1>8
        <3>3. p + read.nbytes \in EndsBefore(buf, e)
            BY <3>1, <3>2 DEF EndsBefore
        <3>4. p >= p + read.nbytes
            BY <3>3, <1>2
        <3> QED BY <3>4, <1>7, <1>8
    <2> QED BY <2>1, <1>7, <1>8
<1>10. SubSeq(prev, p + 1, e) = SubSeq(buf, p + 1, e)
    <2> DEFINE u == SubSeq(prev, p + 1, e)
               v == SubSeq(buf, p + 1, e)
    <2>1. e \in 0 .. Len(prev) /\ e \in 0 .. Len(buf) /\ p <= e
        BY <1>1, <1>2
    <2>2. u \in Seq(Nat) /\ Len(u) = e - p /\ \A i \in 1 .. e - p : u[i] = prev[p + i]
        BY <2>1, <1>1, <1>7, PartOf
    <2>3. v \in Seq(Nat) /\ Len(v) = e - p /\ \A i \in 1 .. e - p : v[i] = buf[p + i]
        BY <2>1, <1>7, PartOf
    <2>4. \A i \in 1 .. e - p : p + i \in 1 .. e
        BY <1>2
    <2> HIDE DEF u, v
    <2>5. \A i \in 1 .. e - p : u[i] = v[i]
        BY <2>2, <2>3, <2>4, <1>1
    <2>6. u = v
        BY <2>2, <2>3, <2>5, SeqEqual
    <2> QED BY <2>6 DEF u, v
<1>11. read.val = Uleb128(NumberEndingAt(buf, e))
    BY <1>8, <1>9, <1>10 DEF NumberEndingAt, p
<1>12. DecodeUleb128Backwards(prev) = read
    BY <1>6, <1>7 DEF read
<1>13. DecodeUleb128Backwards(prev).val = Adds(buf, e)
    BY <1>11, <1>12 DEF Adds
<1> QED BY <1>13 DEF prev
-----------------------------------------------------------------------------
(* The positions of an iteration *)

\* The iterator on the number that begins at a, and the sentinel behind the
\* last number, which keeps the last value.
Stand(buf, init, a) == [leb |-> ReadAt(buf, a), psum |-> Sums(buf, init)[a]]
Sentinel(buf, init, v) ==
    [leb |-> [idx |-> Len(buf), nbytes |-> 0, val |-> v], psum |-> Sums(buf, init)[Len(buf)]]
Stands(buf, init) == {Stand(buf, init, a) : a \in Begins(buf)}
Sentinels(buf, init) == {Sentinel(buf, init, v) : v \in Nat}

\* One step of the iteration.
StepOf(buf, it) == IF isSentinel(it.leb) THEN it ELSE PsumNext(buf, it)

\* The iterator's steps go from number to number and to the sentinel.
LEMMA StepFrom ==
    ASSUME NEW buf, IsNumberList(buf), NEW init \in Nat, NEW a \in Begins(buf)
    PROVE  LET it == Stand(buf, init, a)
               next == a + it.leb.nbytes
           IN /\ ~isSentinel(it.leb) /\ it.leb.idx = a /\ next \in 1 .. Len(buf) /\ next > a
              /\ next = Len(buf) => StepOf(buf, it) = Sentinel(buf, init, it.leb.val)
              /\ next # Len(buf) => /\ next \in Begins(buf)
                                    /\ StepOf(buf, it) = Stand(buf, init, next)
<1> DEFINE leb == ReadAt(buf, a)
           s == Sums(buf, init)
           it == Stand(buf, init, a)
<1>1. /\ leb \in [idx : Nat, nbytes : Nat, val : Nat] /\ leb.idx = a
      /\ leb.nbytes \in Nat \ {0} /\ leb.val \in Nat
      /\ a + leb.nbytes \in 1 .. Len(buf) /\ ~More(buf[a + leb.nbytes])
      /\ s[a + leb.nbytes] = s[a] + leb.val
    BY NumberAt
<1>2. it.leb = leb /\ it.psum = s[a]
    BY DEF Stand
<1>3. a \in 0 .. Len(buf) - 1 /\ Len(buf) \in Nat
    BY DEF Begins, IsNumberList
<1> HIDE DEF leb, s, it
<1>4. ~isSentinel(it.leb) /\ it.leb.idx = a /\ a + it.leb.nbytes > a
    BY <1>1, <1>2, <1>3 DEF isSentinel
<1>5. StepOf(buf, it) = [leb |-> LebNext(buf, leb), psum |-> s[a] + leb.val]
    BY <1>2, <1>4 DEF StepOf, PsumNext
<1>6. CASE a + leb.nbytes = Len(buf)
    <2>1. LebNext(buf, leb) = [leb EXCEPT !.idx = Len(buf), !.nbytes = 0]
        BY <1>1, <1>6 DEF LebNext
    <2>2. LebNext(buf, leb) = [idx |-> Len(buf), nbytes |-> 0, val |-> leb.val]
        BY ONLY <2>1, <1>1
    <2>3. s[a] + leb.val = s[Len(buf)]
        BY ONLY <1>1, <1>6
    <2>4. StepOf(buf, it) = Sentinel(buf, init, leb.val)
        BY <1>5, <2>2, <2>3 DEF Sentinel, s
    <2> QED BY <1>1, <1>2, <1>4, <1>6, <2>4 DEF it
<1>7. CASE a + leb.nbytes # Len(buf)
    <2>1. LebNext(buf, leb) = ReadAt(buf, a + leb.nbytes)
        BY <1>1, <1>7 DEF LebNext
    <2>2. a + leb.nbytes \in Begins(buf)
        BY <1>1, <1>3, <1>7 DEF Begins
    <2>3. StepOf(buf, it) = Stand(buf, init, a + leb.nbytes)
        BY <1>1, <1>5, <2>1 DEF Stand, s
    <2> QED BY <1>1, <1>2, <1>4, <1>7, <2>2, <2>3 DEF it
<1> QED BY <1>6, <1>7

\* The sentinels are known by their length.
LEMMA SentinelIs ==
    ASSUME NEW buf, NEW init, NEW it \in Sentinels(buf, init) PROVE isSentinel(it.leb)
<1>1. PICK v \in Nat : it = Sentinel(buf, init, v)
    BY DEF Sentinels
<1> QED BY <1>1 DEF Sentinel, isSentinel

\* A step from a position is a position.
LEMMA StepType ==
    ASSUME NEW buf, IsNumberList(buf), NEW init \in Nat,
           NEW it \in Stands(buf, init) \cup Sentinels(buf, init)
    PROVE  StepOf(buf, it) \in Stands(buf, init) \cup Sentinels(buf, init)
<1>1. CASE it \in Sentinels(buf, init)
    <2>1. isSentinel(it.leb)
        BY <1>1, SentinelIs
    <2> QED BY <1>1, <2>1 DEF StepOf
<1>2. CASE it \in Stands(buf, init)
    <2>1. PICK a \in Begins(buf) : it = Stand(buf, init, a)
        BY <1>2 DEF Stands
    <2>2. /\ a + it.leb.nbytes = Len(buf) => StepOf(buf, it) = Sentinel(buf, init, it.leb.val)
          /\ a + it.leb.nbytes # Len(buf) =>
                /\ a + it.leb.nbytes \in Begins(buf)
                /\ StepOf(buf, it) = Stand(buf, init, a + it.leb.nbytes)
        BY <2>1, StepFrom
    <2>3. it.leb.val \in Nat
        <3>1. it.leb = ReadAt(buf, a)
            BY <2>1 DEF Stand
        <3>2. ReadAt(buf, a).val \in Nat
            BY NumberAt
        <3> QED BY <3>1, <3>2
    <2> QED BY <2>2, <2>3 DEF Stands, Sentinels
<1> QED BY <1>1, <1>2
\* The steps of an iteration, as the code makes them.
IsWalk(buf, init, c) ==
    /\ c \in [1 .. Len(buf) + 1 -> Stands(buf, init) \cup Sentinels(buf, init)]
    /\ c[1] = Stand(buf, init, 0)
    /\ \A k \in 1 .. Len(buf) : c[k + 1] = StepOf(buf, c[k])

\* There is one walk, and its positions up to the sentinel are the iteration's.
LEMMA PositionsWalk ==
    ASSUME NEW buf, IsNumberList(buf), NEW init \in Nat
    PROVE  \E c : /\ IsWalk(buf, init, c)
                  /\ Positions(buf, init)
                        = SubSeq(c, 1, SelectInSeq(c, LAMBDA it : isSentinel(it.leb)) - 1)
<1> DEFINE n == Len(buf)
           S == Stands(buf, init) \cup Sentinels(buf, init)
           step == [x \in S \X (1 .. n) |-> StepOf(buf, x[1])]
           base == Stand(buf, init, 0)
           Chosen(g) == g = [k \in 1 .. Len(buf) + 1 |->
                IF k = 1 THEN PsumBegin(buf, init)
                ELSE LET prev == g[k - 1]
                     IN IF isSentinel(prev.leb) THEN prev ELSE PsumNext(buf, prev)]
<1>1. n \in Nat /\ 0 \in Begins(buf)
    BY DEF IsNumberList, Begins
<1>2. base \in S /\ PsumBegin(buf, init) = base
    <2>1. Sums(buf, init)[0] = init
        BY SumsAre DEF IsNumberList
    <2>2. PsumBegin(buf, init) = base
        BY <2>1 DEF PsumBegin, Stand
    <2> QED BY <1>1, <2>2 DEF Stands
<1>3. \A it \in S : StepOf(buf, it) \in S
    BY StepType
<1> HIDE DEF n, S, base
<1>4. step \in [S \X (1 .. n) -> S]
    <2>1. ASSUME NEW x \in S \X (1 .. n) PROVE StepOf(buf, x[1]) \in S
        <3>1. x[1] \in S
            OBVIOUS
        <3> QED BY <3>1, <1>3
    <2> QED BY <2>1
<1>5. PICK f \in [0 .. n -> S] : IsRecursion(f, base, n, step)
    <2> HIDE DEF step
    <2> QED BY <1>1, <1>2, <1>4, RecursionExists
<1>6. f[0] = base /\ \A i \in 1 .. n : f[i] = StepOf(buf, f[i - 1])
    <2>1. f[0] = base /\ \A i \in 1 .. n : f[i] = step[<<f[i - 1], i>>]
        BY <1>5 DEF IsRecursion
    <2>2. ASSUME NEW i \in 1 .. n PROVE f[i] = StepOf(buf, f[i - 1])
        <3>1. f[i - 1] \in S
            BY <1>1
        <3>2. step[<<f[i - 1], i>>] = StepOf(buf, f[i - 1])
            BY <3>1
        <3> HIDE DEF step
        <3> QED BY <2>1, <3>2
    <2> QED BY <2>1, <2>2
<1> DEFINE h == [k \in 1 .. n + 1 |-> f[k - 1]]
<1>7. Chosen(h)
    <2>1. ASSUME NEW k \in 1 .. n + 1
          PROVE  h[k] = IF k = 1 THEN base ELSE StepOf(buf, h[k - 1])
        <3>1. CASE k = 1
            BY <3>1, <1>6, <1>1
        <3>2. CASE k # 1
            <4>1. k - 1 \in 1 .. n /\ k - 1 \in 1 .. n + 1
                BY <3>2, <1>1
            <4>2. h[k] = f[k - 1] /\ h[k - 1] = f[(k - 1) - 1]
                BY <4>1
            <4> HIDE DEF h
            <4> QED BY <3>2, <4>1, <4>2, <1>6
        <3> QED BY <3>1, <3>2
    <2>2. h = [k \in 1 .. n + 1 |-> h[k]]
        OBVIOUS
    <2> HIDE DEF h
    <2> QED BY <2>1, <2>2, <1>2 DEF n, StepOf
<1>8. Chosen(CHOOSE g : Chosen(g))
    <2> HIDE DEF Chosen
    <2> QED BY <1>7
<1> DEFINE c == CHOOSE g : Chosen(g)
<1>9. Positions(buf, init) = SubSeq(c, 1, SelectInSeq(c, LAMBDA it : isSentinel(it.leb)) - 1)
    BY SMTT(60) DEF Positions
<1>10. Chosen(c)
    BY <1>8
<1> HIDE DEF c
<1>11. /\ DOMAIN c = 1 .. n + 1 /\ c[1] = base
       /\ \A k \in 1 .. n : c[k + 1] = StepOf(buf, c[k])
       /\ c = [k \in 1 .. n + 1 |-> c[k]]
    <2>1. c = [k \in 1 .. n + 1 |-> IF k = 1 THEN base ELSE StepOf(buf, c[k - 1])]
        BY <1>10, <1>2 DEF n, StepOf
    <2> HIDE DEF Chosen
    <2>2. DOMAIN c = 1 .. n + 1
        BY ONLY <2>1
    <2>3. ASSUME NEW k \in 1 .. n + 1
          PROVE  c[k] = IF k = 1 THEN base ELSE StepOf(buf, c[k - 1])
        BY ONLY <2>1
    <2>4. c[1] = base
        BY <2>3, <1>1
    <2>5. ASSUME NEW k \in 1 .. n PROVE c[k + 1] = StepOf(buf, c[k])
        <3>1. k + 1 \in 1 .. n + 1 /\ k + 1 # 1 /\ (k + 1) - 1 = k
            BY <1>1
        <3> QED BY <3>1, <2>3
    <2>6. c = [k \in 1 .. n + 1 |-> c[k]]
        BY ONLY <2>1, <2>2
    <2> QED BY <2>2, <2>4, <2>5, <2>6
<1>12. \A k \in 0 .. n : c[k + 1] \in S
    <2> DEFINE P == {k \in Nat : k <= n => c[k + 1] \in S}
    <2>1. 0 \in P
        BY <1>2, <1>11
    <2>2. ASSUME NEW k \in Nat, k \in P PROVE k + 1 \in P
        <3> SUFFICES ASSUME k + 1 <= n PROVE c[(k + 1) + 1] \in S
            OBVIOUS
        <3>1. k + 1 \in 1 .. n /\ c[k + 1] \in S
            BY <2>2, <1>1
        <3> QED BY <3>1, <1>3, <1>11
    <2>3. Nat \subseteq P
        <3> HIDE DEF P
        <3> QED BY <2>1, <2>2, Induction
    <2> QED BY <2>3
<1>13. c \in [1 .. n + 1 -> S]
    <2>1. ASSUME NEW k \in 1 .. n + 1 PROVE c[k] \in S
        <3>1. k - 1 \in 0 .. n /\ (k - 1) + 1 = k
            BY <1>1
        <3> QED BY <3>1, <1>12
    <2> QED BY <2>1, <1>11
<1>14. IsWalk(buf, init, c)
    BY <1>11, <1>13 DEF IsWalk, n, S, base
<1> QED BY <1>9, <1>14

\* The positions are iterators on the numbers, one after the other, from the
\* first to the last.
LEMMA PositionsAre ==
    ASSUME NEW buf, IsNumberList(buf), NEW init \in Nat
    PROVE  LET offs == Positions(buf, init)
               n == Len(offs)
           IN /\ offs \in Seq(Stands(buf, init)) /\ n \in Nat \ {0}
              /\ offs[1] = Stand(buf, init, 0)
              /\ \A j \in 1 .. n - 1 :
                    offs[j + 1].leb.idx = offs[j].leb.idx + offs[j].leb.nbytes
              /\ offs[n].leb.idx + offs[n].leb.nbytes = Len(buf)
<1> DEFINE l == Len(buf)
<1>1. l \in Nat \ {0} /\ 0 \in Begins(buf)
    <2>1. buf \in Seq(Nat) /\ buf # <<>>
        BY DEF IsNumberList
    <2>2. l \in Nat /\ l # 0
        BY <2>1, EmptySeq
    <2> QED BY <2>2 DEF Begins
<1>2. PICK c : /\ IsWalk(buf, init, c)
               /\ Positions(buf, init)
                     = SubSeq(c, 1, SelectInSeq(c, LAMBDA it : isSentinel(it.leb)) - 1)
    BY PositionsWalk
<1>3. /\ c \in [1 .. l + 1 -> Stands(buf, init) \cup Sentinels(buf, init)]
      /\ c[1] = Stand(buf, init, 0)
      /\ \A k \in 1 .. l : c[k + 1] = StepOf(buf, c[k])
    BY <1>2 DEF IsWalk
<1> DEFINE T == {k \in 1 .. l + 1 : isSentinel(c[k].leb)}
<1>4. Positions(buf, init) = SubSeq(c, 1, (IF T # {} THEN Min(T) ELSE 0) - 1)
    <2>1. Len(c) = l + 1
        BY <1>1, <1>3
    <2>2. SelectInSeq(c, LAMBDA it : isSentinel(it.leb)) = IF T # {} THEN Min(T) ELSE 0
        BY <2>1 DEF SelectInSeq
    <2> QED BY <1>2, <2>2
<1> HIDE DEF l
<1>5. \A a \in Begins(buf) : a \in 0 .. l - 1
    BY DEF Begins, l
<1>6. \A k \in 0 .. l : isSentinel(c[k + 1].leb) \/ c[k + 1].leb.idx >= k
    <2> DEFINE P == {k \in Nat : k <= l => isSentinel(c[k + 1].leb) \/ c[k + 1].leb.idx >= k}
    <2>1. 0 \in P
        <3>1. c[0 + 1].leb.idx = 0
            BY <1>1, <1>3, StepFrom
        <3> QED BY <3>1
    <2>2. ASSUME NEW k \in Nat, k \in P PROVE k + 1 \in P
        <3> SUFFICES ASSUME k + 1 <= l
                     PROVE  isSentinel(c[(k + 1) + 1].leb) \/ c[(k + 1) + 1].leb.idx >= k + 1
            OBVIOUS
        <3>1. /\ k + 1 \in 1 .. l /\ c[(k + 1) + 1] = StepOf(buf, c[k + 1])
              /\ c[k + 1] \in Stands(buf, init) \cup Sentinels(buf, init)
              /\ isSentinel(c[k + 1].leb) \/ c[k + 1].leb.idx >= k
            BY <2>2, <1>1, <1>3
        <3>2. CASE isSentinel(c[k + 1].leb)
            BY <3>1, <3>2 DEF StepOf
        <3>3. CASE ~isSentinel(c[k + 1].leb)
            <4>1. c[k + 1] \in Stands(buf, init)
                BY <3>1, <3>3, SentinelIs
            <4>2. PICK a \in Begins(buf) : c[k + 1] = Stand(buf, init, a)
                BY <4>1 DEF Stands
            <4> DEFINE next == a + c[k + 1].leb.nbytes
            <4>3. /\ c[k + 1].leb.idx = a /\ next > a /\ next \in 1 .. Len(buf)
                  /\ next = Len(buf) => StepOf(buf, c[k + 1]) = Sentinel(buf, init, c[k + 1].leb.val)
                  /\ next # Len(buf) => /\ next \in Begins(buf)
                                        /\ StepOf(buf, c[k + 1]) = Stand(buf, init, next)
                BY <4>2, StepFrom
            <4> HIDE DEF next
            <4>4. CASE next = Len(buf)
                BY <4>3, <4>4, <3>1 DEF Sentinel, isSentinel
            <4>5. CASE next # Len(buf)
                <5>1. c[(k + 1) + 1].leb.idx = next
                    BY <4>3, <4>5, <3>1, StepFrom
                <5>2. a >= k /\ a \in Int /\ next \in Int
                    BY <3>1, <3>3, <4>3, <1>5, <4>2, <1>1
                <5> QED BY <5>1, <5>2, <4>3
            <4> QED BY <4>4, <4>5
        <3> QED BY <3>2, <3>3
    <2>3. Nat \subseteq P
        <3> HIDE DEF P
        <3> QED BY <2>1, <2>2, Induction
    <2> QED BY <2>3, <1>1
<1>7. l + 1 \in T
    <2>1. isSentinel(c[l + 1].leb) \/ c[l + 1].leb.idx >= l
        BY <1>6, <1>1
    <2>2. ASSUME ~isSentinel(c[l + 1].leb) PROVE FALSE
        <3>1. c[l + 1] \in Stands(buf, init)
            <4>1. l + 1 \in 1 .. l + 1
                BY <1>1
            <4>2. c[l + 1] \in Stands(buf, init) \cup Sentinels(buf, init)
                BY ONLY <4>1, <1>3
            <4>3. c[l + 1] \notin Sentinels(buf, init)
                BY ONLY <2>2, SentinelIs
            <4> QED BY ONLY <4>2, <4>3
        <3>2. PICK a \in Begins(buf) : c[l + 1] = Stand(buf, init, a)
            BY <3>1 DEF Stands
        <3>3. c[l + 1].leb.idx = a /\ a \in 0 .. l - 1
            <4>1. Stand(buf, init, a).leb.idx = a
                BY StepFrom
            <4> QED BY <4>1, <3>2, <1>5
        <3> QED BY <3>3, <2>1, <2>2, <1>1
    <2> QED BY <2>2, <1>1
<1> DEFINE m == Min(T)
<1>8. m \in 1 .. l + 1 /\ isSentinel(c[m].leb) /\ \A k \in 1 .. m - 1 : ~isSentinel(c[k].leb)
    <2>1. T \subseteq Nat /\ T # {}
        BY <1>1, <1>7
    <2>2. m \in T /\ \A k \in T : m <= k
        <3> HIDE DEF T
        <3> QED BY <2>1, LeastOf
    <2>3. m \in 1 .. l + 1 /\ isSentinel(c[m].leb)
        BY <2>2
    <2> HIDE DEF m
    <2>4. ASSUME NEW k \in 1 .. m - 1, isSentinel(c[k].leb) PROVE FALSE
        <3>1. k \in 1 .. l + 1 /\ k < m
            BY <2>3, <1>1
        <3>2. k \in T
            BY <3>1, <2>4
        <3> QED BY <3>1, <3>2, <2>2, <2>3
    <2> QED BY <2>3, <2>4
<1>9. Positions(buf, init) = SubSeq(c, 1, m - 1)
    BY <1>4, <1>7
<1> HIDE DEF m, T
<1>10. m >= 2
    <2>1. ~isSentinel(c[1].leb)
        BY <1>1, <1>3, StepFrom
    <2> QED BY <2>1, <1>8, <1>1
<1>11. \A k \in 1 .. m - 1 : c[k] \in Stands(buf, init)
    <2>1. ASSUME NEW k \in 1 .. m - 1 PROVE c[k] \in Stands(buf, init)
        <3>1. k \in 1 .. l + 1 /\ ~isSentinel(c[k].leb)
            BY <1>8, <1>1
        <3> QED BY <3>1, <1>3, SentinelIs
    <2> QED BY <2>1
<1> DEFINE offs == SubSeq(c, 1, m - 1)
<1>12. /\ offs \in Seq(Stands(buf, init)) /\ Len(offs) = m - 1
       /\ \A k \in 1 .. m - 1 : offs[k] = c[k]
    <2>1. 1 \in Int /\ m - 1 \in Int /\ m - 1 - 1 + 1 = m - 1 /\ 1 <= m - 1
        BY <1>1, <1>8, <1>10
    <2>2. /\ offs \in Seq(Stands(buf, init))
          /\ Len(offs) = IF 1 <= m - 1 THEN (m - 1) - 1 + 1 ELSE 0
          /\ \A i \in 1 .. (m - 1) - 1 + 1 : offs[i] = c[1 + i - 1]
        BY <2>1, <1>11, SubSeqProperties
    <2>3. (m - 1) - 1 + 1 = m - 1 /\ \A i \in 1 .. m - 1 : 1 + i - 1 = i
        BY <1>8, <1>1
    <2> QED BY <2>1, <2>2, <2>3
<1> HIDE DEF offs
<1>13. ASSUME NEW k \in 1 .. m - 1
       PROVE  /\ k < m - 1 => c[k + 1].leb.idx = c[k].leb.idx + c[k].leb.nbytes
              /\ k = m - 1 => c[k].leb.idx + c[k].leb.nbytes = Len(buf)
    <2>1. PICK a \in Begins(buf) : c[k] = Stand(buf, init, a)
        BY <1>11 DEF Stands
    <2> DEFINE next == a + c[k].leb.nbytes
    <2>2. /\ c[k].leb.idx = a /\ next \in 1 .. Len(buf)
          /\ next = Len(buf) => StepOf(buf, c[k]) = Sentinel(buf, init, c[k].leb.val)
          /\ next # Len(buf) => /\ next \in Begins(buf)
                                /\ StepOf(buf, c[k]) = Stand(buf, init, next)
        BY <2>1, StepFrom
    <2>3. c[k + 1] = StepOf(buf, c[k])
        BY <1>3, <1>8, <1>1
    <2> HIDE DEF next
    <2>4. CASE k < m - 1
        <3>1. k + 1 \in 1 .. m - 1
            BY <2>4, <1>8, <1>1
        <3>2. ~isSentinel(c[k + 1].leb)
            BY <3>1, <1>8
        <3>3. next # Len(buf)
            BY <3>2, <2>2, <2>3 DEF Sentinel, isSentinel
        <3>4. c[k + 1].leb.idx = next
            BY <3>3, <2>2, <2>3, StepFrom
        <3> QED BY <3>4, <2>2, <2>4 DEF next
    <2>5. CASE k = m - 1
        <3>1. isSentinel(c[k + 1].leb)
            BY <2>5, <1>8, <1>1
        <3>2. next = Len(buf)
            BY <3>1, <2>2, <2>3, StepFrom
        <3> QED BY <3>2, <2>2, <2>5 DEF next
    <2> QED BY <2>4, <2>5, <1>8, <1>1
<1>14. /\ offs \in Seq(Stands(buf, init)) /\ Len(offs) \in Nat \ {0}
       /\ offs[1] = Stand(buf, init, 0)
    <2>1. 1 \in 1 .. m - 1 /\ m - 1 \in Nat \ {0}
        BY <1>8, <1>10, <1>1
    <2> QED BY <2>1, <1>12, <1>3
<1>15. \A j \in 1 .. Len(offs) - 1 :
           offs[j + 1].leb.idx = offs[j].leb.idx + offs[j].leb.nbytes
    <2>1. ASSUME NEW j \in 1 .. (m - 1) - 1
          PROVE  offs[j + 1].leb.idx = offs[j].leb.idx + offs[j].leb.nbytes
        <3>1. j \in 1 .. m - 1 /\ j + 1 \in 1 .. m - 1 /\ j < m - 1
            BY <1>8, <1>10, <1>1
        <3> QED BY <3>1, <1>12, <1>13
    <2> QED BY <2>1, <1>12
<1>16. offs[Len(offs)].leb.idx + offs[Len(offs)].leb.nbytes = Len(buf)
    <2>1. m - 1 \in 1 .. m - 1
        BY <1>8, <1>10, <1>1
    <2> QED BY <2>1, <1>12, <1>13
<1>17. Positions(buf, init) = offs
    BY <1>9 DEF offs
<1> QED BY <1>14, <1>15, <1>16, <1>17

-----------------------------------------------------------------------------
(* The start of the function around an offset *)

\* The greatest of some numbers.
LEMMA GreatestIs ==
    ASSUME NEW T, T \subseteq Int, NEW r \in T, \A y \in T : r >= y
    PROVE  Max(T) = r
<1>1. Max(T) \in T /\ \A y \in T : Max(T) >= y
    BY DEF Max
<1>2. Max(T) >= r /\ r >= Max(T) /\ r \in Int /\ Max(T) \in Int
    BY <1>1
<1> QED BY <1>2

\* A sum that is not beyond an offset is the greatest such if the next is.
LEMMA GreatestSum ==
    ASSUME NEW buf \in Seq(Nat), NEW init \in Nat, NEW off \in Nat,
           NEW i \in 0 .. Len(buf), Sums(buf, init)[i] <= off,
           i < Len(buf) => Sums(buf, init)[i + 1] > off
    PROVE  Max({f \in {Sums(buf, init)[j] : j \in 0 .. Len(buf)} : f <= off}) = Sums(buf, init)[i]
<1> DEFINE s == Sums(buf, init)
           n == Len(buf)
           T == {f \in {s[j] : j \in 0 .. n} : f <= off}
<1>1. n \in Nat /\ s \in [0 .. n -> Nat]
    BY SumsAre
<1>2. \A j, k \in 0 .. n : j <= k => s[j] <= s[k]
    BY SumsGrow
<1>3. i \in 0 .. n /\ s[i] <= off /\ (i < n => s[i + 1] > off)
    OBVIOUS
<1> HIDE DEF s, n
<1>4. T \subseteq Int
    BY <1>1
<1>5. s[i] \in T
    BY <1>3
<1>6. ASSUME NEW y \in T PROVE s[i] >= y
    <2>1. PICK j \in 0 .. n : y = s[j] /\ y <= off
        OBVIOUS
    <2>2. s[i] \in Nat /\ s[j] \in Nat
        BY <1>1, <1>3
    <2>3. CASE j <= i
        BY <2>1, <2>2, <2>3, <1>2, <1>3
    <2>4. CASE j > i
        <3>1. i < n /\ i + 1 \in 0 .. n /\ i + 1 <= j
            BY <2>4, <1>1, <1>3
        <3>2. s[i + 1] <= s[j] /\ s[i + 1] \in Nat /\ s[i + 1] > off
            BY <3>1, <1>1, <1>2, <1>3
        <3> QED BY <3>2, <2>1, <2>2
    <2> QED BY <2>3, <2>4, <1>1, <1>3
<1>7. Max(T) = s[i]
    <2> HIDE DEF T
    <2> QED BY <1>4, <1>5, <1>6, GreatestIs
<1> QED BY <1>7 DEF s, n

\* What the code finds is the greatest function start not beyond the offset; its
\* assertion fails only in data with an overlong number.
LEMMA FunctionStartIs ==
    ASSUME NEW buf, NEW init \in Nat, NEW functions, SaysWhere(buf, init, functions),
           NEW off \in Nat, off >= init
    PROVE  LET start == func_start_for_offsets(off, buf, init)
           IN \/ /\ start = Max({f \in functions \cup {init} : f <= off})
                 /\ start \in Nat
              \/ start = Aborted /\ HasOverlong(buf)
<1> DEFINE offs == Positions(buf, init)
           n == Len(offs)
           s == Sums(buf, init)
           l == Len(buf)
           T == {j \in 1 .. n : offs[j].psum > off}
           first == SelectInSeq(offs, LAMBDA it : it.psum > off)
           Greatest == Max({f \in {s[j] : j \in 0 .. l} : f <= off})
<1>1. IsNumberList(buf) /\ functions \cup {init} = {s[i] : i \in 0 .. l} /\ s[l] = s[l - 1]
    BY DEF SaysWhere, IsNumberList
<1>2. /\ offs \in Seq(Stands(buf, init)) /\ n \in Nat \ {0}
      /\ offs[1] = Stand(buf, init, 0)
      /\ \A j \in 1 .. n - 1 : offs[j + 1].leb.idx = offs[j].leb.idx + offs[j].leb.nbytes
      /\ offs[n].leb.idx + offs[n].leb.nbytes = l
    BY <1>1, PositionsAre
<1>3. first = IF T # {} THEN Min(T) ELSE 0
    BY DEF SelectInSeq
<1>4. func_start_for_offsets(off, buf, init) =
          IF first = 0 THEN offs[n].psum
          ELSE IF PrevAborts(offs[first].leb) THEN Aborted
          ELSE PsumPrev(buf, offs[first]).psum
    <2>1. offs # <<>> /\ ~(off < init) /\ ~BreaksOff(buf)
        BY <1>1, <1>2 DEF BreaksOff, IsNumberList
    <2> QED BY <2>1 DEF func_start_for_offsets
<1>5. /\ buf \in Seq(Nat) /\ l \in Nat /\ s \in [0 .. l -> Nat] /\ s[0] = init
      /\ \A i \in 1 .. l : s[i] = s[i - 1] + Adds(buf, i)
    BY <1>1, SumsAre DEF IsNumberList
<1> HIDE DEF offs, n, s, l
<1>6. ASSUME NEW j \in 1 .. n
      PROVE  \E a \in Begins(buf) :
                /\ offs[j].leb.idx = a /\ offs[j].psum = s[a] /\ a \in 0 .. l - 1
                /\ a = 0 \/ ~More(buf[a])
                /\ a + offs[j].leb.nbytes \in 1 .. l /\ offs[j].leb.nbytes \in Nat
                /\ s[(a + offs[j].leb.nbytes) - 1] = s[a]
                /\ a > 0 /\ PrevAborts(offs[j].leb) => HasOverlong(buf)
    <2>1. offs[j] \in Stands(buf, init)
        BY <1>2 DEF n
    <2>2. PICK a \in Begins(buf) : offs[j] = Stand(buf, init, a)
        BY <2>1 DEF Stands
    <2>3. /\ ReadAt(buf, a).idx = a /\ ReadAt(buf, a).nbytes \in Nat
          /\ a + ReadAt(buf, a).nbytes \in 1 .. Len(buf)
          /\ s[(a + ReadAt(buf, a).nbytes) - 1] = s[a]
          /\ ~More(buf[a + ReadAt(buf, a).nbytes])
          /\ Max(EndsBefore(buf, a + ReadAt(buf, a).nbytes)) = a
        BY <1>1, NumberAt DEF s
    <2>4. offs[j].leb = ReadAt(buf, a) /\ offs[j].psum = s[a]
        BY <2>2 DEF Stand, s
    <2>5. a \in 0 .. l - 1 /\ (a = 0 \/ ~More(buf[a]))
        BY DEF Begins, l
    <2>6. ASSUME a > 0, PrevAborts(offs[j].leb) PROVE HasOverlong(buf)
        <3> DEFINE e == a + ReadAt(buf, a).nbytes
        <3>1. e - a = ReadAt(buf, a).nbytes /\ a < ReadAt(buf, a).nbytes
            <4>1. a \in Int /\ ReadAt(buf, a).nbytes \in Int
                BY <2>3, <2>5, <1>5, SMTT(60)
            <4>2. a < ReadAt(buf, a).nbytes
                BY <2>3, <2>4, <2>6 DEF PrevAborts
            <4> QED BY ONLY <4>1, <4>2
        <3>2. e \in 1 .. Len(buf) /\ ~More(buf[e]) /\ Max(EndsBefore(buf, e)) = a
            BY <2>3
        <3> HIDE DEF e
        <3> QED BY <3>1, <3>2, <2>6 DEF HasOverlong
    <2> QED BY <2>3, <2>4, <2>5, <2>6 DEF l
<1>7. CASE T = {}
    <2>1. n \in 1 .. n
        BY <1>2
    <2>2. PICK a \in Begins(buf) :
              /\ offs[n].leb.idx = a /\ offs[n].psum = s[a] /\ a \in 0 .. l - 1
              /\ s[(a + offs[n].leb.nbytes) - 1] = s[a] /\ offs[n].leb.nbytes \in Nat
              /\ a + offs[n].leb.nbytes \in 1 .. l
        BY <2>1, <1>6
    <2>3. a + offs[n].leb.nbytes = l
        BY <1>2, <2>2
    <2>4. s[l - 1] = s[a]
        BY ONLY <2>2, <2>3
    <2>5. s[a] = s[l] /\ offs[n].psum = s[l]
        BY <1>1, <2>2, <2>4
    <2>6. offs[n].psum <= off
        <3>1. ~(offs[n].psum > off) /\ offs[n].psum \in Nat
            <4>1. s[a] \in Nat
                BY <1>5, <2>2
            <4> QED BY <4>1, <2>1, <2>2, <1>7
        <3> QED BY <3>1
    <2>7. Greatest = s[l]
        BY <1>5, <2>5, <2>6, GreatestSum, SMTT(60) DEF s, l
    <2>8. func_start_for_offsets(off, buf, init) = s[l]
        BY <1>3, <1>4, <1>7, <2>5
    <2>9. s[l] \in Nat
        <3>1. l \in 0 .. l
            BY <1>5
        <3> QED BY ONLY <3>1, <1>5
    <2>10. Max({f \in functions \cup {init} : f <= off}) = s[l]
        BY <1>1, <2>7
    <2> QED BY ONLY <2>8, <2>9, <2>10
<1>8. CASE T # {}
    <2> DEFINE k == Min(T)
    <2>1. k \in 1 .. n /\ offs[k].psum > off /\ \A j \in 1 .. k - 1 : ~(offs[j].psum > off)
        <3>1. T \subseteq Nat /\ T # {}
            BY <1>2, <1>8
        <3>2. k \in T /\ \A j \in T : k <= j
            <4> HIDE DEF T
            <4> QED BY <3>1, LeastOf
        <3>3. k \in 1 .. n /\ offs[k].psum > off
            BY <3>2
        <3> HIDE DEF k
        <3>4. ASSUME NEW j \in 1 .. k - 1, offs[j].psum > off PROVE FALSE
            <4>1. j \in 1 .. n /\ j < k
                BY <3>3, <1>2
            <4>2. j \in T
                BY <4>1, <3>4
            <4> QED BY <4>1, <4>2, <3>2, <3>3
        <3> QED BY <3>3, <3>4
    <2>2. first = k /\ first # 0
        BY <1>3, <1>8, <2>1
    <2> HIDE DEF k, T, first
    <2>3. k # 1
        <3>1. offs[1].psum = init
            BY <1>2, <1>5 DEF Stand, s
        <3> QED BY <3>1, <2>1
    <2>4. k - 1 \in 1 .. n /\ k - 1 \in 1 .. n - 1 /\ (k - 1) + 1 = k /\ k - 1 \in 1 .. k - 1
        BY <2>1, <2>3, <1>2
    <2>5. PICK b \in Begins(buf) :
              /\ offs[k].leb.idx = b /\ offs[k].psum = s[b] /\ b \in 0 .. l - 1
              /\ b = 0 \/ ~More(buf[b])
              /\ b > 0 /\ PrevAborts(offs[k].leb) => HasOverlong(buf)
        BY <2>1, <1>6
    <2>6. PICK a \in Begins(buf) :
              /\ offs[k - 1].leb.idx = a /\ offs[k - 1].psum = s[a] /\ a \in 0 .. l - 1
              /\ a + offs[k - 1].leb.nbytes \in 1 .. l /\ offs[k - 1].leb.nbytes \in Nat
              /\ s[(a + offs[k - 1].leb.nbytes) - 1] = s[a]
        BY <2>4, <1>6
    <2>7. a + offs[k - 1].leb.nbytes = b
        BY <2>4, <2>5, <2>6, <1>2
    <2>8. b \in 1 .. l /\ b \in Nat /\ ~More(buf[b])
        BY <2>5, <2>6, <2>7, <1>5
    <2>9. s[b - 1] = s[a]
        BY ONLY <2>6, <2>7
    <2>10. s[b] = s[b - 1] + Adds(buf, b) /\ s[b] \in Nat /\ s[b - 1] \in Nat /\ Adds(buf, b) \in Nat
        <3>1. b - 1 \in 0 .. l /\ b \in 0 .. l /\ b \in 1 .. Len(buf)
            BY <2>8, <1>5 DEF l
        <3>2. Adds(buf, b) \in Nat
            BY <3>1, <1>5, AddsType
        <3> QED BY <3>1, <3>2, <2>8, <1>5
    <2>11. PsumPrev(buf, offs[k]).psum = s[b - 1]
        <3>1. DecodeUleb128Backwards(SubSeq(buf, 1, b)).val = Adds(buf, b)
            <4>1. b \in 1 .. Len(buf)
                BY <2>8 DEF l
            <4> QED BY <4>1, <1>5, <2>8, NumberBefore
        <3>2. LebPrev(buf, offs[k].leb).val = Adds(buf, b)
            BY <3>1, <2>5 DEF LebPrev, At
        <3>3. PsumPrev(buf, offs[k]).psum = s[b] - Adds(buf, b)
            BY <3>2, <2>5 DEF PsumPrev
        <3> QED BY <3>3, <2>10
    <2>12. s[b - 1] <= off /\ s[b] > off
        <3>1. ~(s[a] > off) /\ s[a] \in Nat
            <4>1. s[a] \in Nat
                BY <2>6, <1>5
            <4>2. ~(offs[k - 1].psum > off)
                BY ONLY <2>1, <2>4
            <4> QED BY ONLY <4>1, <4>2, <2>6
        <3> QED BY <3>1, <2>1, <2>5, <2>9
    <2>13. Greatest = s[b - 1]
        <3>1. b - 1 \in 0 .. Len(buf) /\ (b - 1) + 1 = b
            BY <2>8, <1>5 DEF l
        <3>2. Sums(buf, init)[b - 1] <= off /\ Sums(buf, init)[(b - 1) + 1] > off
            BY <3>1, <2>12 DEF s
        <3>3. Max({f \in {Sums(buf, init)[j] : j \in 0 .. Len(buf)} : f <= off})
                = Sums(buf, init)[b - 1]
            BY ONLY <3>1, <3>2, <1>5, GreatestSum, init \in Nat, off \in Nat
        <3> QED BY <3>3 DEF s, l
    <2>14. CASE PrevAborts(offs[k].leb)
        BY <1>4, <2>2, <2>5, <2>8, <2>14
    <2>15. CASE ~PrevAborts(offs[k].leb)
        <3>1. func_start_for_offsets(off, buf, init) = s[b - 1]
            BY <1>4, <2>2, <2>11, <2>15
        <3> QED BY <1>1, <2>10, <2>13, <3>1
    <2> QED BY <2>14, <2>15
<1> QED BY <1>7, <1>8

-----------------------------------------------------------------------------
(* The calls found *)

\* What the scan of __TEXT reads and reports at an address.
TextOf(m) == textSeg(m).vmaddr .. textSeg(m).vmaddr + textSeg(m).filesize - 1
OffsetOf(m, at) == at - vmaddr_fileoff_delta(textSeg(m))
StartAt(m, at) ==
    func_start_for_file_offset(OffsetOf(m, at), functionStartsCommand(m).data, textSeg(m))
ArgumentsAt(m, at) == Arguments(DataOf(m, textSeg(m)), StartAt(m, at), OffsetOf(m, at))
Reports(m) ==
    UNION {{[pc |-> at, start |-> StartAt(m, at), arg |-> arg] : arg \in ArgumentsAt(m, at)}
           : at \in {a \in TextOf(m) : StartAt(m, a) # Aborted}}
CallsBelow(m, target, last) ==
    {at \in TextOf(m) : at < last /\ isBLTo(m.image[OffsetOf(m, at)], at, target)}

\* A file whose __TEXT is scanned for a symbol.
IsScanned(m, name) ==
    WellFormed(m) /\ IsFound(m, name) /\ PrintsSymbol(m, symbol_nl(m, name)) /\ Asserted(m)
HasScanned == phase \in {"scan", "no start"} \/ res

\* The reports are those of the calls below pc; before the scan there is none.
\* Where the search for the start of a function fails, so does the scan.
CallInv ==
    /\ macho \in Files
    /\ found \in Seq(Reports(macho))
    /\ tool = "dump" => ~HasScanned
    /\ tool = "callfinder" =>
          phase \in {"start", "stray", "aborted", "scan", "no start", "done"}
    /\ res => phase = "done"
    /\ HasScanned =>
          /\ IsScanned(macho, symbol_name)
          /\ symbol_stub_addr = StubAddress(macho, symbol_name)
          /\ pc \in textSeg(macho).vmaddr .. textSeg(macho).vmaddr + textSeg(macho).filesize
          /\ {found[i].pc : i \in DOMAIN found} = CallsBelow(macho, symbol_stub_addr, pc)
    /\ ~HasScanned => found = <<>>
    /\ res => pc = textSeg(macho).vmaddr + textSeg(macho).filesize
    /\ phase = "no start" => pc \in TextOf(macho) /\ StartAt(macho, pc) = Aborted
    /\ tool = "callfinder" /\ phase = "done" /\ ~res =>
          /\ WellFormed(macho) /\ symtab(macho) # nullptr
          /\ ~SearchStrays(macho, symbol_name) /\ Matches(macho, symbol_name) = {}

\* The numbers of a file's __TEXT.
LEMMA TextNumbers ==
    ASSUME NEW m \in Files, WellFormed(m), Asserted(m)
    PROVE  /\ textSeg(m).vmaddr \in Nat /\ textSeg(m).fileoff \in Nat /\ textSeg(m).filesize \in Nat
           /\ stub_sect(textSeg(m)).addr \in Nat /\ stub_sect(textSeg(m)).stubs \in Nat
           /\ stub_sect(textSeg(m)).reserved1 \in Nat
           /\ SaysWhere(functionStartsCommand(m).data, textSeg(m).fileoff, m.functions)
<1>1. IsLinked(m)
    BY ToolsAssumption
<1> QED BY <1>1 DEF IsLinked, Asserted

\* The scan reads the words of the file that are loaded at the addresses.
LEMMA InstructionAt ==
    ASSUME NEW m \in Files, WellFormed(m), Asserted(m)
    PROVE  /\ Len(DataOf(m, textSeg(m))) = textSeg(m).filesize
           /\ \A at \in TextOf(m) :
                 /\ DataOf(m, textSeg(m))[at - textSeg(m).vmaddr + 1] = m.image[OffsetOf(m, at)]
                 /\ OffsetOf(m, at) \in Nat /\ OffsetOf(m, at) >= textSeg(m).fileoff
<1> DEFINE seg == textSeg(m)
<1>1. seg.vmaddr \in Nat /\ seg.fileoff \in Nat /\ seg.filesize \in Nat
    BY TextNumbers
<1>2. \A at : OffsetOf(m, at) = at - (seg.vmaddr - seg.fileoff)
    BY DEF OffsetOf, vmaddr_fileoff_delta
<1>3. TextOf(m) = seg.vmaddr .. seg.vmaddr + seg.filesize - 1
    BY DEF TextOf
<1>4. DataOf(m, seg) = [i \in 1 .. seg.filesize |-> m.image[seg.fileoff + i - 1]]
    BY DEF DataOf
<1> HIDE DEF seg
<1>5. Len(DataOf(m, seg)) = seg.filesize
    BY <1>1, <1>4
<1>6. ASSUME NEW at \in TextOf(m)
      PROVE  /\ DataOf(m, seg)[at - seg.vmaddr + 1] = m.image[OffsetOf(m, at)]
             /\ OffsetOf(m, at) \in Nat /\ OffsetOf(m, at) >= seg.fileoff
    <2>1. at \in Int /\ at - seg.vmaddr + 1 \in 1 .. seg.filesize
        BY <1>1, <1>3
    <2>2. seg.fileoff + (at - seg.vmaddr + 1) - 1 = at - (seg.vmaddr - seg.fileoff)
        BY <2>1, <1>1
    <2>3. DataOf(m, seg)[at - seg.vmaddr + 1] = m.image[seg.fileoff + (at - seg.vmaddr + 1) - 1]
        BY <2>1, <1>4
    <2>4. OffsetOf(m, at) \in Nat /\ OffsetOf(m, at) >= seg.fileoff
        BY <2>1, <1>1, <1>2, <1>3, SMTT(60)
    <2> QED BY <2>2, <2>3, <2>4, <1>2
<1> QED BY <1>5, <1>6 DEF seg

\* Neither choice of the files nor anything the scan has found changes in the
\* rest of the programs' steps.
LEMMA OtherSteps ==
    ASSUME CallInv, Dump \/ FindSymbol \/ ScanEnd \/ UNCHANGED toolsVars PROVE CallInv'
<1>1. CASE Dump
    <2>1. /\ UNCHANGED <<macho, tool, symbol_name, symbol_stub_addr, pc, found, res>>
          /\ phase' \notin {"scan", "no start"} /\ tool # "callfinder"
        <3> USE DEF CallInv, chosen
        <3>1. CASE DumpHeader
            BY <3>1 DEF DumpHeader
        <3>2. CASE DumpCommand
            BY <3>2 DEF DumpCommand
        <3>3. CASE DumpCommandsEnd
            BY <3>3 DEF DumpCommandsEnd
        <3>4. CASE DumpUndef
            BY <3>4 DEF DumpUndef
        <3>5. ASSUME NEW list \in {"indirect", "filesets"}, DumpEntry(list)
              PROVE  /\ UNCHANGED <<macho, tool, symbol_name, symbol_stub_addr, pc, found, res>>
                     /\ phase' \notin {"scan", "no start"} /\ tool # "callfinder"
            BY <3>5 DEF DumpEntry
        <3>6. ASSUME NEW list \in {"undef", "indirect", "filesets"}, DumpListEnd(list)
              PROVE  /\ UNCHANGED <<macho, tool, symbol_name, symbol_stub_addr, pc, found, res>>
                     /\ phase' \notin {"scan", "no start"} /\ tool # "callfinder"
            BY <3>6 DEF DumpListEnd
        <3> QED BY <1>1, <3>1, <3>2, <3>3, <3>4, <3>5, <3>6 DEF Dump
    <2>2. ~res
        <3>1. CASE res
            <4>1. phase = "done"
                BY <3>1 DEF CallInv
            <4> QED BY <4>1, <1>1 DEF Dump, DumpHeader, DumpCommand, DumpCommandsEnd, DumpUndef,
                                      DumpEntry, DumpListEnd
        <3> QED BY <3>1
    <2>3. ~HasScanned /\ ~HasScanned'
        <3>1. phase \notin {"scan", "no start"}
            BY <1>1 DEF Dump, DumpHeader, DumpCommand, DumpCommandsEnd, DumpUndef,
                        DumpEntry, DumpListEnd
        <3> QED BY <2>1, <2>2, <3>1 DEF HasScanned
    <2>4. found = <<>> /\ found' = <<>> /\ ~res' /\ phase' # "no start" /\ tool' # "callfinder"
        BY <2>1, <2>2, <2>3 DEF CallInv
    <2>5. macho' \in Files /\ found' \in Seq(Reports(macho'))
        BY <2>1, <2>4 DEF CallInv
    <2> QED BY <2>3, <2>4, <2>5 DEF CallInv
<1>2. CASE FindSymbol
    <2>1. /\ macho' = macho /\ tool' = tool /\ symbol_name' = symbol_name /\ found' = found
          /\ res' = res /\ tool = "callfinder" /\ phase = "start"
        BY <1>2 DEF FindSymbol, chosen
    <2>2. ~res /\ found = <<>>
        BY <2>1 DEF CallInv, HasScanned
    <2>3. macho \in Files /\ found' \in Seq(Reports(macho'))
        BY <2>1, <2>2 DEF CallInv
    <2>4. CASE phase' = "scan"
        <3>1. /\ IsScanned(macho, symbol_name) /\ Asserted(macho)
              /\ symbol_stub_addr' = StubAddress(macho, symbol_name)
              /\ pc' = textSeg(macho).vmaddr
            BY <1>2, <2>4 DEF FindSymbol, NothingToScan, IsScanned, vmaddr_range
        <3>2. textSeg(macho).vmaddr \in Nat /\ textSeg(macho).filesize \in Nat
            BY <3>1, <2>3, TextNumbers DEF IsScanned
        <3>3. pc' \in textSeg(macho).vmaddr .. textSeg(macho).vmaddr + textSeg(macho).filesize
            BY <3>1, <3>2
        <3>4. CallsBelow(macho, symbol_stub_addr', pc') = {}
            BY <3>1, <3>2 DEF CallsBelow, TextOf
        <3>5. {found'[i].pc : i \in DOMAIN found'} = {}
            BY <2>1, <2>2
        <3>6. {found'[i].pc : i \in DOMAIN found'} = CallsBelow(macho', symbol_stub_addr', pc')
            BY <2>1, <3>4, <3>5
        <3> QED BY <2>1, <2>2, <2>3, <2>4, <3>1, <3>3, <3>6 DEF CallInv, HasScanned
    <2>5. CASE phase' # "scan"
        <3>1. /\ phase' \in {"stray", "aborted", "done"}
              /\ phase' = "done" =>
                    /\ WellFormed(macho) /\ symtab(macho) # nullptr
                    /\ ~SearchStrays(macho, symbol_name) /\ Matches(macho, symbol_name) = {}
            BY <1>2, <2>5 DEF FindSymbol, NothingToScan
        <3> QED BY <2>1, <2>2, <2>3, <2>5, <3>1 DEF CallInv, HasScanned
    <2> QED BY <2>4, <2>5
<1>3. CASE ScanEnd
    <2>1. /\ macho' = macho /\ tool' = tool /\ symbol_name' = symbol_name /\ found' = found
          /\ symbol_stub_addr' = symbol_stub_addr /\ pc' = pc
          /\ res' = TRUE /\ phase = "scan" /\ phase' = "done"
          /\ pc - textSeg(macho).vmaddr = textSeg(macho).filesize
        BY <1>3 DEF ScanEnd, chosen
    <2>2. /\ macho \in Files /\ IsScanned(macho, symbol_name) /\ tool # "dump"
          /\ pc \in textSeg(macho).vmaddr .. textSeg(macho).vmaddr + textSeg(macho).filesize
          /\ {found[i].pc : i \in DOMAIN found} = CallsBelow(macho, symbol_stub_addr, pc)
          /\ found \in Seq(Reports(macho))
        BY <2>1 DEF CallInv, HasScanned
    <2>3. textSeg(macho).vmaddr \in Nat /\ textSeg(macho).filesize \in Nat
        BY <2>2, TextNumbers DEF IsScanned
    <2>4. pc = textSeg(macho).vmaddr + textSeg(macho).filesize
        BY <2>1, <2>2, <2>3
    <2> QED BY <2>1, <2>2, <2>4 DEF CallInv, HasScanned
<1>4. CASE UNCHANGED toolsVars
    BY <1>4 DEF CallInv, HasScanned, toolsVars, chosen
<1> QED BY <1>1, <1>2, <1>3, <1>4

\* Reading on, the calls below pc are those below the next one and the one at pc.
LEMMA CallsUpTo ==
    ASSUME NEW m, NEW target, NEW at \in TextOf(m), textSeg(m).vmaddr \in Nat, textSeg(m).filesize \in Nat
    PROVE  CallsBelow(m, target, at + 1) =
               CallsBelow(m, target, at)
                 \cup (IF isBLTo(m.image[OffsetOf(m, at)], at, target) THEN {at} ELSE {})
<1>1. TextOf(m) \subseteq Int /\ at \in Int
    BY DEF TextOf
<1>2. ASSUME NEW b \in TextOf(m) PROVE b < at + 1 <=> b < at \/ b = at
    BY <1>1
<1> QED BY <1>2 DEF CallsBelow

\* An instruction that is scanned is reported if it calls the stub, and only then.
LEMMA ScanStep == ASSUME CallInv, ScanInstruction PROVE CallInv'
<1> DEFINE seg == textSeg(macho)
           text == DataOf(macho, seg)
           calls == isBLTo(macho.image[OffsetOf(macho, pc)], pc, symbol_stub_addr)
<1>1. /\ macho' = macho /\ tool' = tool /\ symbol_name' = symbol_name /\ res' = res
      /\ symbol_stub_addr' = symbol_stub_addr /\ phase = "scan"
    BY DEF ScanInstruction, chosen
<1>2. /\ macho \in Files /\ IsScanned(macho, symbol_name) /\ tool # "dump" /\ ~res
      /\ pc \in seg.vmaddr .. seg.vmaddr + seg.filesize
      /\ symbol_stub_addr = StubAddress(macho, symbol_name)
      /\ {found[i].pc : i \in DOMAIN found} = CallsBelow(macho, symbol_stub_addr, pc)
      /\ found \in Seq(Reports(macho))
    BY <1>1 DEF CallInv, HasScanned
<1>3. seg.vmaddr \in Nat /\ seg.filesize \in Nat /\ Len(text) = seg.filesize
    BY <1>2, TextNumbers, InstructionAt DEF IsScanned
<1>4. pc - seg.vmaddr + 1 <= seg.filesize
    BY <1>3 DEF ScanInstruction
<1>5. pc \in TextOf(macho) /\ pc \in Int
    BY <1>2, <1>3, <1>4 DEF TextOf
<1>6. text[pc - seg.vmaddr + 1] = macho.image[OffsetOf(macho, pc)]
    BY <1>2, <1>5, InstructionAt DEF IsScanned
<1> DEFINE fails == calls /\ StartAt(macho, pc) = Aborted
<1>7. /\ calls /\ ~fails =>
            \E arg \in ArgumentsAt(macho, pc) :
                found' = Append(found, [pc |-> pc, start |-> StartAt(macho, pc), arg |-> arg])
      /\ ~calls \/ fails => found' = found
      /\ fails => phase' = "no start" /\ pc' = pc
      /\ ~fails => phase' = "scan" /\ pc' = pc + 1
    BY <1>1, <1>6 DEF ScanInstruction, ArgumentsAt, StartAt, OffsetOf
<1>8. CASE fails
    <2>1. pc' = pc /\ found' = found /\ phase' = "no start"
        BY <1>7, <1>8
    <2>2. StartAt(macho, pc) = Aborted
        BY <1>8
    <2> HIDE DEF fails
    <2> QED BY <1>1, <1>2, <1>5, <2>1, <2>2 DEF CallInv, HasScanned
<1>9. CASE ~fails
    <2>1. ~fails /\ phase' = "scan" /\ pc' = pc + 1 /\ (calls => StartAt(macho, pc) # Aborted)
        BY <1>7, <1>9
    <2>2. /\ found' \in Seq(Reports(macho))
          /\ {found'[i].pc : i \in DOMAIN found'} = CallsBelow(macho, symbol_stub_addr, pc + 1)
        <3>1. CallsBelow(macho, symbol_stub_addr, pc + 1) =
                  {found[i].pc : i \in DOMAIN found} \cup (IF calls THEN {pc} ELSE {})
            <4>1. CallsBelow(macho, symbol_stub_addr, pc + 1) =
                      CallsBelow(macho, symbol_stub_addr, pc) \cup (IF calls THEN {pc} ELSE {})
                BY <1>3, <1>5, CallsUpTo
            <4> QED BY ONLY <4>1, <1>2
        <3>2. CASE calls
            <4> HIDE DEF calls, fails
            <4>1. PICK arg \in ArgumentsAt(macho, pc) :
                      found' = Append(found, [pc |-> pc, start |-> StartAt(macho, pc), arg |-> arg])
                BY <1>7, <2>1, <3>2
            <4> DEFINE r == [pc |-> pc, start |-> StartAt(macho, pc), arg |-> arg]
            <4>2. r \in Reports(macho) /\ r.pc = pc
                BY <1>5, <2>1, <3>2 DEF Reports
            <4> HIDE DEF r
            <4>3. found' = Append(found, r)
                BY <4>1 DEF r
            <4>4. /\ found' \in Seq(Reports(macho)) /\ DOMAIN found' = 1 .. Len(found) + 1
                  /\ found'[Len(found) + 1] = r /\ \A i \in 1 .. Len(found) : found'[i] = found[i]
                  /\ DOMAIN found = 1 .. Len(found) /\ Len(found) \in Nat
                BY <4>2, <4>3, <1>2
            <4>5. {found'[i].pc : i \in DOMAIN found'} = {found[i].pc : i \in DOMAIN found} \cup {pc}
                BY <4>2, <4>4
            <4> QED BY <3>1, <3>2, <4>4, <4>5
        <3>3. CASE ~calls
            BY <3>1, <3>3, <1>2, <1>7
        <3> QED BY <3>2, <3>3
    <2>3. pc' \in seg.vmaddr .. seg.vmaddr + seg.filesize
        BY <2>1, <1>2, <1>3, <1>4
    <2>4. {found'[i].pc : i \in DOMAIN found'} = CallsBelow(macho', symbol_stub_addr', pc')
        BY <1>1, <2>1, <2>2
    <2> QED BY <1>1, <1>2, <2>1, <2>2, <2>3, <2>4 DEF CallInv, HasScanned
<1> QED BY <1>8, <1>9

\* The reports are those of the calls below pc.
THEOREM CallsAreReported == ToolsSpec => []CallInv
<1>1. ToolsInit => CallInv
    <2> SUFFICES ASSUME ToolsInit PROVE CallInv
        OBVIOUS
    <2>1. /\ macho \in Files /\ found = <<>> /\ phase = "start" /\ ~res
          /\ tool \in {"dump", "callfinder"}
        BY DEF ToolsInit
    <2>2. found \in Seq(Reports(macho))
        BY <2>1
    <2> QED BY <2>1, <2>2 DEF CallInv, HasScanned
<1>2. CallInv /\ [ToolsNext]_toolsVars => CallInv'
    BY OtherSteps, ScanStep DEF ToolsNext, FindCalls
<1> QED BY <1>1, <1>2, PTL DEF ToolsSpec

\* What is known of a report: the call is in __TEXT of a file that is scanned.
LEMMA ReportIs ==
    ASSUME CallInv, NEW i \in DOMAIN found
    PROVE  /\ macho \in Files /\ WellFormed(macho) /\ Asserted(macho)
           /\ found[i].pc \in TextOf(macho)
           /\ found[i].start = StartAt(macho, found[i].pc) /\ found[i].start # Aborted
           /\ found[i].arg \in ArgumentsAt(macho, found[i].pc)
<1>1. found # <<>> /\ macho \in Files /\ found \in Seq(Reports(macho))
    <2>1. found # <<>>
        OBVIOUS
    <2>2. macho \in Files /\ found \in Seq(Reports(macho))
        BY DEF CallInv
    <2> QED BY <2>1, <2>2
<1>2. IsScanned(macho, symbol_name)
    BY <1>1 DEF CallInv
<1>3. found[i] \in Reports(macho)
    BY <1>1
<1>4. PICK at \in TextOf(macho) :
          /\ StartAt(macho, at) # Aborted
          /\ \E arg \in ArgumentsAt(macho, at) :
                found[i] = [pc |-> at, start |-> StartAt(macho, at), arg |-> arg]
    BY <1>3 DEF Reports
<1>5. PICK arg \in ArgumentsAt(macho, at) :
          found[i] = [pc |-> at, start |-> StartAt(macho, at), arg |-> arg]
    BY <1>4
<1>6. found[i].pc = at /\ found[i].start = StartAt(macho, at) /\ found[i].arg = arg
    BY <1>5
<1> QED BY <1>1, <1>2, <1>4, <1>6 DEF IsScanned

\* The start that is found for a call is its function's.
LEMMA StartIsFunction ==
    ASSUME NEW m \in Files, WellFormed(m), Asserted(m), NEW at \in TextOf(m)
    PROVE  \/ StartAt(m, at) = FunctionOf(m, OffsetOf(m, at)) /\ StartAt(m, at) \in Nat
           \/ StartAt(m, at) = Aborted /\ HasOverlong(functionStartsCommand(m).data)
<1>1. OffsetOf(m, at) \in Nat /\ OffsetOf(m, at) >= textSeg(m).fileoff
    BY InstructionAt
<1>2. /\ SaysWhere(functionStartsCommand(m).data, textSeg(m).fileoff, m.functions)
      /\ textSeg(m).fileoff \in Nat
    BY TextNumbers
<1> DEFINE start == func_start_for_offsets(OffsetOf(m, at), functionStartsCommand(m).data,
                                           textSeg(m).fileoff)
<1>3. \/ /\ start = Max({f \in m.functions \cup {textSeg(m).fileoff} : f <= OffsetOf(m, at)})
         /\ start \in Nat
      \/ start = Aborted /\ HasOverlong(functionStartsCommand(m).data)
    BY <1>1, <1>2, FunctionStartIs
<1> QED BY <1>3 DEF StartAt, func_start_for_file_offset, FunctionOf

\* The flags a call is reported with do not depend on the sign that is extended;
\* a mov into the high half is shifted by two less, or yields 0.
LEMMA FlagsOfMov ==
    ASSUME NEW inst, inst.imm \in Nat, inst.hw \in Nat,
           NEW val \in decodeMovWideImm(inst)
    PROVE  IF inst.hw < 2 THEN to_strings(val) = to_strings(Shifted(inst.imm, inst.hw))
           ELSE to_strings(val) \in {to_strings(0), to_strings(Shifted(inst.imm, inst.hw - 2))}
<1> DEFINE low(hw) == Shifted(inst.imm, hw)
           asInt(hw) == low(hw) + (IF hw = 1 /\ 2 * inst.imm >= Half THEN Word * Word - Word ELSE 0)
<1>1. Half \in Nat \ {0}
    BY ToolsAssumption
<1>2. Word \in Nat \ {0} /\ Word - 1 \in Nat /\ Word * Word - Word = Word * (Word - 1)
    <2>1. Half * Half \in Nat /\ Half * Half # 0
        BY <1>1
    <2>2. Word \in Nat \ {0}
        BY <2>1 DEF Word
    <2> QED BY <2>2
<1>3. \A hw : low(hw) \in Nat
    <2>1. inst.imm * Half \in Nat
        BY <1>1
    <2> QED BY <2>1 DEF Shifted
<1>4. \/ inst.hw < 2 /\ val = asInt(inst.hw)
      \/ ~(inst.hw < 2) /\ val \in {0, asInt(inst.hw - 2)}
    BY DEF decodeMovWideImm
<1> HIDE DEF low
<1>5. ASSUME NEW hw PROVE to_strings(asInt(hw)) = to_strings(low(hw))
    <2>1. (low(hw) + Word * (Word - 1)) % Word = low(hw) % Word
        BY <1>2, <1>3, RemainderBesideMultiple
    <2>2. low(hw) \in Int
        BY <1>3
    <2>3. asInt(hw) = low(hw) \/ asInt(hw) = low(hw) + Word * (Word - 1)
        BY <1>2, <2>2
    <2> HIDE DEF asInt
    <2>4. asInt(hw) % Word = low(hw) % Word
        BY <2>1, <2>3
    <2> QED BY <2>4 DEF to_strings
<1> HIDE DEF asInt
<1>6. IF inst.hw < 2 THEN to_strings(val) = to_strings(low(inst.hw))
      ELSE to_strings(val) \in {to_strings(0), to_strings(low(inst.hw - 2))}
    BY <1>4, <1>5
<1> QED BY <1>6 DEF low

\* The words before a call that are searched are those of the file, which are
\* as far behind the ones counted as __TEXT in the file.
LEMMA ReadsBackFromTheCall ==
    ASSUME NEW m \in Files, WellFormed(m), Asserted(m), NEW at \in TextOf(m)
    PROVE  /\ OffsetOf(m, at) \in Nat
           /\ Len(DataOf(m, textSeg(m))) = textSeg(m).filesize
           /\ OffsetOf(m, at) <= textSeg(m).filesize =>
                 \A i \in 1 .. OffsetOf(m, at) :
                    DataOf(m, textSeg(m))[i] = m.image[textSeg(m).fileoff + i - 1]
<1> DEFINE seg == textSeg(m)
<1>1. seg.vmaddr \in Nat /\ seg.filesize \in Nat /\ seg.fileoff \in Nat
    BY TextNumbers
<1>2. Len(DataOf(m, seg)) = seg.filesize /\ OffsetOf(m, at) \in Nat
    BY InstructionAt
<1>3. DataOf(m, seg) = [i \in 1 .. seg.filesize |-> m.image[seg.fileoff + i - 1]]
    BY DEF DataOf
<1> HIDE DEF seg
<1>4. ASSUME OffsetOf(m, at) <= seg.filesize, NEW i \in 1 .. OffsetOf(m, at)
      PROVE  DataOf(m, seg)[i] = m.image[seg.fileoff + i - 1]
    <2>1. i \in 1 .. seg.filesize
        BY <1>1, <1>2, <1>4
    <2> QED BY <2>1, <1>3
<1> QED BY <1>2, <1>4 DEF seg

\* The function a call is attributed to is the one that contains it.
THEOREM StartIsGreatest == ToolsSpec => []FunctionStartIsGreatest
<1>1. CallInv => FunctionStartIsGreatest
    <2>1. ASSUME CallInv, NEW i \in DOMAIN found
          PROVE  found[i].start = FunctionOf(macho, OffsetOf(macho, found[i].pc))
        BY <2>1, ReportIs, StartIsFunction
    <2>2. ASSUME CallInv, phase = "no start"
          PROVE  HasOverlong(functionStartsCommand(macho).data)
        <3>1. /\ macho \in Files /\ WellFormed(macho) /\ Asserted(macho)
              /\ pc \in TextOf(macho) /\ StartAt(macho, pc) = Aborted
            BY <2>2 DEF CallInv, HasScanned, IsScanned
        <3>2. Aborted \notin Nat
            BY DEF Aborted
        <3> QED BY <3>1, <3>2, StartIsFunction
    <2> QED BY <2>1, <2>2 DEF FunctionStartIsGreatest, OffsetOf
<1> QED BY <1>1, CallsAreReported, PTL

\* The argument that is reported is a value of the last wide mov to x0 among the
\* words searched.
LEMMA ArgumentIs ==
    ASSUME CallInv, NEW i \in DOMAIN found,
           OffsetOf(macho, found[i].pc) <= textSeg(macho).filesize
    PROVE  LET foff == OffsetOf(macho, found[i].pc)
               first == FunctionOf(macho, foff)
               begin == textSeg(macho).fileoff
               movs == {at \in begin + first .. begin + foff - 1 :
                          isMovWideImmTo(macho.image[at], 0)}
           IN /\ foff \in Nat /\ first \in Nat /\ begin \in Nat
              /\ movs = {} => found[i].arg = <<>>
              /\ \A last \in movs :
                    (\A at \in movs : at <= last) =>
                        \E val \in decodeMovWideImm(macho.image[last]) :
                            found[i].arg = <<to_strings(val)>>
<1> DEFINE foff == OffsetOf(macho, found[i].pc)
           first == FunctionOf(macho, foff)
           begin == textSeg(macho).fileoff
           movs == {at \in begin + first .. begin + foff - 1 :
                      isMovWideImmTo(macho.image[at], 0)}
           text == DataOf(macho, textSeg(macho))
           preceding == MovsBefore(text, first, foff)
<1>1. /\ macho \in Files /\ WellFormed(macho) /\ Asserted(macho)
      /\ found[i].pc \in TextOf(macho)
      /\ found[i].arg \in ArgumentsAt(macho, found[i].pc)
      /\ found[i].start = StartAt(macho, found[i].pc) /\ found[i].start # Aborted
    BY ReportIs
<1>2. /\ foff \in Nat /\ foff <= textSeg(macho).filesize
      /\ Len(text) = textSeg(macho).filesize
      /\ \A j \in 1 .. foff : text[j] = macho.image[begin + j - 1]
    BY <1>1, ReadsBackFromTheCall
<1>3. textSeg(macho).filesize \in Nat /\ begin \in Nat
    BY <1>1, TextNumbers
<1>4. StartAt(macho, found[i].pc) = first /\ first \in Nat
    BY <1>1, StartIsFunction
<1>5. found[i].arg \in
          IF preceding = {} THEN {<<>>}
          ELSE {<<to_strings(val)>> : val \in decodeMovWideImm(text[Max(preceding)])}
    <2>1. found[i].arg \in Arguments(text, first, foff)
        BY <1>1, <1>4 DEF ArgumentsAt
    <2>2. ~(foff > Len(text))
        BY <1>2, <1>3
    <2> HIDE DEF text, foff, first
    <2> QED BY <2>1, <2>2 DEF Arguments
<1>6. preceding = {j \in first + 1 .. foff : isMovWideImmTo(text[j], 0)}
    BY DEF MovsBefore
<1> HIDE DEF foff, first, begin, text, preceding
<1>7. ASSUME NEW at \in begin + first .. begin + foff - 1, isMovWideImmTo(macho.image[at], 0)
      PROVE  at + 1 - begin \in preceding
    <2>1. /\ at + 1 - begin \in first + 1 .. foff /\ at + 1 - begin \in 1 .. foff
          /\ begin + (at + 1 - begin) - 1 = at
        BY <1>2, <1>3, <1>4
    <2>2. text[at + 1 - begin] = macho.image[at]
        BY <2>1, <1>2
    <2> QED BY <2>1, <2>2, <1>6, <1>7
<1>8. ASSUME NEW j \in preceding
      PROVE  j \in Int /\ begin + j - 1 \in movs /\ text[j] = macho.image[begin + j - 1]
    <2>1. j \in first + 1 .. foff /\ isMovWideImmTo(text[j], 0)
        BY <1>6
    <2>2. j \in Int /\ begin + j - 1 \in begin + first .. begin + foff - 1 /\ j \in 1 .. foff
        BY <2>1, <1>2, <1>3, <1>4
    <2>3. text[j] = macho.image[begin + j - 1]
        BY <2>2, <1>2
    <2> QED BY <2>1, <2>2, <2>3
<1>9. movs = {} => found[i].arg = <<>>
    <2>1. movs = {} => preceding = {}
        BY <1>8
    <2> QED BY <2>1, <1>5
<1>10. ASSUME NEW last \in movs, \A at \in movs : at <= last
       PROVE  \E val \in decodeMovWideImm(macho.image[last]) : found[i].arg = <<to_strings(val)>>
    <2> DEFINE j == last + 1 - begin
    <2>1. last \in Int /\ begin + j - 1 = last /\ j \in Int
        BY <1>2, <1>3, <1>4
    <2>2. j \in preceding
        BY <1>7
    <2> HIDE DEF j
    <2>3. preceding \subseteq Int
        BY <1>8
    <2>4. ASSUME NEW k \in preceding PROVE j >= k
        <3>1. k \in Int /\ begin + k - 1 <= last
            BY <1>8, <1>10
        <3> QED BY <3>1, <2>1, <1>3
    <2>5. Max(preceding) = j
        BY <2>2, <2>3, <2>4, GreatestIs
    <2>6. text[Max(preceding)] = macho.image[last]
        BY <2>1, <2>2, <2>5, <1>8
    <2> HIDE DEF movs
    <2> QED BY <2>2, <2>6, <1>5
<1> HIDE DEF movs
<1> QED BY <1>2, <1>3, <1>4, <1>9, <1>10 DEF foff, first, begin, movs

\* A wide mov that is the last write of x0 gives the flags; without one there are
\* none.
THEOREM ArgumentIsWhatTheCallGets == ToolsSpec => []ArgumentIsLastWrite
<1>1. ASSUME CallInv, NEW i \in DOMAIN found,
             NEW foff, foff = OffsetOf(macho, found[i].pc),
             foff <= textSeg(macho).filesize,
             NEW first, first = FunctionOf(macho, foff),
             NEW begin, begin = textSeg(macho).fileoff
      PROVE  LET Instr(at) == macho.image[at]
                 body == begin + first .. begin + foff - 1
                 writes == {at \in body : Instr(at).op = "bl" \/
                              (Instr(at).op # "other" /\ Instr(at).rd = 0)}
                 last == Instr(Max(writes))
                 Flags(hw) == <<to_strings(Shifted(last.imm, hw))>>
             IN /\ writes # {} /\ isMovWideImm(last) =>
                      IF last.hw < 2 THEN found[i].arg = Flags(last.hw)
                      ELSE found[i].arg \in {<<to_strings(0)>>, Flags(last.hw - 2)}
                /\ (\A at \in body : ~isMovWideImmTo(Instr(at), 0)) =>
                      found[i].arg = <<>>
    <2> DEFINE body == begin + first .. begin + foff - 1
               movs == {at \in body : isMovWideImmTo(macho.image[at], 0)}
               writes == {at \in body : macho.image[at].op = "bl" \/
                             (macho.image[at].op # "other" /\ macho.image[at].rd = 0)}
               w == Max(writes)
               Flags(hw) == <<to_strings(Shifted(macho.image[w].imm, hw))>>
    <2>1. /\ foff \in Nat /\ first \in Nat /\ begin \in Nat
          /\ movs = {} => found[i].arg = <<>>
          /\ \A last \in movs :
                (\A at \in movs : at <= last) =>
                    \E val \in decodeMovWideImm(macho.image[last]) :
                        found[i].arg = <<to_strings(val)>>
        BY <1>1, ArgumentIs
    <2>2. movs \subseteq writes
        BY DEF isMovWideImmTo, isMovWideImm
    <2>3. ASSUME writes # {}, isMovWideImm(macho.image[w])
          PROVE  IF macho.image[w].hw < 2 THEN found[i].arg = Flags(macho.image[w].hw)
                 ELSE found[i].arg \in {<<to_strings(0)>>, Flags(macho.image[w].hw - 2)}
        <3>1. w \in writes /\ \A at \in writes : w >= at
            <4>1. writes \subseteq 0 .. begin + foff /\ begin + foff \in Nat
                BY <2>1
            <4> HIDE DEF writes
            <4>2. \E x \in writes : \A y \in writes : x >= y
                BY <4>1, <2>3, GreatestNumber
            <4> QED BY <4>2 DEF Max
        <3>2. w \in body /\ macho.image[w].rd = 0
            <4>1. macho.image[w].op # "bl"
                BY <2>3 DEF isMovWideImm
            <4> HIDE DEF w, body
            <4> QED BY <4>1, <3>1
        <3>3. w \in movs
            <4> HIDE DEF w, body
            <4> QED BY <3>2, <2>3 DEF isMovWideImmTo
        <3>4. \A at \in movs : at <= w
            <4>1. movs \subseteq Int /\ w \in Int
                BY <2>1, <3>2
            <4> HIDE DEF w, movs, writes
            <4> QED BY <4>1, <2>2, <3>1
        <3>5. PICK val \in decodeMovWideImm(macho.image[w]) : found[i].arg = <<to_strings(val)>>
            <4> HIDE DEF w, movs
            <4> QED BY <2>1, <3>3, <3>4, SMTT(60)
        <3>6. macho.image[w].imm \in Nat /\ macho.image[w].hw \in Nat
            <4>1. /\ macho \in Files /\ WellFormed(macho) /\ Asserted(macho)
                  /\ found[i].pc \in TextOf(macho)
                BY <1>1, ReportIs
            <4>2. IsLinked(macho)
                BY <4>1, ToolsAssumption
            <4>3. /\ textSeg(macho).fileoff .. textSeg(macho).fileoff + textSeg(macho).filesize - 1
                        \subseteq DOMAIN macho.image
                  /\ \A at \in DOMAIN macho.image : isMovWideImm(macho.image[at]) =>
                         macho.image[at].imm \in Nat /\ macho.image[at].hw \in Nat
                BY <4>1, <4>2 DEF IsLinked, Asserted, isMovWideImm
            <4>4. textSeg(macho).filesize \in Nat
                BY <4>1, TextNumbers
            <4>5. w \in DOMAIN macho.image
                <5>1. w \in begin .. begin + textSeg(macho).filesize - 1
                    <6>1. w \in begin + first .. begin + foff - 1
                        BY <3>2
                    <6> HIDE DEF w
                    <6>2. foff \in Nat /\ first \in Nat /\ begin \in Nat /\ foff <= textSeg(macho).filesize
                        BY <2>1, <1>1
                    <6> QED BY ONLY <6>1, <6>2, <4>4
                <5> QED BY <5>1, <4>3, <1>1
            <4> HIDE DEF w
            <4> QED BY <4>3, <4>5, <2>3
        <3> HIDE DEF w
        <3>7. IF macho.image[w].hw < 2
                THEN to_strings(val) = to_strings(Shifted(macho.image[w].imm, macho.image[w].hw))
                ELSE to_strings(val) \in
                        {to_strings(0), to_strings(Shifted(macho.image[w].imm, macho.image[w].hw - 2))}
            BY <3>6, FlagsOfMov
        <3> QED BY <3>5, <3>7
    <2>4. ASSUME \A at \in body : ~isMovWideImmTo(macho.image[at], 0)
          PROVE  found[i].arg = <<>>
        BY <2>1, <2>4, SMTT(60)
    <2> HIDE DEF w
    <2> QED BY <2>3, <2>4 DEF w
<1>2. CallInv => ArgumentIsLastWrite
    BY <1>1 DEF ArgumentIsLastWrite, OffsetOf
<1> QED BY <1>2, CallsAreReported, PTL

\* The entries of the indirect table are numbered, and are symbols or not.
LEMMA EntriesAre ==
    ASSUME NEW m \in Files, WellFormed(m), symtab(m) # nullptr, dysymtab(m) # nullptr
    PROVE  /\ DOMAIN indirect_syms(m) = 1 .. Len(dysymtab(m).indirect)
           /\ Len(dysymtab(m).indirect) \in Nat
           /\ \A i \in DOMAIN indirect_syms(m) :
                 \/ indirect_syms(m)[i] = strayNList
                 \/ \E j \in DOMAIN symtab(m).nlists : indirect_syms(m)[i] = symtab(m).nlists[j]
<1>1. IsList(dysymtab(m).indirect)
    BY ToolsAssumption DEF IsCounted
<1>2. dysymtab(m).indirect \in Seq(Range(dysymtab(m).indirect))
    BY <1>1 DEF IsList
<1>3. DOMAIN indirect_syms(m) = DOMAIN dysymtab(m).indirect
    BY DEF indirect_syms, indirect_syms_idxes, indirect_syms_idxes_raw
<1>4. nlists(m) = symtab(m).nlists
    BY DEF nlists
<1>5. \A i \in DOMAIN indirect_syms(m) :
         \/ indirect_syms(m)[i] = strayNList
         \/ \E j \in DOMAIN nlists(m) : indirect_syms(m)[i] = nlists(m)[j]
    BY DEF indirect_syms, indirect_syms_idxes
<1> QED BY <1>2, <1>3, <1>4, <1>5

\* The scan looks for the only stub that is bound to an imported symbol, as many
\* stubs further on as entries of the table precede the section's.
LEMMA StubIsBound ==
    ASSUME NEW m \in Files, WellFormed(m), Asserted(m), NEW name,
           stub_sect(textSeg(m)).reserved2 = WordsPerStub,
           symtab(m) # nullptr, dysymtab(m) # nullptr,
           1 \in DOMAIN segmentNamesMap(m), segmentNamesMap(m)[1] = "__TEXT",
           NEW target, BoundStubs(m, name) = {target},
           ~SearchStrays(m, name),
           \A i \in DOMAIN indirect_syms(m) :
               i <= stub_sect(textSeg(m)).reserved1 => indirect_syms(m)[i].name # name,
           \A i \in DOMAIN symtab(m).nlists :
               symtab(m).nlists[i].name = name => isUndefined(symtab(m).nlists[i])
    PROVE  /\ Matches(m, name) # {}
           /\ StubAddress(m, name) = target + stub_sect(textSeg(m)).reserved1 * WordsPerStub
<1> DEFINE sect == stub_sect(textSeg(m))
           syms == indirect_syms(m)
           names == segmentNamesMap(m)
           hits == Matches(m, name)
           bound == {j \in 0 .. sect.stubs - 1 :
                       sect.reserved1 + j + 1 \in DOMAIN syms
                         /\ syms[sect.reserved1 + j + 1].name = name}
<1>1. BoundStubs(m, name) = {sect.addr + k * sect.reserved2 : k \in bound}
    BY DEF BoundStubs
<1>2. hits # {} => StubAddress(m, name) = sect.addr + (Min(hits) - 1) * WordsPerStub
    BY DEF StubAddress, symbol_indir_idx, get_index_in
<1>3. /\ sect.addr \in Nat /\ sect.stubs \in Nat /\ sect.reserved1 \in Nat
      /\ WordsPerStub \in Nat
    BY TextNumbers, ToolsAssumption
<1>4. DOMAIN syms = 1 .. Len(dysymtab(m).indirect) /\ Len(dysymtab(m).indirect) \in Nat
    BY EntriesAre
<1>5. \A i \in DOMAIN syms : syms[i] # strayNList /\ syms[i].name = name => i \in hits
    <2>1. ASSUME NEW i \in DOMAIN syms, syms[i] # strayNList, syms[i].name = name
          PROVE  i \in hits
        <3>1. PICK j \in DOMAIN symtab(m).nlists : syms[i] = symtab(m).nlists[j]
            BY <2>1, EntriesAre
        <3>2. segmentName(syms[i], names) = "__TEXT"
            BY <2>1, <3>1 DEF isUndefined, segmentName
        <3> QED BY <2>1, <3>2 DEF Matches
    <2> QED BY <2>1
<1>6. hits \subseteq DOMAIN syms /\ \A i \in hits : syms[i].name = name
    BY DEF Matches
<1>7. /\ \A i \in DOMAIN syms : i <= sect.reserved1 => syms[i].name # name
      /\ sect.reserved2 = WordsPerStub
    OBVIOUS
<1>8. bound # {}
    BY <1>1
<1>9. \A j : j \in bound <=> /\ j \in 0 .. sect.stubs - 1
                             /\ sect.reserved1 + j + 1 \in DOMAIN syms
                             /\ syms[sect.reserved1 + j + 1].name = name
    OBVIOUS
<1>10. ASSUME NEW i \in DOMAIN syms, syms[i] = strayNList PROVE \E j \in hits : j <= i
    <2>1. PICK j \in hits : ~(i < j)
        BY <1>10 DEF SearchStrays
    <2>2. j \in Int /\ i \in Int
        BY <1>4, <1>6
    <2> QED BY <2>1, <2>2
<1> HIDE DEF hits, bound, syms, names, sect
<1>11. PICK j \in bound : TRUE
    BY <1>8
<1> DEFINE at == sect.reserved1 + j + 1
<1>12. j \in 0 .. sect.stubs - 1 /\ at \in DOMAIN syms /\ syms[at].name = name
    BY <1>9, <1>11
<1>13. PICK hit \in hits : hit <= at
    <2>1. CASE syms[at] = strayNList
        BY <1>10, <1>12, <2>1
    <2>2. CASE syms[at] # strayNList
        <3>1. at \in hits /\ at \in Int
            BY <1>4, <1>5, <1>12, <2>2
        <3> QED BY <3>1
    <2> QED BY <2>1, <2>2
<1> DEFINE first == Min(hits)
<1>14. first \in hits /\ first <= hit /\ first \in DOMAIN syms /\ syms[first].name = name
    <2>1. hits \subseteq Nat /\ hits # {}
        BY <1>4, <1>6, <1>13
    <2>2. first \in hits /\ \A y \in hits : first <= y
        BY <2>1, LeastOf
    <2> QED BY <2>2, <1>6, <1>13
<1> HIDE DEF first
<1> DEFINE k == first - 1 - sect.reserved1
<1>15. /\ first \in Nat \ {0} /\ k \in 0 .. sect.stubs - 1
       /\ sect.reserved1 + k + 1 = first /\ first - 1 = k + sect.reserved1
    <2>1. first \in Nat \ {0} /\ hit \in Nat /\ j \in Int /\ ~(first <= sect.reserved1)
        BY <1>4, <1>6, <1>7, <1>12, <1>13, <1>14
    <2> QED BY <2>1, <1>3, <1>12, <1>13, <1>14
<1> HIDE DEF k
<1>16. k \in bound
    BY <1>9, <1>14, <1>15
<1>17. sect.addr + k * WordsPerStub = target
    <2>1. sect.addr + k * sect.reserved2 \in {sect.addr + l * sect.reserved2 : l \in bound}
        BY <1>16
    <2> QED BY <2>1, <1>1, <1>7
<1>18. sect.addr + (first - 1) * WordsPerStub = target + sect.reserved1 * WordsPerStub
    <2>1. k \in Nat
        BY <1>15
    <2>2. (k + sect.reserved1) * WordsPerStub = k * WordsPerStub + sect.reserved1 * WordsPerStub
        BY ONLY <2>1, <1>3
    <2>3. k * WordsPerStub \in Nat /\ sect.reserved1 * WordsPerStub \in Nat
        BY ONLY <2>1, <1>3
    <2> QED BY ONLY <2>2, <2>3, <1>3, <1>15, <1>17
<1>19. hits # {}
    BY <1>14
<1> QED BY <1>2, <1>18, <1>19 DEF first, hits, sect

\* A symbol that is found is one of the file's, and what prints it is undefined.
LEMMA FoundIsUndefined ==
    ASSUME NEW m \in Files, NEW name, IsScanned(m, name), dysymtab(m) # nullptr
    PROVE  \E i \in DOMAIN symtab(m).nlists :
               symtab(m).nlists[i].name = name /\ isUndefined(symtab(m).nlists[i])
<1> DEFINE first == Min(Matches(m, name))
<1>1. /\ WellFormed(m) /\ symtab(m) # nullptr /\ Matches(m, name) # {}
      /\ isUndefined(symbol_nl(m, name))
    BY DEF IsScanned, IsFound, PrintsSymbol
<1>2. /\ DOMAIN indirect_syms(m) \subseteq Nat \ {0}
      /\ \A i \in DOMAIN indirect_syms(m) :
            \/ indirect_syms(m)[i] = strayNList
            \/ \E j \in DOMAIN symtab(m).nlists : indirect_syms(m)[i] = symtab(m).nlists[j]
    BY <1>1, EntriesAre
<1>3. first \in Matches(m, name)
    <2>1. Matches(m, name) \subseteq Nat
        BY <1>2 DEF Matches
    <2> QED BY <1>1, <2>1, LeastOf
<1>4. symbol_nl(m, name) = indirect_syms(m)[first]
    <2>1. first \in Nat
        BY <1>2, <1>3 DEF Matches
    <2> HIDE DEF first
    <2>2. (first - 1) + 1 = first
        BY <2>1
    <2>3. symbol_indir_idx(m, name) = first - 1
        BY <1>1 DEF symbol_indir_idx, get_index_in, first
    <2> QED BY <2>2, <2>3 DEF symbol_nl
<1>5. /\ first \in DOMAIN indirect_syms(m) /\ indirect_syms(m)[first] # strayNList
      /\ indirect_syms(m)[first].name = name
    <2> HIDE DEF first
    <2> QED BY <1>3 DEF Matches
<1> HIDE DEF first
<1>6. PICK j \in DOMAIN symtab(m).nlists : indirect_syms(m)[first] = symtab(m).nlists[j]
    BY <1>2, <1>5
<1> QED BY <1>1, <1>4, <1>5, <1>6

\* The calls reported of an imported symbol are the calls of its stub, and only
\* such a symbol is scanned for.
THEOREM CallsAreFound == ToolsSpec => []FindsCalls
<1>1. ASSUME CallInv, tool = "callfinder", phase = "done", Asserted(macho),
             stub_sect(textSeg(macho)).reserved2 = WordsPerStub,
             symtab(macho) # nullptr, dysymtab(macho) # nullptr,
             1 \in DOMAIN segmentNamesMap(macho), segmentNamesMap(macho)[1] = "__TEXT",
             NEW target, BoundStubs(macho, symbol_name) = {target},
             \A i \in DOMAIN indirect_syms(macho) :
                 i <= stub_sect(textSeg(macho)).reserved1 =>
                     indirect_syms(macho)[i].name # symbol_name,
             \A i \in DOMAIN symtab(macho).nlists :
                 symtab(macho).nlists[i].name = symbol_name =>
                     isUndefined(symtab(macho).nlists[i])
      PROVE  /\ res
             /\ {found[i].pc : i \in DOMAIN found}
                  = {at \in TextOf(macho) :
                        isBLTo(macho.image[OffsetOf(macho, at)], at,
                               target + stub_sect(textSeg(macho)).reserved1 * WordsPerStub)}
    <2> DEFINE found_stub == target + stub_sect(textSeg(macho)).reserved1 * WordsPerStub
    <2>1. macho \in Files
        BY <1>1 DEF CallInv
    <2>2. WellFormed(macho) /\ (res => IsScanned(macho, symbol_name))
        BY <1>1 DEF CallInv, HasScanned, IsScanned
    <2>3. ~SearchStrays(macho, symbol_name) =>
              Matches(macho, symbol_name) # {} /\ StubAddress(macho, symbol_name) = found_stub
        BY <1>1, <2>1, <2>2, StubIsBound
    <2>4. ~SearchStrays(macho, symbol_name)
        <3>1. CASE res
            BY <2>2, <3>1 DEF IsScanned, IsFound
        <3>2. CASE ~res
            BY <1>1, <3>2 DEF CallInv
        <3> QED BY <3>1, <3>2
    <2>5. res
        BY <1>1, <2>3, <2>4 DEF CallInv
    <2> HIDE DEF found_stub
    <2>6. /\ symbol_stub_addr = found_stub /\ pc = textSeg(macho).vmaddr + textSeg(macho).filesize
          /\ {found[i].pc : i \in DOMAIN found} = CallsBelow(macho, symbol_stub_addr, pc)
        BY <1>1, <2>3, <2>4, <2>5 DEF CallInv, HasScanned
    <2>7. ASSUME NEW at \in TextOf(macho) PROVE at < pc
        <3>1. textSeg(macho).vmaddr \in Nat /\ textSeg(macho).filesize \in Nat
            BY <1>1, <2>1, <2>2, TextNumbers
        <3> QED BY <3>1, <2>6 DEF TextOf
    <2> QED BY <2>5, <2>6, <2>7 DEF CallsBelow, found_stub
<1>2. ASSUME CallInv, res, dysymtab(macho) # nullptr
      PROVE  \E i \in DOMAIN symtab(macho).nlists :
                 /\ symtab(macho).nlists[i].name = symbol_name
                 /\ isUndefined(symtab(macho).nlists[i])
    <2>1. macho \in Files /\ IsScanned(macho, symbol_name)
        BY <1>2 DEF CallInv, HasScanned
    <2> QED BY <1>2, <2>1, FoundIsUndefined
<1>3. CallInv => FindsCalls
    <2> DEFINE sect == stub_sect(textSeg(macho))
               syms == symtab(macho).nlists
               stubs == BoundStubs(macho, symbol_name)
               Named == {i \in DOMAIN syms : syms[i].name = symbol_name}
    <2> SUFFICES
            ASSUME CallInv, tool = "callfinder", phase = "done", Asserted(macho),
                   sect.reserved2 = WordsPerStub,
                   symtab(macho) # nullptr, dysymtab(macho) # nullptr,
                   1 \in DOMAIN segmentNamesMap(macho), segmentNamesMap(macho)[1] = "__TEXT",
                   NEW target \in stubs, stubs = {target},
                   \A i \in DOMAIN indirect_syms(macho) :
                       i <= sect.reserved1 => indirect_syms(macho)[i].name # symbol_name
            PROVE  /\ (\A i \in Named : isUndefined(syms[i])) =>
                         /\ res
                         /\ {found[i].pc : i \in DOMAIN found}
                              = {at \in TextOf(macho) : \E s \in stubs :
                                   isBLTo(macho.image[OffsetOf(macho, at)], at,
                                          s + sect.reserved1 * WordsPerStub)}
                   /\ res => \E i \in Named : isUndefined(syms[i])
        BY DEF FindsCalls, TextOf, OffsetOf
    <2>1. ASSUME \A i \in Named : isUndefined(syms[i])
          PROVE  /\ res
                 /\ {found[i].pc : i \in DOMAIN found}
                      = {at \in TextOf(macho) :
                            isBLTo(macho.image[OffsetOf(macho, at)], at,
                                   target + sect.reserved1 * WordsPerStub)}
        <3>1. \A i \in DOMAIN symtab(macho).nlists :
                  symtab(macho).nlists[i].name = symbol_name =>
                      isUndefined(symtab(macho).nlists[i])
            BY <2>1
        <3> QED BY <3>1, <1>1
    <2>2. \A at : (\E s \in stubs :
                        isBLTo(macho.image[OffsetOf(macho, at)], at,
                               s + sect.reserved1 * WordsPerStub))
                  <=> isBLTo(macho.image[OffsetOf(macho, at)], at,
                             target + sect.reserved1 * WordsPerStub)
        OBVIOUS
    <2>3. res => \E i \in Named : isUndefined(syms[i])
        BY <1>2
    <2> QED BY <2>1, <2>2, <2>3
<1> QED BY <1>3, CallsAreReported, PTL

-----------------------------------------------------------------------------
(* The walk over the load commands *)

\* Where the iterator may stand, and what it finds.
Places(m) == DOMAIN m.at \cup {lc_cend(m)}
Commands(m) == {m.at[off] : off \in DOMAIN m.at}

\* From a place on: the command there and those behind it.
IsWalkOf(m, c) ==
    /\ c \in [Places(m) -> Seq(Commands(m))]
    /\ c[lc_cend(m)] = <<>>
    /\ \A off \in DOMAIN m.at :
          /\ After(m, off) \in Places(m)
          /\ c[off] = <<m.at[off]>> \o c[After(m, off)]

\* The places of a well-formed file.
LEMMA PlacesAre ==
    ASSUME NEW m, m.sizeofcmds \in Nat, WellFormed(m)
    PROVE  /\ lc_cend(m) \in Nat /\ lc_cend(m) \notin DOMAIN m.at
           /\ Places(m) \subseteq 0 .. lc_cend(m) /\ 0 \in Places(m)
           /\ \A off \in DOMAIN m.at :
                 After(m, off) \in Places(m) /\ After(m, off) > off /\ m.at[off] \in Commands(m)
<1>1. lc_cend(m) \in Nat
    BY DEF lc_cend
<1>2. /\ DOMAIN m.at \subseteq 0 .. lc_cend(m) - 1 /\ 0 \in Places(m)
      /\ \A off \in DOMAIN m.at : m.at[off].cmdsize \in Nat \ {0} /\ After(m, off) \in Places(m)
    BY DEF WellFormed, Places, lc_cbegin
<1>3. lc_cend(m) \notin DOMAIN m.at /\ Places(m) \subseteq 0 .. lc_cend(m)
    BY <1>1, <1>2 DEF Places
<1>4. ASSUME NEW off \in DOMAIN m.at PROVE After(m, off) > off
    <2>1. off \in Nat /\ m.at[off].cmdsize \in Nat \ {0}
        BY <1>1, <1>2
    <2> QED BY <2>1 DEF After
<1> QED BY <1>1, <1>2, <1>3, <1>4 DEF Commands

\* The walk exists: it is built from the end of the table back.
LEMMA WalkExists ==
    ASSUME NEW m, m.sizeofcmds \in Nat, WellFormed(m)
    PROVE  \E c : IsWalkOf(m, c)
<1> DEFINE n == lc_cend(m)
           D == Places(m)
           S == [D -> Seq(Commands(m))]
           base == [off \in D |-> <<>>]
           With(g, off) == [g EXCEPT ![off] = <<m.at[off]>> \o g[After(m, off)]]
           step == [x \in S \X (1 .. n) |->
                      IF n - x[2] \in DOMAIN m.at THEN With(x[1], n - x[2]) ELSE x[1]]
<1>1. /\ n \in Nat /\ n \notin DOMAIN m.at /\ D \subseteq 0 .. n /\ D = DOMAIN m.at \cup {n}
      /\ \A off \in DOMAIN m.at :
            After(m, off) \in D /\ After(m, off) > off /\ m.at[off] \in Commands(m)
    BY PlacesAre DEF Places
<1>2. base \in S
    <2>1. <<>> \in Seq(Commands(m))
        BY EmptySeq
    <2> QED BY <2>1
<1>3. ASSUME NEW g \in S, NEW off \in DOMAIN m.at PROVE With(g, off) \in S
    <2>1. off \in D /\ g[After(m, off)] \in Seq(Commands(m)) /\ <<m.at[off]>> \in Seq(Commands(m))
        BY <1>1
    <2>2. <<m.at[off]>> \o g[After(m, off)] \in Seq(Commands(m))
        BY <2>1, ConcatProperties
    <2> DEFINE v == <<m.at[off]>> \o g[After(m, off)]
    <2> HIDE DEF v
    <2>3. [g EXCEPT ![off] = v] \in [D -> Seq(Commands(m))]
        BY <2>1, <2>2 DEF v
    <2> QED BY <2>3 DEF v
<1> HIDE DEF n, D
<1>4. step \in [S \X (1 .. n) -> S]
    <2> HIDE DEF S, With
    <2>1. ASSUME NEW x \in S \X (1 .. n)
          PROVE  (IF n - x[2] \in DOMAIN m.at THEN With(x[1], n - x[2]) ELSE x[1]) \in S
        <3>1. x[1] \in S
            OBVIOUS
        <3> QED BY <3>1, <1>3
    <2> QED BY <2>1
<1>5. PICK f \in [0 .. n -> S] : IsRecursion(f, base, n, step)
    <2> HIDE DEF S, step, base
    <2> QED BY <1>1, <1>2, <1>4, RecursionExists
<1>6. /\ f[0] = base
      /\ \A i \in 1 .. n :
            f[i] = IF n - i \in DOMAIN m.at THEN With(f[i - 1], n - i) ELSE f[i - 1]
    <2> HIDE DEF base, S
    <2>1. f[0] = base /\ \A i \in 1 .. n : f[i] = step[<<f[i - 1], i>>]
        BY <1>5 DEF IsRecursion
    <2>2. ASSUME NEW i \in 1 .. n
          PROVE  f[i] = IF n - i \in DOMAIN m.at THEN With(f[i - 1], n - i) ELSE f[i - 1]
        <3>1. f[i - 1] \in S
            BY <1>1
        <3> HIDE DEF With
        <3>2. step[<<f[i - 1], i>>] = IF n - i \in DOMAIN m.at THEN With(f[i - 1], n - i) ELSE f[i - 1]
            BY <3>1
        <3> HIDE DEF step
        <3> QED BY <2>1, <3>2
    <2> QED BY <2>1, <2>2
<1> DEFINE Solved(i) ==
               /\ f[i][n] = <<>>
               /\ \A off \in DOMAIN m.at :
                     off >= n - i => f[i][off] = <<m.at[off]>> \o f[i][After(m, off)]
           P == {i \in Nat : i <= n => Solved(i)}
<1>7. 0 \in P
    <2>1. f[0][n] = <<>>
        BY <1>1, <1>6
    <2>2. \A off \in DOMAIN m.at : ~(off >= n - 0)
        BY <1>1
    <2> QED BY <2>1, <2>2
<1>8. ASSUME NEW i \in Nat, i \in P PROVE i + 1 \in P
    <2> SUFFICES ASSUME i + 1 <= n PROVE Solved(i + 1)
        OBVIOUS
    <2>1. i + 1 \in 1 .. n /\ (i + 1) - 1 = i /\ i \in 0 .. n /\ Solved(i)
        BY <1>1, <1>8, SMTT(60)
    <2> DEFINE o == n - (i + 1)
               g == f[i]
               h == f[i + 1]
    <2>2. g \in [D -> Seq(Commands(m))]
        BY <2>1
    <2>3. h = IF o \in DOMAIN m.at THEN [g EXCEPT ![o] = <<m.at[o]>> \o g[After(m, o)]] ELSE g
        BY <2>1, <1>6
    <2>4. /\ g[n] = <<>>
          /\ \A off \in DOMAIN m.at : off >= n - i => g[off] = <<m.at[off]>> \o g[After(m, off)]
        BY <2>1
    <2>5. \A off \in D : off # o => h[off] = g[off]
        <3> HIDE DEF g, h, o
        <3> QED BY <2>2, <2>3
    <2>6. o \in DOMAIN m.at => h[o] = <<m.at[o]>> \o g[After(m, o)]
        <3>1. DOMAIN m.at \subseteq D
            BY <1>1
        <3> HIDE DEF g, h, o
        <3> QED BY <2>2, <2>3, <3>1
    <2>7. o \in Int /\ o < n /\ o = n - i - 1
        BY <2>1, <1>1
    <2> HIDE DEF g, h, o
    <2>8. h[n] = <<>>
        BY <2>4, <2>5, <2>7, <1>1
    <2>9. ASSUME NEW off \in DOMAIN m.at, off >= o PROVE h[off] = <<m.at[off]>> \o h[After(m, off)]
        <3>1. After(m, off) \in D /\ After(m, off) > off /\ off \in D /\ off \in Int
              /\ After(m, off) \in Int
            BY <1>1
        <3>2. After(m, off) # o /\ h[After(m, off)] = g[After(m, off)]
            BY <3>1, <2>5, <2>7, <2>9
        <3>3. CASE off = o
            BY <3>2, <3>3, <2>6
        <3>4. CASE off # o
            <4>1. off >= n - i
                BY <3>1, <3>4, <2>1, <2>7, <2>9, <1>1
            <4>2. h[off] = g[off] /\ g[off] = <<m.at[off]>> \o g[After(m, off)]
                BY <4>1, <3>1, <3>4, <2>4, <2>5
            <4> QED BY <4>2, <3>2
        <3> QED BY <3>3, <3>4
    <2> QED BY <2>8, <2>9 DEF h, o
<1>9. Solved(n)
    <2>1. Nat \subseteq P
        <3> HIDE DEF P
        <3> QED BY <1>7, <1>8, Induction
    <2>2. n <= n
        BY <1>1
    <2> HIDE DEF Solved
    <2> QED BY <2>1, <2>2, <1>1
<1>10. IsWalkOf(m, f[n])
    <2>0. n \in 0 .. n /\ n - n = 0 /\ \A off \in DOMAIN m.at : off >= n - n
        BY <1>1
    <2>1. f[n] \in S
        <3> HIDE DEF S
        <3> QED BY <2>0
    <2>2. \A off \in DOMAIN m.at : f[n][off] = <<m.at[off]>> \o f[n][After(m, off)]
        BY <1>9, <2>0
    <2> DEFINE c == f[n]
    <2>3. /\ c \in [D -> Seq(Commands(m))] /\ c[n] = <<>>
          /\ \A off \in DOMAIN m.at : After(m, off) \in D /\ c[off] = <<m.at[off]>> \o c[After(m, off)]
        BY <2>1, <2>2, <1>1, <1>9
    <2> HIDE DEF c
    <2>4. IsWalkOf(m, c)
        BY <2>3 DEF IsWalkOf, n, D
    <2> QED BY <2>4 DEF c
<1> QED BY <1>10

\* It is the one the code's iterator makes.
LEMMA CommandsAre ==
    ASSUME NEW m, m.sizeofcmds \in Nat, WellFormed(m)
    PROVE  /\ IsWalkOf(m, commandsFrom(m))
           /\ loadCommands(m) = commandsFrom(m)[0] /\ loadCommands(m) \in Seq(Commands(m))
<1> DEFINE n == lc_cend(m)
           D == Places(m)
           Chosen(g) == g = [off \in DOMAIN m.at \cup {lc_cend(m)} |->
                               IF off = lc_cend(m) THEN <<>>
                               ELSE <<m.at[off]>> \o g[After(m, off)]]
           c == CHOOSE g : Chosen(g)
<1>1. /\ n \in Nat /\ n \notin DOMAIN m.at /\ D \subseteq 0 .. n /\ D = DOMAIN m.at \cup {n}
      /\ 0 \in D
      /\ \A off \in DOMAIN m.at :
            After(m, off) \in D /\ After(m, off) > off /\ m.at[off] \in Commands(m)
    BY PlacesAre DEF Places
<1>2. \E g : Chosen(g)
    <2>1. PICK g : IsWalkOf(m, g)
        BY WalkExists
    <2>2. /\ DOMAIN g = D /\ g = [off \in D |-> g[off]] /\ g[n] = <<>>
          /\ \A off \in DOMAIN m.at : g[off] = <<m.at[off]>> \o g[After(m, off)]
        BY <2>1 DEF IsWalkOf
    <2> HIDE DEF D
    <2>3. ASSUME NEW off \in D
          PROVE  g[off] = IF off = n THEN <<>> ELSE <<m.at[off]>> \o g[After(m, off)]
        BY <2>2, <1>1
    <2>4. g = [off \in D |-> IF off = n THEN <<>> ELSE <<m.at[off]>> \o g[After(m, off)]]
        BY <2>2, <2>3
    <2> QED BY <2>4 DEF D, Places
<1>3. Chosen(c)
    <2> HIDE DEF Chosen
    <2> QED BY <1>2
<1>4. commandsFrom(m) = c
    BY DEF commandsFrom
<1> HIDE DEF c
<1>5. /\ DOMAIN c = D /\ c = [off \in D |-> c[off]] /\ c[n] = <<>>
      /\ \A off \in DOMAIN m.at : c[off] = <<m.at[off]>> \o c[After(m, off)]
    <2>1. c = [off \in D |-> IF off = n THEN <<>> ELSE <<m.at[off]>> \o c[After(m, off)]]
        BY <1>3 DEF Places
    <2> HIDE DEF Chosen, D, n
    <2>2. DOMAIN c = D
        BY ONLY <2>1
    <2>3. \A off \in D : c[off] = IF off = n THEN <<>> ELSE <<m.at[off]>> \o c[After(m, off)]
        BY ONLY <2>1
    <2>4. c = [off \in D |-> c[off]]
        BY ONLY <2>1, <2>2
    <2> QED BY <2>2, <2>3, <2>4, <1>1
<1> HIDE DEF n, D, Chosen
<1>6. \A off \in D : c[off] \in Seq(Commands(m))
    <2> DEFINE P == {k \in Nat : \A off \in D : n - off <= k => c[off] \in Seq(Commands(m))}
    <2>0. c[n] \in Seq(Commands(m))
        BY <1>5, EmptySeq
    <2>1. 0 \in P
        <3>1. \A off \in D : n - off <= 0 => off = n
            BY <1>1
        <3> QED BY <3>1, <2>0
    <2>2. ASSUME NEW k \in Nat, k \in P PROVE k + 1 \in P
        <3>1. ASSUME NEW off \in D, n - off <= k + 1 PROVE c[off] \in Seq(Commands(m))
            <4>1. CASE off = n
                BY <4>1, <2>0
            <4>2. CASE off # n
                <5>1. off \in DOMAIN m.at
                    BY <4>2, <1>1
                <5>2. /\ After(m, off) \in D /\ After(m, off) > off /\ m.at[off] \in Commands(m)
                      /\ off \in Int /\ After(m, off) \in Int
                    BY <5>1, <1>1
                <5>3. n - After(m, off) <= k
                    BY <5>2, <3>1, <1>1
                <5>4. c[After(m, off)] \in Seq(Commands(m))
                    BY <5>2, <5>3, <2>2
                <5>5. <<m.at[off]>> \in Seq(Commands(m))
                    BY <5>2
                <5> QED BY <5>1, <5>4, <5>5, <1>5, ConcatProperties, ZenonT(60)
            <4> QED BY <4>1, <4>2
        <3> QED BY <3>1
    <2>3. Nat \subseteq P
        <3> HIDE DEF P
        <3> QED BY <2>1, <2>2, Induction
    <2>4. ASSUME NEW off \in D PROVE c[off] \in Seq(Commands(m))
        <3>1. n - off \in Nat /\ n - off <= n - off
            BY <1>1
        <3>2. n - off \in P
            <4> HIDE DEF P
            <4> QED BY <3>1, <2>3
        <3> QED BY <3>1, <3>2
    <2> QED BY <2>4
<1>7. IsWalkOf(m, c)
    <2>1. c \in [D -> Seq(Commands(m))]
        BY <1>5, <1>6
    <2> QED BY <2>1, <1>1, <1>5 DEF IsWalkOf, n, D
<1>8. loadCommands(m) = c[0] /\ c[0] \in Seq(Commands(m))
    BY <1>1, <1>4, <1>6 DEF loadCommands, lc_cbegin
<1> QED BY <1>4, <1>7, <1>8

\* The commands of some types: kept one by one, in their order.
LEMMA KeptAre ==
    ASSUME NEW S, NEW lcs \in Seq(S), NEW types
    PROVE  /\ keptOfType(lcs, types) \in [0 .. Len(lcs) -> Seq(S)]
           /\ keptOfType(lcs, types)[0] = <<>>
           /\ \A i \in 1 .. Len(lcs) :
                 keptOfType(lcs, types)[i] =
                    IF lcs[i].cmd \in types THEN Append(keptOfType(lcs, types)[i - 1], lcs[i])
                    ELSE keptOfType(lcs, types)[i - 1]
<1> DEFINE n == Len(lcs)
           Next1(s, i) == IF lcs[i].cmd \in types THEN Append(s, lcs[i]) ELSE s
           step == [x \in Seq(S) \X (1 .. n) |-> Next1(x[1], x[2])]
           Chosen(g) == g = [i \in 0 .. Len(lcs) |->
                IF i = 0 THEN <<>>
                ELSE IF lcs[i].cmd \in types THEN Append(g[i - 1], lcs[i]) ELSE g[i - 1]]
           c == CHOOSE g : Chosen(g)
<1>1. n \in Nat /\ <<>> \in Seq(S)
    BY EmptySeq
<1>2. \A i \in 1 .. n : \A s \in Seq(S) : Next1(s, i) \in Seq(S)
    <2>1. \A i \in 1 .. n : lcs[i] \in S
        OBVIOUS
    <2> QED BY <2>1
<1> HIDE DEF n, Next1
<1>3. step \in [Seq(S) \X (1 .. n) -> Seq(S)]
    <2>1. ASSUME NEW x \in Seq(S) \X (1 .. n) PROVE Next1(x[1], x[2]) \in Seq(S)
        <3>1. x[1] \in Seq(S) /\ x[2] \in 1 .. n
            OBVIOUS
        <3> QED BY <3>1, <1>2
    <2> QED BY <2>1
<1>4. PICK f \in [0 .. n -> Seq(S)] : IsRecursion(f, <<>>, n, step)
    <2> HIDE DEF step
    <2> QED BY <1>1, <1>3, RecursionExists
<1>5. f[0] = <<>> /\ \A i \in 1 .. n : f[i] = Next1(f[i - 1], i)
    <2>1. f[0] = <<>> /\ \A i \in 1 .. n : f[i] = step[<<f[i - 1], i>>]
        BY <1>4 DEF IsRecursion
    <2>2. ASSUME NEW i \in 1 .. n PROVE f[i] = Next1(f[i - 1], i)
        <3>1. f[i - 1] \in Seq(S)
            BY <1>1
        <3>2. step[<<f[i - 1], i>>] = Next1(f[i - 1], i)
            BY <3>1
        <3> HIDE DEF step
        <3> QED BY <2>1, <3>2
    <2> QED BY <2>1, <2>2
<1>6. Chosen(f)
    <2>1. f = [i \in 0 .. n |-> f[i]]
        OBVIOUS
    <2>2. ASSUME NEW i \in 0 .. n PROVE f[i] = IF i = 0 THEN <<>> ELSE Next1(f[i - 1], i)
        BY <1>1, <1>5
    <2>3. f = [i \in 0 .. n |-> IF i = 0 THEN <<>> ELSE Next1(f[i - 1], i)]
        BY ONLY <2>1, <2>2
    <2> QED BY <2>3 DEF n, Next1
<1>7. Chosen(c)
    <2>1. \E g : Chosen(g)
        BY <1>6
    <2> HIDE DEF Chosen
    <2> QED BY <2>1
<1>8. keptOfType(lcs, types) = c
    BY DEF keptOfType
<1> HIDE DEF c
<1>9. /\ DOMAIN c = 0 .. n /\ c = [i \in 0 .. n |-> c[i]] /\ c[0] = <<>>
      /\ \A i \in 1 .. n : c[i] = Next1(c[i - 1], i)
    <2>1. c = [i \in 0 .. n |-> IF i = 0 THEN <<>> ELSE Next1(c[i - 1], i)]
        BY <1>7 DEF n, Next1
    <2> HIDE DEF Chosen
    <2>2. DOMAIN c = 0 .. n
        BY ONLY <2>1
    <2>3. \A i \in 0 .. n : c[i] = IF i = 0 THEN <<>> ELSE Next1(c[i - 1], i)
        BY ONLY <2>1
    <2>4. c = [i \in 0 .. n |-> c[i]]
        BY ONLY <2>1, <2>2
    <2>5. c[0] = <<>> /\ \A i \in 1 .. n : c[i] = Next1(c[i - 1], i)
        BY <2>3, <1>1
    <2> QED BY <2>2, <2>4, <2>5
<1> HIDE DEF Chosen
<1>10. \A i \in 0 .. n : c[i] \in Seq(S)
    <2> DEFINE P == {i \in Nat : i <= n => c[i] \in Seq(S)}
    <2>1. 0 \in P
        BY <1>1, <1>9
    <2>2. ASSUME NEW i \in Nat, i \in P PROVE i + 1 \in P
        <3> SUFFICES ASSUME i + 1 <= n PROVE c[i + 1] \in Seq(S)
            OBVIOUS
        <3>1. i + 1 \in 1 .. n /\ (i + 1) - 1 = i /\ c[i] \in Seq(S)
            BY <2>2, <1>1
        <3> QED BY <3>1, <1>2, <1>9
    <2>3. Nat \subseteq P
        <3> HIDE DEF P
        <3> QED BY <2>1, <2>2, Induction
    <2> QED BY <2>3
<1>11. c \in [0 .. n -> Seq(S)]
    BY <1>9, <1>10
<1> QED BY <1>8, <1>9, <1>11 DEF n, Next1

\* What is kept is a list of the commands.
LEMMA OfTypeIs ==
    ASSUME NEW m, m.sizeofcmds \in Nat, WellFormed(m), NEW types
    PROVE  OfType(m, types) \in Seq(Commands(m))
<1>1. loadCommands(m) \in Seq(Commands(m))
    BY CommandsAre
<1> DEFINE lcs == loadCommands(m)
<1>2. Len(lcs) \in 0 .. Len(lcs)
    BY <1>1
<1>3. keptOfType(lcs, types) \in [0 .. Len(lcs) -> Seq(Commands(m))]
    BY <1>1, KeptAre
<1>4. OfType(m, types) = keptOfType(lcs, types)[Len(lcs)]
    BY DEF OfType
<1> HIDE DEF lcs
<1> QED BY <1>2, <1>3, <1>4

\* A type that no command has makes no difference.
LEMMA WithoutType ==
    ASSUME NEW m, m.sizeofcmds \in Nat, WellFormed(m), NEW types, NEW more,
           OfType(m, more) = <<>>
    PROVE  OfType(m, types \cup more) = OfType(m, types)
<1> DEFINE lcs == loadCommands(m)
           n == Len(lcs)
           S == Commands(m)
           none == keptOfType(lcs, more)
           a == keptOfType(lcs, types \cup more)
           b == keptOfType(lcs, types)
<1>1. lcs \in Seq(S) /\ n \in Nat
    <2>1. lcs \in Seq(S)
        BY CommandsAre
    <2> HIDE DEF lcs
    <2> QED BY <2>1
<1>2. /\ none[n] = <<>> /\ OfType(m, types \cup more) = a[n] /\ OfType(m, types) = b[n]
    BY DEF OfType
<1> HIDE DEF lcs, S
<1>3. /\ none \in [0 .. n -> Seq(S)]
      /\ \A i \in 1 .. n : none[i] = IF lcs[i].cmd \in more THEN Append(none[i - 1], lcs[i])
                                     ELSE none[i - 1]
    BY <1>1, KeptAre
<1>4. /\ a[0] = <<>>
      /\ \A i \in 1 .. n : a[i] = IF lcs[i].cmd \in types \cup more THEN Append(a[i - 1], lcs[i])
                                  ELSE a[i - 1]
    BY <1>1, KeptAre
<1>5. /\ b[0] = <<>>
      /\ \A i \in 1 .. n : b[i] = IF lcs[i].cmd \in types THEN Append(b[i - 1], lcs[i])
                                  ELSE b[i - 1]
    BY <1>1, KeptAre
<1> HIDE DEF n, none, a, b
<1>6. \A i \in 0 .. n : none[i] = <<>>
    <2> DEFINE P == {k \in Nat : k <= n => none[n - k] = <<>>}
    <2>1. 0 \in P
        <3>1. n - 0 = n
            BY <1>1
        <3> QED BY <3>1, <1>2
    <2>2. ASSUME NEW k \in Nat, k \in P PROVE k + 1 \in P
        <3> SUFFICES ASSUME k + 1 <= n PROVE none[n - (k + 1)] = <<>>
            OBVIOUS
        <3> DEFINE i == n - k
        <3>1. i \in 1 .. n /\ i - 1 = n - (k + 1) /\ i - 1 \in 0 .. n /\ none[i] = <<>>
            BY <2>2, <1>1
        <3> HIDE DEF i
        <3>2. none[i - 1] \in Seq(S)
            BY <3>1, <1>3
        <3>3. Append(none[i - 1], lcs[i]) # <<>>
            BY <3>2
        <3> QED BY <3>1, <3>3, <1>3
    <2>3. Nat \subseteq P
        <3> HIDE DEF P
        <3> QED BY <2>1, <2>2, Induction
    <2>4. ASSUME NEW i \in 0 .. n PROVE none[i] = <<>>
        <3>1. n - i \in Nat /\ n - i <= n /\ n - (n - i) = i
            BY <1>1
        <3> QED BY <3>1, <2>3
    <2> QED BY <2>4
<1>7. ASSUME NEW i \in 1 .. n PROVE lcs[i].cmd \notin more
    <2>1. i \in 0 .. n /\ i - 1 \in 0 .. n
        BY <1>1
    <2>2. none[i] = <<>> /\ none[i - 1] \in Seq(S)
        BY <2>1, <1>3, <1>6
    <2>3. Append(none[i - 1], lcs[i]) # <<>>
        BY <2>2
    <2> QED BY <2>2, <2>3, <1>3
<1>8. n \in {k \in Nat : k <= n => a[k] = b[k]}
    <2> DEFINE P == {k \in Nat : k <= n => a[k] = b[k]}
    <2>1. 0 \in P
        BY <1>4, <1>5
    <2>2. ASSUME NEW k \in Nat, k \in P PROVE k + 1 \in P
        <3> SUFFICES ASSUME k + 1 <= n PROVE a[k + 1] = b[k + 1]
            OBVIOUS
        <3>1. k + 1 \in 1 .. n /\ (k + 1) - 1 = k /\ a[k] = b[k]
            BY <2>2, <1>1
        <3>2. lcs[k + 1].cmd \in types \cup more <=> lcs[k + 1].cmd \in types
            BY <3>1, <1>7
        <3> QED BY <3>1, <3>2, <1>4, <1>5
    <2>3. Nat \subseteq P
        <3> HIDE DEF P
        <3> QED BY <2>1, <2>2, Induction
    <2> QED BY <2>3, <1>1
<1>9. a[n] = b[n]
    BY <1>1, <1>8
<1> QED BY <1>2, <1>9

-----------------------------------------------------------------------------
(* The lines of the dump *)

\* A list of what a function makes of the elements of a list.
Mapped(f, s) == [i \in DOMAIN s |-> f[s[i]]]
Maps(f, T, X) == f \in [T -> X]

LEMMA MappedIs ==
    ASSUME NEW T, NEW X, NEW f, Maps(f, T, X), NEW s \in Seq(T)
    PROVE  /\ Mapped(f, s) \in Seq(X) /\ Len(Mapped(f, s)) = Len(s)
           /\ s = <<>> => Mapped(f, s) = <<>>
           /\ s # <<>> => /\ Mapped(f, s) # <<>>
                          /\ Head(Mapped(f, s)) = f[Head(s)]
                          /\ Tail(Mapped(f, s)) = Mapped(f, Tail(s))
<1> USE DEF Maps
<1>1. ASSUME NEW t \in Seq(T)
      PROVE  /\ Mapped(f, t) \in Seq(X) /\ Len(Mapped(f, t)) = Len(t)
             /\ \A i \in 1 .. Len(t) : Mapped(f, t)[i] = f[t[i]]
    <2>1. Mapped(f, t) = [i \in 1 .. Len(t) |-> f[t[i]]] /\ Len(t) \in Nat
        BY DEF Mapped
    <2>2. \A i \in 1 .. Len(t) : f[t[i]] \in X
        OBVIOUS
    <2> QED BY <2>1, <2>2
<1>2. CASE s = <<>>
    <2>1. Mapped(f, s) \in Seq(X) /\ Len(Mapped(f, s)) = 0
        BY <1>1, <1>2
    <2>2. Mapped(f, s) = <<>>
        BY <2>1, EmptySeq
    <2> QED BY <2>1, <2>2, <1>2
<1>3. CASE s # <<>>
    <2>1. /\ Head(s) = s[1] /\ Tail(s) \in Seq(T) /\ Len(Tail(s)) = Len(s) - 1
          /\ \A i \in 1 .. Len(Tail(s)) : Tail(s)[i] = s[i + 1]
        BY <1>3, HeadTailProperties
    <2>2. Len(s) \in Nat \ {0}
        BY <1>3, EmptySeq
    <2> DEFINE u == Mapped(f, s)
               v == Mapped(f, Tail(s))
    <2>3. u \in Seq(X) /\ Len(u) = Len(s) /\ \A i \in 1 .. Len(s) : u[i] = f[s[i]]
        BY <1>1
    <2>4. v \in Seq(X) /\ Len(v) = Len(s) - 1 /\ \A i \in 1 .. Len(s) - 1 : v[i] = f[s[i + 1]]
        <3>1. /\ v \in Seq(X) /\ Len(v) = Len(Tail(s))
              /\ \A i \in 1 .. Len(Tail(s)) : v[i] = f[Tail(s)[i]]
            BY <2>1, <1>1
        <3> HIDE DEF v
        <3> QED BY <3>1, <2>1, SMTT(60)
    <2> HIDE DEF u, v
    <2>5. u # <<>> /\ Head(u) = f[Head(s)]
        BY <2>1, <2>2, <2>3
    <2>6. Tail(u) \in Seq(X) /\ Len(Tail(u)) = Len(s) - 1 /\ \A i \in 1 .. Len(s) - 1 : Tail(u)[i] = u[i + 1]
        BY <2>3, <2>5, HeadTailProperties
    <2>7. \A i \in 1 .. Len(s) - 1 : Tail(u)[i] = v[i]
        <3>1. \A i \in 1 .. Len(s) - 1 : i + 1 \in 1 .. Len(s)
            BY <2>2
        <3> QED BY <3>1, <2>3, <2>4, <2>6
    <2>8. Tail(u) = v
        BY <2>4, <2>6, <2>7, SeqEqual
    <2> QED BY <2>3, <2>5, <2>8, <1>3 DEF u, v
<1> QED BY <1>2, <1>3

UndefLine(nl, map) == [line |-> "undef", name |-> nl.name, from |-> dylibName(nl, map)]

\* The lines of a set of elements.
NameLines(list, T) == {[line |-> list, name |-> e.name] : e \in T}
CommandLinesOf(T) == {[line |-> "lc", name |-> e.cmd] : e \in T}
UndefLinesOf(T, map) == {UndefLine(e, map) : e \in T}

\* The lines of a list of elements: what a record of an element's name makes.
LEMMA ListedIs ==
    ASSUME NEW list, NEW T, NEW s \in Seq(T)
    PROVE  /\ Listed(list, s) \in Seq(NameLines(list, T))
           /\ s = <<>> => Listed(list, s) = <<>>
           /\ s # <<>> => /\ Listed(list, s) # <<>>
                          /\ Head(Listed(list, s)) = [line |-> list, name |-> Head(s).name]
                          /\ Tail(Listed(list, s)) = Listed(list, Tail(s))
<1> DEFINE f == [e \in T |-> [line |-> list, name |-> e.name]]
           X == NameLines(list, T)
<1>1. Maps(f, T, X)
    BY DEF Maps, NameLines, CommandLinesOf, UndefLinesOf
<1>2. ASSUME NEW t \in Seq(T) PROVE Listed(list, t) = Mapped(f, t)
    <2>1. \A i \in DOMAIN t : t[i] \in T
        OBVIOUS
    <2>2. \A i \in DOMAIN t : [line |-> list, name |-> t[i].name] = f[t[i]]
        BY <2>1
    <2> HIDE DEF f
    <2> QED BY <2>2 DEF Listed, Mapped
<1>3. s # <<>> => Head(s) \in T /\ Tail(s) \in Seq(T)
    BY HeadTailProperties
<1>4. \A e \in T : f[e] = [line |-> list, name |-> e.name]
    OBVIOUS
<1> HIDE DEF f, X
<1>5. /\ Mapped(f, s) \in Seq(X)
      /\ s = <<>> => Mapped(f, s) = <<>>
      /\ s # <<>> => /\ Mapped(f, s) # <<>>
                     /\ Head(Mapped(f, s)) = f[Head(s)]
                     /\ Tail(Mapped(f, s)) = Mapped(f, Tail(s))
    <2>1. Mapped(f, s) \in Seq(X) /\ Len(Mapped(f, s)) = Len(s)
        BY <1>1, MappedIs
    <2>2. s = <<>> => Mapped(f, s) = <<>>
        BY <1>1, MappedIs, ZenonT(60)
    <2>3. s # <<>> => Mapped(f, s) # <<>>
        BY <1>1, MappedIs
    <2>4. s # <<>> => Head(Mapped(f, s)) = f[Head(s)]
        BY <1>1, MappedIs
    <2>5. s # <<>> => Tail(Mapped(f, s)) = Mapped(f, Tail(s))
        BY <1>1, MappedIs
    <2> QED BY ONLY <2>1, <2>2, <2>3, <2>4, <2>5
<1>6. Listed(list, s) = Mapped(f, s) /\ (s # <<>> => Listed(list, Tail(s)) = Mapped(f, Tail(s)))
    BY <1>2, <1>3
<1>7. s # <<>> => Head(Listed(list, s)) = [line |-> list, name |-> Head(s).name]
    <2> SUFFICES ASSUME s # <<>> PROVE Head(Listed(list, s)) = [line |-> list, name |-> Head(s).name]
        OBVIOUS
    <2>1. f[Head(s)] = [line |-> list, name |-> Head(s).name]
        BY <1>3, <1>4
    <2>2. Head(Listed(list, s)) = f[Head(s)]
        BY <1>5, <1>6
    <2> QED BY ONLY <2>1, <2>2
<1>8. s # <<>> => Listed(list, s) # <<>> /\ Tail(Listed(list, s)) = Listed(list, Tail(s))
    BY ONLY <1>5, <1>6
<1>9. s = <<>> => Listed(list, s) = <<>>
    BY ONLY <1>5, <1>6
<1>10. Listed(list, s) \in Seq(X)
    BY ONLY <1>5, <1>6
<1> QED BY <1>7, <1>8, <1>9, <1>10 DEF X

LEMMA CommandLinesAre ==
    ASSUME NEW T, NEW s \in Seq(T)
    PROVE  /\ CommandLines(s) \in Seq(CommandLinesOf(T))
           /\ Len(CommandLines(s)) = Len(s)
           /\ s = <<>> => CommandLines(s) = <<>>
           /\ s # <<>> => /\ CommandLines(s) # <<>>
                          /\ Head(CommandLines(s)) = [line |-> "lc", name |-> Head(s).cmd]
                          /\ Tail(CommandLines(s)) = CommandLines(Tail(s))
<1> DEFINE f == [e \in T |-> [line |-> "lc", name |-> e.cmd]]
           X == CommandLinesOf(T)
<1>1. Maps(f, T, X)
    BY DEF Maps, NameLines, CommandLinesOf, UndefLinesOf
<1>2. ASSUME NEW t \in Seq(T) PROVE CommandLines(t) = Mapped(f, t)
    <2>1. \A i \in DOMAIN t : t[i] \in T
        OBVIOUS
    <2>2. \A i \in DOMAIN t : [line |-> "lc", name |-> t[i].cmd] = f[t[i]]
        BY <2>1
    <2> HIDE DEF f
    <2> QED BY <2>2 DEF CommandLines, Mapped
<1>3. s # <<>> => Head(s) \in T /\ Tail(s) \in Seq(T)
    BY HeadTailProperties
<1>4. \A e \in T : f[e] = [line |-> "lc", name |-> e.cmd]
    OBVIOUS
<1> HIDE DEF f, X
<1>5. /\ Mapped(f, s) \in Seq(X) /\ Len(Mapped(f, s)) = Len(s)
      /\ s = <<>> => Mapped(f, s) = <<>>
      /\ s # <<>> => /\ Mapped(f, s) # <<>>
                     /\ Head(Mapped(f, s)) = f[Head(s)]
                     /\ Tail(Mapped(f, s)) = Mapped(f, Tail(s))
    <2>1. Mapped(f, s) \in Seq(X) /\ Len(Mapped(f, s)) = Len(s)
        BY <1>1, MappedIs
    <2>2. s = <<>> => Mapped(f, s) = <<>>
        BY <1>1, MappedIs, ZenonT(60)
    <2>3. s # <<>> => Mapped(f, s) # <<>>
        BY <1>1, MappedIs
    <2>4. s # <<>> => Head(Mapped(f, s)) = f[Head(s)]
        BY <1>1, MappedIs
    <2>5. s # <<>> => Tail(Mapped(f, s)) = Mapped(f, Tail(s))
        BY <1>1, MappedIs
    <2> QED BY ONLY <2>1, <2>2, <2>3, <2>4, <2>5
<1>6. /\ CommandLines(s) = Mapped(f, s)
      /\ s # <<>> => CommandLines(Tail(s)) = Mapped(f, Tail(s))
    BY <1>2, <1>3
<1>7. s # <<>> => Head(CommandLines(s)) = [line |-> "lc", name |-> Head(s).cmd]
    <2> SUFFICES ASSUME s # <<>> PROVE Head(CommandLines(s)) = [line |-> "lc", name |-> Head(s).cmd]
        OBVIOUS
    <2>1. f[Head(s)] = [line |-> "lc", name |-> Head(s).cmd]
        BY <1>3, <1>4
    <2>2. Head(CommandLines(s)) = f[Head(s)]
        BY <1>5, <1>6
    <2> QED BY ONLY <2>1, <2>2
<1>8. s # <<>> => CommandLines(s) # <<>> /\ Tail(CommandLines(s)) = CommandLines(Tail(s))
    BY ONLY <1>5, <1>6
<1>9. s = <<>> => CommandLines(s) = <<>>
    BY ONLY <1>5, <1>6
<1>10. CommandLines(s) \in Seq(X) /\ Len(CommandLines(s)) = Len(s)
    BY ONLY <1>5, <1>6
<1> QED BY <1>7, <1>8, <1>9, <1>10 DEF X

LEMMA UndefLinesAre ==
    ASSUME NEW map, NEW T, NEW s \in Seq(T)
    PROVE  /\ UndefLines(s, map) \in Seq(UndefLinesOf(T, map))
           /\ s = <<>> => UndefLines(s, map) = <<>>
           /\ s # <<>> => /\ UndefLines(s, map) # <<>>
                          /\ Head(UndefLines(s, map)) = UndefLine(Head(s), map)
                          /\ Tail(UndefLines(s, map)) = UndefLines(Tail(s), map)
<1> DEFINE f == [e \in T |-> UndefLine(e, map)]
           X == UndefLinesOf(T, map)
<1>1. Maps(f, T, X)
    BY DEF Maps, NameLines, CommandLinesOf, UndefLinesOf
<1>2. ASSUME NEW t \in Seq(T) PROVE UndefLines(t, map) = Mapped(f, t)
    <2>1. \A i \in DOMAIN t : t[i] \in T
        OBVIOUS
    <2>2. \A i \in DOMAIN t : UndefLine(t[i], map) = f[t[i]]
        BY <2>1
    <2>3. UndefLines(t, map) = [i \in DOMAIN t |-> UndefLine(t[i], map)]
        BY DEF UndefLines, UndefLine
    <2> HIDE DEF f
    <2> QED BY <2>2, <2>3 DEF Mapped
<1>3. s # <<>> => Head(s) \in T /\ Tail(s) \in Seq(T)
    BY HeadTailProperties
<1>4. \A e \in T : f[e] = UndefLine(e, map)
    OBVIOUS
<1> HIDE DEF f, X
<1>5. /\ Mapped(f, s) \in Seq(X)
      /\ s = <<>> => Mapped(f, s) = <<>>
      /\ s # <<>> => /\ Mapped(f, s) # <<>>
                     /\ Head(Mapped(f, s)) = f[Head(s)]
                     /\ Tail(Mapped(f, s)) = Mapped(f, Tail(s))
    <2>1. Mapped(f, s) \in Seq(X) /\ Len(Mapped(f, s)) = Len(s)
        BY <1>1, MappedIs
    <2>2. s = <<>> => Mapped(f, s) = <<>>
        BY <1>1, MappedIs
    <2>3. s # <<>> => Mapped(f, s) # <<>>
        BY <1>1, MappedIs
    <2>4. s # <<>> => Head(Mapped(f, s)) = f[Head(s)]
        BY <1>1, MappedIs
    <2>5. s # <<>> => Tail(Mapped(f, s)) = Mapped(f, Tail(s))
        BY <1>1, MappedIs
    <2> QED BY ONLY <2>1, <2>2, <2>3, <2>4, <2>5
<1>6. /\ UndefLines(s, map) = Mapped(f, s)
      /\ s # <<>> => UndefLines(Tail(s), map) = Mapped(f, Tail(s))
    BY <1>2, <1>3
<1>7. s # <<>> => Head(UndefLines(s, map)) = UndefLine(Head(s), map)
    <2> SUFFICES ASSUME s # <<>> PROVE Head(UndefLines(s, map)) = UndefLine(Head(s), map)
        OBVIOUS
    <2>1. f[Head(s)] = UndefLine(Head(s), map)
        BY <1>3, <1>4
    <2>2. Head(UndefLines(s, map)) = f[Head(s)]
        BY <1>5, <1>6
    <2> QED BY ONLY <2>1, <2>2
<1>8. s # <<>> => UndefLines(s, map) # <<>> /\ Tail(UndefLines(s, map)) = UndefLines(Tail(s), map)
    BY ONLY <1>5, <1>6
<1>9. s = <<>> => UndefLines(s, map) = <<>>
    BY ONLY <1>5, <1>6
<1>10. UndefLines(s, map) \in Seq(X)
    BY ONLY <1>5, <1>6
<1> QED BY <1>7, <1>8, <1>9, <1>10 DEF X

\* The next line of a list and those behind it.
LEMMA NextCommandLine ==
    ASSUME NEW T, NEW s \in Seq(T), s # <<>>
    PROVE  /\ CommandLines(s) # <<>>
           /\ Head(CommandLines(s)) = [line |-> "lc", name |-> Head(s).cmd]
           /\ Tail(CommandLines(s)) = CommandLines(Tail(s))
<1>1. \A U : \A t \in Seq(U) : t # <<>> => CommandLines(t) # <<>>
    BY CommandLinesAre
<1>2. \A U : \A t \in Seq(U) :
          t # <<>> => Head(CommandLines(t)) = [line |-> "lc", name |-> Head(t).cmd]
    BY CommandLinesAre
<1>3. \A U : \A t \in Seq(U) : t # <<>> => Tail(CommandLines(t)) = CommandLines(Tail(t))
    BY CommandLinesAre
<1> QED BY <1>1, <1>2, <1>3

LEMMA NextListed ==
    ASSUME NEW list, NEW T, NEW s \in Seq(T), s # <<>>
    PROVE  /\ Listed(list, s) # <<>>
           /\ Head(Listed(list, s)) = [line |-> list, name |-> Head(s).name]
           /\ Tail(Listed(list, s)) = Listed(list, Tail(s))
<1>1. \A l, U : \A t \in Seq(U) : t # <<>> => Listed(l, t) # <<>>
    BY ListedIs
<1>2. \A l, U : \A t \in Seq(U) :
          t # <<>> => Head(Listed(l, t)) = [line |-> l, name |-> Head(t).name]
    BY ListedIs
<1>3. \A l, U : \A t \in Seq(U) : t # <<>> => Tail(Listed(l, t)) = Listed(l, Tail(t))
    BY ListedIs
<1> QED BY <1>1, <1>2, <1>3

LEMMA NextUndefLine ==
    ASSUME NEW map, NEW T, NEW s \in Seq(T), s # <<>>
    PROVE  /\ UndefLines(s, map) # <<>>
           /\ Head(UndefLines(s, map)) = UndefLine(Head(s), map)
           /\ Tail(UndefLines(s, map)) = UndefLines(Tail(s), map)
<1>1. \A M, U : \A t \in Seq(U) : t # <<>> => UndefLines(t, M) # <<>>
    BY UndefLinesAre
<1>2. \A M, U : \A t \in Seq(U) : t # <<>> => Head(UndefLines(t, M)) = UndefLine(Head(t), M)
    BY UndefLinesAre
<1>3. \A M, U : \A t \in Seq(U) : t # <<>> => Tail(UndefLines(t, M)) = UndefLines(Tail(t), M)
    BY UndefLinesAre
<1> QED BY <1>1, <1>2, <1>3

\* The lists of the dump behind the load commands, and all lines there are.
FilesetLines(m) == Listed("filesets", filesetEntryCommands(m))
LinesBehindUndef(m) == Listed("indirect", indirect_syms(m)) \o FilesetLines(m)
LinesBehindCommands(m) == SymbolLines(m) \o FilesetLines(m)
Expected(m) == CommandLines(loadCommands(m)) \o SymbolLines(m) \o FilesetLines(m)

CommandLineSet(m) == CommandLinesOf(Commands(m))
UndefLineSet(m) == UndefLinesOf(Range(undef_syms(m)), dylibNamesMap(m))
IndirectLineSet(m) == NameLines("indirect", Range(indirect_syms(m)))
FilesetLineSet(m) == NameLines("filesets", Range(filesetEntryCommands(m)))
AllLines(m) == CommandLineSet(m) \cup UndefLineSet(m) \cup IndirectLineSet(m) \cup FilesetLineSet(m)

\* What is printed and what is still to be printed are the whole dump.
Printed(rest) == Len(out) < MaxLines => out \o rest = Expected(macho)

\* The dump of a well-formed file, in each of its phases.
DumpIs ==
    /\ out \in Seq(AllLines(macho))
    /\ phase \in {"start", "commands", "undef", "indirect", "filesets", "done", "aborted", "stray"}
    /\ phase = "start" => out = <<>> /\ lc = lc_cbegin
    /\ phase = "commands" =>
          /\ lc \in Places(macho)
          /\ Printed(CommandLines(commandsFrom(macho)[lc]) \o LinesBehindCommands(macho))
    /\ phase = "undef" =>
          /\ dylib_names = dylibNamesMap(macho)
          /\ todo \in Seq(Range(undef_syms(macho)))
          /\ Printed(UndefLines(todo, dylib_names) \o LinesBehindUndef(macho))
    /\ phase = "indirect" =>
          /\ todo \in Seq(Range(indirect_syms(macho)))
          /\ Printed(Listed("indirect", todo) \o FilesetLines(macho))
    /\ phase = "filesets" =>
          /\ todo \in Seq(Range(filesetEntryCommands(macho)))
          /\ Printed(Listed("filesets", todo))
    /\ phase = "done" /\ isMagicGood(macho) => Printed(<<>>)

DumpInv ==
    /\ macho \in Files
    /\ tool \in {"dump", "callfinder"}
    /\ tool = "callfinder" =>
          out = <<>> /\ phase \in {"start", "stray", "aborted", "scan", "no start", "done"}
    /\ WellFormed(macho) /\ tool = "dump" => DumpIs

\* A list is a list of its own elements.
LEMMA OwnList == ASSUME NEW S, NEW s \in Seq(S) PROVE s \in Seq(Range(s)) /\ Range(s) \subseteq S
<1>1. s = [i \in 1 .. Len(s) |-> s[i]] /\ DOMAIN s = 1 .. Len(s) /\ Len(s) \in Nat
    OBVIOUS
<1>2. \A i \in 1 .. Len(s) : s[i] \in Range(s) /\ s[i] \in S
    BY <1>1 DEF Range
<1>3. Range(s) \subseteq S
    BY <1>1, <1>2 DEF Range
<1>4. [i \in 1 .. Len(s) |-> s[i]] \in Seq(Range(s))
    BY <1>1, <1>2
<1> QED BY <1>1, <1>3, <1>4

\* The lists that are printed are lists.
LEMMA ListsAre ==
    ASSUME NEW m \in Files, WellFormed(m)
    PROVE  /\ undef_syms(m) \in Seq(Range(undef_syms(m)))
           /\ Range(undef_syms(m)) \subseteq Range(nlists(m))
           /\ undef_syms(m) # <<>> => symtab(m) # nullptr
           /\ indirect_syms(m) \in Seq(Range(indirect_syms(m)))
           /\ filesetEntryCommands(m) \in Seq(Range(filesetEntryCommands(m)))
<1>1. m.sizeofcmds \in Nat /\ IsCounted(m)
    BY ToolsAssumption
<1>2. filesetEntryCommands(m) \in Seq(Range(filesetEntryCommands(m)))
    BY <1>1, OfTypeIs, OwnList DEF filesetEntryCommands
<1>3. nlists(m) \in Seq(Range(nlists(m)))
    BY <1>1 DEF IsCounted, IsList
<1>4. /\ undef_syms(m) \in Seq(Range(undef_syms(m)))
      /\ Range(undef_syms(m)) \subseteq Range(nlists(m))
      /\ undef_syms(m) # <<>> => symtab(m) # nullptr
    <2>1. CASE nullptr \in {symtab(m), dysymtab(m)}
        <3>1. undef_syms(m) = <<>>
            BY <2>1 DEF undef_syms
        <3>2. undef_syms(m) \in Seq(Range(nlists(m)))
            BY <3>1, EmptySeq
        <3> QED BY <3>1, <3>2, OwnList
    <2>2. CASE nullptr \notin {symtab(m), dysymtab(m)}
        <3> DEFINE first == dysymtab(m).iundefsym + 1
                   last == dysymtab(m).iundefsym + dysymtab(m).nundefsym
        <3>1. undef_syms(m) = SubSeq(nlists(m), first, last)
            BY <2>2 DEF undef_syms
        <3>2. first \in Nat \ {0} /\ last \in Nat /\ last <= Len(nlists(m)) /\ Len(nlists(m)) \in Nat
            <4> DEFINE a == dysymtab(m).iundefsym
                       b == dysymtab(m).nundefsym
            <4>1. {a, b} \subseteq Nat /\ a + b <= Len(nlists(m))
                BY <1>1, <2>2 DEF IsCounted
            <4>2. Len(nlists(m)) \in Nat
                BY <1>3
            <4> QED BY <4>1, <4>2
        <3> HIDE DEF first, last
        <3>3. \A i \in first .. last : nlists(m)[i] \in Range(nlists(m))
            BY <1>3, <3>2
        <3>4. undef_syms(m) \in Seq(Range(nlists(m)))
            BY <3>1, <3>2, <3>3, SubSeqProperties
        <3> QED BY <3>4, <2>2, OwnList
    <2> QED BY <2>1, <2>2
<1>5. indirect_syms(m) \in Seq(Range(indirect_syms(m)))
    <2>1. indirect_syms_idxes_raw(m) \in Seq(Range(indirect_syms_idxes_raw(m)))
        <3>1. CASE dysymtab(m) = nullptr
            <4>1. indirect_syms_idxes_raw(m) = <<>>
                BY <3>1 DEF indirect_syms_idxes_raw
            <4>2. <<>> \in Seq(Range(<<>>))
                BY EmptySeq
            <4> QED BY <4>1, <4>2
        <3>2. CASE dysymtab(m) # nullptr
            BY <3>2, <1>1 DEF indirect_syms_idxes_raw, IsCounted, IsList
        <3> QED BY <3>1, <3>2
    <2> DEFINE raw == indirect_syms_idxes_raw(m)
               syms == indirect_syms(m)
    <2>2. DOMAIN raw = 1 .. Len(raw) /\ Len(raw) \in Nat
        <3> HIDE DEF raw
        <3> QED BY <2>1 DEF raw
    <2>3. DOMAIN syms = DOMAIN raw /\ syms = [i \in DOMAIN raw |-> syms[i]]
        BY DEF indirect_syms, indirect_syms_idxes
    <2> HIDE DEF raw, syms
    <2>4. \A i \in 1 .. Len(raw) : syms[i] \in Range(syms)
        BY <2>2, <2>3 DEF Range
    <2>5. [i \in 1 .. Len(raw) |-> syms[i]] \in Seq(Range(syms))
        BY <2>2, <2>4
    <2>6. syms \in Seq(Range(syms))
        BY <2>2, <2>3, <2>5
    <2> QED BY <2>6 DEF syms
<1> QED BY <1>2, <1>4, <1>5

\* A line that is printed moves from what is still to be printed to what is.
LEMMA PrintKeeps ==
    ASSUME NEW S, out \in Seq(S), NEW a \in Seq(S), a # <<>>, NEW z \in Seq(S), NEW e,
           Len(out) < MaxLines => out \o (a \o z) = e,
           PrintLine(Head(a))
    PROVE  /\ out' \in Seq(S)
           /\ Len(out') < MaxLines => out' \o (Tail(a) \o z) = e
<1> DEFINE h == Head(a)
           t == Tail(a)
<1>1. /\ h \in S /\ t \in Seq(S) /\ <<h>> \in Seq(S) /\ Len(t) = Len(a) - 1
      /\ \A i \in 1 .. Len(t) : t[i] = a[i + 1]
    BY HeadTailProperties
<1>2. <<h>> \o t = a
    <2>1. h = a[1] /\ Len(a) \in Nat \ {0}
        BY EmptySeq
    <2> HIDE DEF h, t
    <2>2. <<h>> \o t \in Seq(S) /\ Len(<<h>> \o t) = Len(a)
        BY <1>1, <2>1, ConcatProperties
    <2>3. ASSUME NEW i \in 1 .. Len(a) PROVE (<<h>> \o t)[i] = a[i]
        <3>1. (<<h>> \o t)[i] = IF i <= 1 THEN h ELSE t[i - 1]
            BY <1>1, <2>1, ConcatProperties
        <3>2. CASE i = 1
            BY <3>1, <3>2, <2>1
        <3>3. CASE i > 1
            <4>1. i - 1 \in 1 .. Len(t) /\ (i - 1) + 1 = i
                BY <3>3, <1>1, <2>1
            <4> QED BY <4>1, <3>1, <3>3, <1>1
        <3>4. i = 1 \/ i > 1
            BY <2>1
        <3> QED BY ONLY <3>2, <3>3, <3>4
    <2> QED BY <2>2, <2>3, SeqEqual
<1>3. CASE Len(out) < MaxLines
    <2>1. out' = Append(out, h) /\ out \o (a \o z) = e
        BY <1>3 DEF PrintLine
    <2> HIDE DEF h, t
    <2>2. out' = out \o <<h>> /\ out' \in Seq(S)
        BY <2>1, <1>1, AppendProperties, AppendIsConcat
    <2>3. t \o z \in Seq(S)
        BY <1>1, ConcatProperties
    <2> DEFINE l == <<h>>
    <2>0. l \in Seq(S)
        BY <1>1
    <2> HIDE DEF l
    <2>a. \A x, y, w \in Seq(S) : (x \o y) \o w = x \o (y \o w)
        <3> TAKE x, y, w \in Seq(S)
        <3> QED BY ConcatAssociative, SMTT(60)
    <2>4. (out \o l) \o (t \o z) = out \o (l \o (t \o z))
        BY <2>a, <2>0, <2>3, ZenonT(60)
    <2>5. l \o (t \o z) = (l \o t) \o z
        BY <2>a, <1>1, <2>0
    <2> USE DEF l
    <2>6. out' \o (t \o z) = e
        BY <2>1, <2>2, <2>4, <2>5, <1>2
    <2> QED BY <2>2, <2>6 DEF t
<1>4. CASE ~(Len(out) < MaxLines)
    BY <1>4 DEF PrintLine
<1> QED BY <1>3, <1>4

\* The lists of lines are lists of the dump's lines.
LEMMA LinesAre ==
    ASSUME NEW m \in Files, WellFormed(m)
    PROVE  /\ \A lcs \in Seq(Commands(m)) : CommandLines(lcs) \in Seq(AllLines(m))
           /\ \A s \in Seq(Range(undef_syms(m))) :
                 UndefLines(s, dylibNamesMap(m)) \in Seq(AllLines(m))
           /\ \A s \in Seq(Range(indirect_syms(m))) : Listed("indirect", s) \in Seq(AllLines(m))
           /\ \A s \in Seq(Range(filesetEntryCommands(m))) :
                 Listed("filesets", s) \in Seq(AllLines(m))
<1> DEFINE A == AllLines(m)
<1>1. /\ CommandLineSet(m) \subseteq A /\ UndefLineSet(m) \subseteq A
      /\ IndirectLineSet(m) \subseteq A /\ FilesetLineSet(m) \subseteq A
    BY DEF AllLines
<1> HIDE DEF A
<1>2. ASSUME NEW lcs \in Seq(Commands(m)) PROVE CommandLines(lcs) \in Seq(A)
    <2>1. CommandLines(lcs) \in Seq(CommandLineSet(m))
        BY CommandLinesAre DEF CommandLineSet
    <2> QED BY <2>1, <1>1, SeqMonotonic
<1>3. ASSUME NEW s \in Seq(Range(undef_syms(m)))
      PROVE  UndefLines(s, dylibNamesMap(m)) \in Seq(A)
    <2>1. UndefLines(s, dylibNamesMap(m)) \in Seq(UndefLineSet(m))
        BY UndefLinesAre DEF UndefLineSet
    <2> QED BY <2>1, <1>1, SeqMonotonic
<1>4. ASSUME NEW s \in Seq(Range(indirect_syms(m))) PROVE Listed("indirect", s) \in Seq(A)
    <2>1. Listed("indirect", s) \in Seq(IndirectLineSet(m))
        BY ListedIs DEF IndirectLineSet
    <2> QED BY <2>1, <1>1, SeqMonotonic
<1>5. ASSUME NEW s \in Seq(Range(filesetEntryCommands(m))) PROVE Listed("filesets", s) \in Seq(A)
    <2>1. Listed("filesets", s) \in Seq(FilesetLineSet(m))
        BY ListedIs DEF FilesetLineSet
    <2> QED BY <2>1, <1>1, SeqMonotonic
<1> QED BY <1>2, <1>3, <1>4, <1>5 DEF A

\* So are the ends of the dump.
LEMMA EndsAre ==
    ASSUME NEW m \in Files, WellFormed(m)
    PROVE  /\ FilesetLines(m) \in Seq(AllLines(m))
           /\ LinesBehindUndef(m) \in Seq(AllLines(m))
           /\ SymbolLines(m) \in Seq(AllLines(m))
           /\ LinesBehindCommands(m) \in Seq(AllLines(m))
           /\ symtab(m) # nullptr =>
                 LinesBehindCommands(m) =
                    UndefLines(undef_syms(m), dylibNamesMap(m)) \o LinesBehindUndef(m)
           /\ symtab(m) = nullptr => LinesBehindCommands(m) = FilesetLines(m)
           /\ Expected(m) = CommandLines(loadCommands(m)) \o LinesBehindCommands(m)
<1> DEFINE A == AllLines(m)
           f == FilesetLines(m)
           i == Listed("indirect", indirect_syms(m))
           u == UndefLines(undef_syms(m), dylibNamesMap(m))
           c == CommandLines(loadCommands(m))
<1>1. f \in Seq(A) /\ i \in Seq(A) /\ u \in Seq(A)
    BY LinesAre, ListsAre DEF FilesetLines
<1>2. c \in Seq(A)
    <2>1. m.sizeofcmds \in Nat
        BY ToolsAssumption
    <2> QED BY <2>1, CommandsAre, LinesAre
<1>3. /\ LinesBehindUndef(m) = i \o f
      /\ SymbolLines(m) = IF symtab(m) = nullptr THEN <<>> ELSE u \o i
      /\ LinesBehindCommands(m) = SymbolLines(m) \o f
      /\ Expected(m) = (c \o SymbolLines(m)) \o f
    BY DEF LinesBehindUndef, SymbolLines, LinesBehindCommands, Expected, FilesetLines
<1> HIDE DEF A, f, i, u, c
<1>4. i \o f \in Seq(A) /\ u \o i \in Seq(A) /\ <<>> \in Seq(A)
    BY <1>1, ConcatProperties, EmptySeq
<1>5. SymbolLines(m) \in Seq(A)
    BY <1>3, <1>4
<1>6. LinesBehindCommands(m) \in Seq(A)
    BY <1>1, <1>3, <1>5, ConcatProperties
<1>7. symtab(m) # nullptr => LinesBehindCommands(m) = u \o (i \o f)
    <2>1. (u \o i) \o f = u \o (i \o f)
        BY <1>1, ConcatAssociative
    <2> QED BY <2>1, <1>3
<1>8. symtab(m) = nullptr => LinesBehindCommands(m) = f
    <2>1. <<>> \o f = f
        BY <1>1, ConcatEmptySeq
    <2> QED BY <2>1, <1>3
<1>9. Expected(m) = c \o LinesBehindCommands(m)
    <2>1. (c \o SymbolLines(m)) \o f = c \o (SymbolLines(m) \o f)
        BY <1>1, <1>2, <1>5, ConcatAssociative, SMTT(60)
    <2> QED BY <2>1, <1>3
<1> QED BY <1>1, <1>3, <1>4, <1>5, <1>6, <1>7, <1>8, <1>9 DEF A, f, u, c

\* The steps of the dump of a well-formed file.
LEMMA HeaderKeeps ==
    ASSUME macho \in Files, WellFormed(macho), DumpIs, DumpHeader PROVE DumpIs'
<1> DEFINE A == AllLines(macho)
<1>1. /\ phase = "start" /\ phase' = (IF isMagicGood(macho) THEN "commands" ELSE "done")
      /\ macho' = macho /\ lc' = lc /\ out' = out
    BY DEF DumpHeader, chosen
<1>2. out \in Seq(A) /\ out = <<>> /\ lc = 0
    BY <1>1 DEF DumpIs, lc_cbegin
<1>3. macho.sizeofcmds \in Nat
    BY ToolsAssumption
<1>4. 0 \in Places(macho) /\ loadCommands(macho) = commandsFrom(macho)[0]
    BY <1>3, PlacesAre, CommandsAre
<1>5. Printed(CommandLines(commandsFrom(macho)[lc]) \o LinesBehindCommands(macho))
    <2> DEFINE c == CommandLines(loadCommands(macho))
               z == LinesBehindCommands(macho)
    <2>1. Expected(macho) = c \o z /\ z \in Seq(A)
        BY EndsAre
    <2>2. c \in Seq(A)
        BY <1>3, CommandsAre, LinesAre
    <2> HIDE DEF c, z, A
    <2>3. out \o (c \o z) = c \o z
        BY <1>2, <2>1, <2>2, ConcatProperties, ConcatEmptySeq
    <2> QED BY <2>1, <2>3, <1>2, <1>4 DEF c, z, Printed
<1>6. CASE isMagicGood(macho)
    <2>1. phase' = "commands"
        BY <1>1, <1>6
    <2>2. out' \in Seq(AllLines(macho'))
        BY <1>1, <1>2
    <2>3. lc' \in Places(macho')
        BY <1>1, <1>2, <1>4
    <2>4. Printed(CommandLines(commandsFrom(macho)[lc]) \o LinesBehindCommands(macho))'
        BY <1>1, <1>5 DEF Printed
    <2> QED BY <2>1, <2>2, <2>3, <2>4 DEF DumpIs
<1>7. CASE ~isMagicGood(macho)
    <2>1. phase' = "done" /\ ~isMagicGood(macho')
        BY <1>1, <1>7
    <2>2. out' \in Seq(AllLines(macho'))
        BY <1>1, <1>2
    <2> QED BY <2>1, <2>2 DEF DumpIs
<1> QED BY <1>6, <1>7

LEMMA CommandKeeps ==
    ASSUME macho \in Files, WellFormed(macho), DumpIs, DumpCommand PROVE DumpIs'
<1> DEFINE A == AllLines(macho)
           C == Commands(macho)
           from == commandsFrom(macho)
           z == LinesBehindCommands(macho)
<1>1. phase = "commands" /\ macho' = macho /\ lc # lc_cend(macho)
    BY DEF DumpCommand, chosen
<1>2. /\ out \in Seq(A) /\ lc \in Places(macho)
      /\ Len(out) < MaxLines => out \o (CommandLines(from[lc]) \o z) = Expected(macho)
    BY <1>1 DEF DumpIs, Printed
<1>3. lc \in DOMAIN macho.at
    BY <1>1, <1>2 DEF Places
<1>4. /\ phase' = "commands" /\ lc' = After(macho, lc)
      /\ PrintLine([line |-> "lc", name |-> macho.at[lc].cmd])
    BY <1>1, <1>3 DEF DumpCommand
<1>5. macho.sizeofcmds \in Nat
    BY ToolsAssumption
<1>6. macho.at[lc] \in C /\ lc' \in Places(macho)
    BY <1>3, <1>4, <1>5, PlacesAre
<1>7. from[lc] = <<macho.at[lc]>> \o from[lc'] /\ from[lc'] \in Seq(C)
    <2>1. IsWalkOf(macho, from)
        BY <1>5, CommandsAre
    <2> HIDE DEF from
    <2> QED BY <2>1, <1>3, <1>4, <1>6 DEF IsWalkOf
<1>8. from[lc] \in Seq(C) /\ from[lc] # <<>> /\ Head(from[lc]) = macho.at[lc] /\ Tail(from[lc]) = from[lc']
    <2> DEFINE c == macho.at[lc]
               t == from[lc']
    <2> HIDE DEF c, t, from, C
    <2>1. c \in C /\ t \in Seq(C) /\ <<c>> \in Seq(C)
        BY <1>6, <1>7 DEF c, t
    <2>2. /\ <<c>> \o t \in Seq(C) /\ Len(<<c>> \o t) = 1 + Len(t) /\ Len(t) \in Nat
          /\ \A i \in 1 .. Len(t) + 1 : (<<c>> \o t)[i] = IF i <= 1 THEN c ELSE t[i - 1]
        BY <2>1, ConcatProperties
    <2> DEFINE s == <<c>> \o t
    <2>3. /\ s \in Seq(C) /\ Len(s) = 1 + Len(t)
          /\ \A i \in 1 .. Len(t) + 1 : s[i] = IF i <= 1 THEN c ELSE t[i - 1]
        BY <2>2
    <2> HIDE DEF s
    <2>4. s # <<>> /\ Head(s) = c
        BY <2>2, <2>3
    <2>5. Tail(s) \in Seq(C) /\ Len(Tail(s)) = Len(t) /\ \A i \in 1 .. Len(t) : Tail(s)[i] = s[i + 1]
        BY <2>2, <2>3, <2>4, HeadTailProperties
    <2>6. \A i \in 1 .. Len(t) : Tail(s)[i] = t[i]
        <3> SUFFICES ASSUME NEW i \in 1 .. Len(t) PROVE Tail(s)[i] = t[i]
            OBVIOUS
        <3>1. i + 1 \in 1 .. Len(t) + 1 /\ ~(i + 1 <= 1) /\ (i + 1) - 1 = i
            BY <2>2
        <3> QED BY <3>1, <2>3, <2>5
    <2>7. Tail(s) = t
        BY <2>1, <2>5, <2>6, SeqEqual
    <2> QED BY <2>3, <2>4, <2>7, <1>7 DEF c, t, s
<1> DEFINE a == CommandLines(from[lc])
<1>9. /\ a \in Seq(A) /\ a # <<>> /\ Tail(a) = CommandLines(from[lc'])
      /\ Head(a) = [line |-> "lc", name |-> macho.at[lc].cmd]
    <2>1. \A lcs \in Seq(C) : CommandLines(lcs) \in Seq(A)
        BY LinesAre
    <2> DEFINE l == from[lc]
    <2>2. l \in Seq(C) /\ l # <<>> /\ Head(l) = macho.at[lc] /\ Tail(l) = from[lc']
        BY <1>8
    <2> HIDE DEF from, C, A, l
    <2>3. CommandLines(l) \in Seq(A)
        BY <2>1, <2>2
    <2>4. /\ CommandLines(l) # <<>> /\ Tail(CommandLines(l)) = CommandLines(Tail(l))
          /\ Head(CommandLines(l)) = [line |-> "lc", name |-> Head(l).cmd]
        BY <2>2, NextCommandLine
    <2> QED BY <2>2, <2>3, <2>4 DEF l
<1>10. z \in Seq(A)
    BY EndsAre
<1> HIDE DEF A, a, z
<1>11. /\ out' \in Seq(A)
       /\ Len(out') < MaxLines => out' \o (Tail(a) \o z) = Expected(macho)
    <2>1. PrintLine(Head(a)) /\ (Len(out) < MaxLines => out \o (a \o z) = Expected(macho))
        BY <1>2, <1>4, <1>9 DEF a
    <2>2. out \in Seq(A) /\ a \in Seq(A) /\ a # <<>> /\ z \in Seq(A)
        BY <1>2, <1>9, <1>10
    <2> QED BY ONLY <2>1, <2>2, PrintKeeps
<1>12. Printed(CommandLines(commandsFrom(macho)[lc]) \o LinesBehindCommands(macho))'
    BY <1>1, <1>9, <1>11 DEF Printed, z
<1>13. out' \in Seq(AllLines(macho')) /\ lc' \in Places(macho')
    BY <1>1, <1>6, <1>11 DEF A
<1> QED BY <1>4, <1>12, <1>13 DEF DumpIs

LEMMA CommandsEndKeeps ==
    ASSUME macho \in Files, WellFormed(macho), DumpIs, DumpCommandsEnd PROVE DumpIs'
<1> DEFINE A == AllLines(macho)
           z == LinesBehindCommands(macho)
<1>1. phase = "commands" /\ macho' = macho /\ lc = lc_cend(macho) /\ out' = out
    BY DEF DumpCommandsEnd, chosen
<1>2. /\ out \in Seq(A)
      /\ Printed(CommandLines(commandsFrom(macho)[lc]) \o z)
    BY <1>1 DEF DumpIs
<1>3. CommandLines(commandsFrom(macho)[lc]) = <<>>
    <2>1. macho.sizeofcmds \in Nat
        BY ToolsAssumption
    <2>2. commandsFrom(macho)[lc] = <<>>
        BY <1>1, <2>1, CommandsAre DEF IsWalkOf
    <2>3. <<>> \in Seq(Commands(macho))
        BY EmptySeq
    <2>4. \A U : \A t \in Seq(U) : t = <<>> => CommandLines(t) = <<>>
        BY CommandLinesAre
    <2> QED BY <2>2, <2>3, <2>4
<1>4. Printed(z)
    <2>1. z \in Seq(A)
        BY EndsAre
    <2> HIDE DEF z, A
    <2>2. <<>> \o z = z
        BY <2>1, ConcatEmptySeq
    <2> QED BY <1>2, <1>3, <2>2
<1>5. out' \in Seq(AllLines(macho'))
    BY <1>1, <1>2
<1>6. CASE symtab(macho) = nullptr
    <2>1. phase' = "filesets" /\ todo' = filesetEntryCommands(macho)
        BY <1>6 DEF DumpCommandsEnd
    <2>2. z = Listed("filesets", todo')
        BY <1>6, <2>1, EndsAre DEF FilesetLines
    <2>3. todo' \in Seq(Range(filesetEntryCommands(macho')))
        BY <1>1, <2>1, ListsAre
    <2>4. Printed(Listed("filesets", todo))'
        BY <1>1, <1>4, <2>2 DEF Printed
    <2> QED BY <1>5, <2>1, <2>3, <2>4 DEF DumpIs
<1>7. CASE symtab(macho) # nullptr
    <2>1. /\ phase' = "undef" /\ todo' = undef_syms(macho)
          /\ dylib_names' = dylibNamesMap(macho)
        BY <1>7 DEF DumpCommandsEnd
    <2>2. z = UndefLines(todo', dylib_names') \o LinesBehindUndef(macho)
        BY <1>7, <2>1, EndsAre
    <2>3. todo' \in Seq(Range(undef_syms(macho'))) /\ dylib_names' = dylibNamesMap(macho')
        BY <1>1, <2>1, ListsAre
    <2>4. Printed(UndefLines(todo, dylib_names) \o LinesBehindUndef(macho))'
        BY <1>1, <1>4, <2>2 DEF Printed
    <2> QED BY <1>5, <2>1, <2>3, <2>4 DEF DumpIs
<1> QED BY <1>6, <1>7

LEMMA UndefKeeps ==
    ASSUME macho \in Files, WellFormed(macho), DumpIs, DumpUndef PROVE DumpIs'
<1> DEFINE A == AllLines(macho)
           U == Range(undef_syms(macho))
           map == dylibNamesMap(macho)
           a == UndefLines(todo, map)
           z == LinesBehindUndef(macho)
<1>1. phase = "undef" /\ macho' = macho /\ todo # <<>> /\ dylib_names' = dylib_names
    BY DEF DumpUndef, chosen
<1>2. /\ out \in Seq(A) /\ todo \in Seq(U) /\ dylib_names = map
      /\ Len(out) < MaxLines => out \o (a \o z) = Expected(macho)
    BY <1>1 DEF DumpIs, Printed
<1>3. CASE isUndefined(Head(todo))
    <2>1. /\ PrintLine(UndefLine(Head(todo), map)) /\ todo' = Tail(todo) /\ phase' = "undef"
        BY <1>1, <1>2, <1>3 DEF DumpUndef, UndefLine
    <2>2. a \in Seq(A) /\ z \in Seq(A)
        BY <1>2, LinesAre, EndsAre
    <2> HIDE DEF A, U, map, z
    <2>3. a # <<>> /\ Head(a) = UndefLine(Head(todo), map) /\ Tail(a) = UndefLines(Tail(todo), map)
        BY <1>1, <1>2, NextUndefLine
    <2>4. todo' \in Seq(U)
        BY <1>1, <1>2, <2>1, HeadTailProperties
    <2> HIDE DEF a
    <2>5. /\ out' \in Seq(A)
          /\ Len(out') < MaxLines => out' \o (Tail(a) \o z) = Expected(macho)
        <3>1. PrintLine(Head(a)) /\ (Len(out) < MaxLines => out \o (a \o z) = Expected(macho))
            BY <1>2, <2>1, <2>3
        <3>2. out \in Seq(A) /\ a \in Seq(A) /\ a # <<>> /\ z \in Seq(A)
            BY <1>2, <2>2, <2>3
        <3> QED BY ONLY <3>1, <3>2, PrintKeeps
    <2>6. Printed(UndefLines(todo, dylib_names) \o LinesBehindUndef(macho))'
        BY <1>1, <1>2, <2>1, <2>3, <2>5 DEF Printed, z
    <2>7. /\ out' \in Seq(AllLines(macho')) /\ todo' \in Seq(Range(undef_syms(macho')))
          /\ dylib_names' = dylibNamesMap(macho')
        BY <1>1, <1>2, <2>4, <2>5 DEF A, U, map
    <2> QED BY <2>1, <2>6, <2>7 DEF DumpIs
<1>4. CASE ~isUndefined(Head(todo))
    <2>1. phase' = "aborted" /\ out' = out
        BY <1>4 DEF DumpUndef
    <2>2. out' \in Seq(AllLines(macho'))
        BY <1>1, <1>2, <2>1
    <2> QED BY <2>1, <2>2 DEF DumpIs
<1> QED BY <1>3, <1>4

LEMMA EntryKeeps ==
    ASSUME macho \in Files, WellFormed(macho), DumpIs,
           NEW list \in {"indirect", "filesets"}, DumpEntry(list)
    PROVE  DumpIs'
<1> DEFINE A == AllLines(macho)
           E == IF list = "indirect" THEN Range(indirect_syms(macho))
                ELSE Range(filesetEntryCommands(macho))
           a == Listed(list, todo)
           z == IF list = "indirect" THEN FilesetLines(macho) ELSE <<>>
<1>1. phase = list /\ macho' = macho
    BY DEF DumpEntry, chosen
<1>2. out \in Seq(A) /\ todo \in Seq(E)
    BY <1>1 DEF DumpIs
<1> SUFFICES ASSUME Head(todo) # strayNList PROVE DumpIs'
    <2>1. CASE Head(todo) = strayNList
        <3>1. phase' = "stray" /\ out' = out
            BY <2>1 DEF DumpEntry
        <3>2. out' \in Seq(AllLines(macho'))
            BY <1>1, <1>2, <3>1
        <3> QED BY <3>1, <3>2 DEF DumpIs
    <2> QED BY <2>1
<1>3. /\ phase = list /\ phase' = list /\ macho' = macho /\ todo # <<>> /\ todo' = Tail(todo)
      /\ PrintLine([line |-> list, name |-> Head(todo).name])
    BY DEF DumpEntry, chosen
<1>4. a \in Seq(A) /\ z \in Seq(A)
    <2>1. CASE list = "indirect"
        BY <2>1, <1>2, LinesAre, EndsAre
    <2>2. CASE list = "filesets"
        <3>1. <<>> \in Seq(A)
            BY EmptySeq
        <3>2. z = <<>> /\ a = Listed("filesets", todo) /\ todo \in Seq(Range(filesetEntryCommands(macho)))
            BY <2>2, <1>2
        <3>3. a \in Seq(A)
            BY <3>2, LinesAre
        <3> QED BY <3>1, <3>2, <3>3
    <2> QED BY <2>1, <2>2
<1>5. Len(out) < MaxLines => out \o (a \o z) = Expected(macho)
    <2>1. CASE list = "indirect"
        BY <2>1, <1>3 DEF DumpIs, Printed
    <2>2. CASE list = "filesets"
        <3>1. Len(out) < MaxLines => out \o a = Expected(macho)
            BY <2>2, <1>3 DEF DumpIs, Printed
        <3>2. z = <<>>
            BY <2>2
        <3> HIDE DEF a, A
        <3>3. a \o <<>> = a
            BY <1>4, ConcatEmptySeq
        <3> QED BY <3>1, <3>2, <3>3
    <2> QED BY <2>1, <2>2
<1> HIDE DEF A, E, z
<1>6. /\ a # <<>> /\ Head(a) = [line |-> list, name |-> Head(todo).name]
      /\ Tail(a) = Listed(list, Tail(todo)) /\ Tail(todo) \in Seq(E)
    BY <1>3, <1>2, NextListed, HeadTailProperties
<1> HIDE DEF a
<1>7. out' \in Seq(A) /\ (Len(out') < MaxLines => out' \o (Tail(a) \o z) = Expected(macho))
    <2>1. PrintLine(Head(a))
        BY <1>3, <1>6
    <2>2. out \in Seq(A) /\ a \in Seq(A) /\ a # <<>> /\ z \in Seq(A)
        BY <1>2, <1>4, <1>6
    <2> QED BY ONLY <2>1, <2>2, <1>5, PrintKeeps
<1>8. out' \in Seq(AllLines(macho'))
    BY <1>3, <1>7 DEF A
<1>9. CASE list = "indirect"
    <2>1. todo' \in Seq(Range(indirect_syms(macho')))
        BY <1>3, <1>6, <1>9 DEF E
    <2>2. Printed(Listed("indirect", todo) \o FilesetLines(macho))'
        BY <1>3, <1>6, <1>7, <1>9 DEF Printed, z
    <2> QED BY <1>3, <1>8, <1>9, <2>1, <2>2 DEF DumpIs
<1>10. CASE list = "filesets"
    <2>1. todo' \in Seq(Range(filesetEntryCommands(macho')))
        BY <1>3, <1>6, <1>10 DEF E
    <2>2. Tail(a) \in Seq(A)
        BY <1>4, <1>6, HeadTailProperties
    <2>3. Tail(a) \o <<>> = Tail(a)
        BY <2>2, ConcatEmptySeq
    <2>4. Len(out') < MaxLines => out' \o Listed("filesets", todo') = Expected(macho)
        BY <1>3, <1>6, <1>7, <1>10, <2>3 DEF z
    <2>5. Printed(Listed("filesets", todo))'
        BY <1>3, <2>4 DEF Printed
    <2> QED BY <1>3, <1>8, <1>10, <2>1, <2>5 DEF DumpIs
<1> QED BY <1>9, <1>10

LEMMA ListEndKeeps ==
    ASSUME macho \in Files, WellFormed(macho), DumpIs,
           NEW list \in {"undef", "indirect", "filesets"}, DumpListEnd(list)
    PROVE  DumpIs'
<1> DEFINE A == AllLines(macho)
           f == FilesetLines(macho)
           i == Listed("indirect", indirect_syms(macho))
<1>1. phase = list /\ macho' = macho /\ out' = out /\ todo = <<>>
    BY DEF DumpListEnd, chosen
<1>2. out \in Seq(A) /\ out' \in Seq(AllLines(macho'))
    BY <1>1 DEF DumpIs
<1>3. f \in Seq(A) /\ i \o f \in Seq(A) /\ <<>> \in Seq({})
    BY EndsAre, EmptySeq DEF LinesBehindUndef
<1>4. /\ UndefLines(<<>>, dylib_names) = <<>> /\ Listed("indirect", <<>>) = <<>>
      /\ Listed("filesets", <<>>) = <<>>
    <2>1. \A M, U : \A t \in Seq(U) : t = <<>> => UndefLines(t, M) = <<>>
        BY UndefLinesAre
    <2>2. \A l, U : \A t \in Seq(U) : t = <<>> => Listed(l, t) = <<>>
        BY ListedIs
    <2> QED BY <1>3, <2>1, <2>2
<1>5. CASE list = "undef"
    <2>1. phase' = "indirect" /\ todo' = indirect_syms(macho)
        BY <1>5 DEF DumpListEnd
    <2>2. todo' \in Seq(Range(indirect_syms(macho')))
        BY <1>1, <2>1, ListsAre
    <2>3. Printed(UndefLines(todo, dylib_names) \o (i \o f))
        BY <1>1, <1>5 DEF DumpIs, LinesBehindUndef
    <2>4. <<>> \o (i \o f) = i \o f
        <3> HIDE DEF i, f, A
        <3> QED BY <1>3, ConcatEmptySeq
    <2>5. Printed(i \o f)
        BY <1>1, <1>4, <2>3, <2>4
    <2>6. Printed(Listed("indirect", todo) \o FilesetLines(macho))'
        BY <1>1, <2>1, <2>5 DEF Printed
    <2> QED BY <1>2, <2>1, <2>2, <2>6 DEF DumpIs
<1>6. CASE list = "indirect"
    <2>1. phase' = "filesets" /\ todo' = filesetEntryCommands(macho)
        BY <1>6 DEF DumpListEnd
    <2>2. todo' \in Seq(Range(filesetEntryCommands(macho')))
        BY <1>1, <2>1, ListsAre
    <2>3. Printed(Listed("indirect", todo) \o f)
        BY <1>1, <1>6 DEF DumpIs
    <2>4. <<>> \o f = f
        <3> HIDE DEF f, A
        <3> QED BY <1>3, ConcatEmptySeq
    <2>5. Printed(f)
        BY <1>1, <1>4, <2>3, <2>4
    <2>6. Printed(Listed("filesets", todo))'
        BY <1>1, <2>1, <2>5 DEF Printed, FilesetLines
    <2> QED BY <1>2, <2>1, <2>2, <2>6 DEF DumpIs
<1>7. CASE list = "filesets"
    <2>1. phase' = "done"
        BY <1>7 DEF DumpListEnd
    <2>2. Printed(<<>>)
        BY <1>1, <1>4, <1>7 DEF DumpIs
    <2>3. Printed(<<>>)'
        BY <1>1, <2>2 DEF Printed
    <2> QED BY <1>2, <2>1, <2>3 DEF DumpIs
<1> QED BY <1>5, <1>6, <1>7

\* What is printed and what is still to be printed are always the whole dump.
THEOREM DumpIsWhole == ToolsSpec => []DumpInv
<1>1. ToolsInit => DumpInv
    <2> SUFFICES ASSUME ToolsInit PROVE DumpInv
        OBVIOUS
    <2>1. macho \in Files /\ tool \in {"dump", "callfinder"} /\ phase = "start" /\ out = <<>> /\ lc = lc_cbegin
        BY DEF ToolsInit
    <2>2. out \in Seq(AllLines(macho))
        BY <2>1, EmptySeq
    <2> QED BY <2>1, <2>2 DEF DumpInv, DumpIs
<1>2. ASSUME DumpInv, Dump PROVE DumpInv'
    <2>1. tool = "dump"
        <3> SUFFICES ASSUME tool = "callfinder" PROVE FALSE
            BY <1>2 DEF DumpInv
        <3>1. phase \in {"start", "stray", "aborted", "scan", "no start", "done"}
            BY <1>2 DEF DumpInv
        <3> QED BY <1>2, <3>1 DEF Dump, DumpHeader, DumpCommand, DumpCommandsEnd, DumpUndef,
                                  DumpEntry, DumpListEnd
    <2>2. macho' = macho /\ tool' = tool
        BY <1>2 DEF Dump, DumpHeader, DumpCommand, DumpCommandsEnd, DumpUndef,
                    DumpEntry, DumpListEnd, chosen
    <2>3. WellFormed(macho) => DumpIs'
        <3> SUFFICES ASSUME WellFormed(macho) PROVE DumpIs'
            OBVIOUS
        <3>1. macho \in Files /\ DumpIs
            BY <1>2, <2>1 DEF DumpInv
        <3> QED BY <1>2, <3>1, HeaderKeeps, CommandKeeps, CommandsEndKeeps, UndefKeeps, EntryKeeps,
                   ListEndKeeps DEF Dump
    <2> QED BY <1>2, <2>1, <2>2, <2>3 DEF DumpInv
<1>3. ASSUME DumpInv, CallInv, FindCalls PROVE DumpInv'
    <2>1. tool = "callfinder" /\ macho' = macho /\ tool' = tool /\ out' = out
        <3>1. CASE FindSymbol
            BY <3>1 DEF FindSymbol, chosen
        <3>2. CASE ScanInstruction \/ ScanEnd
            <4>1. phase = "scan" /\ macho' = macho /\ tool' = tool /\ out' = out
                BY <3>2 DEF ScanInstruction, ScanEnd, chosen
            <4> QED BY <1>3, <4>1 DEF CallInv, HasScanned, DumpInv
        <3> QED BY <1>3, <3>1, <3>2 DEF FindCalls
    <2>2. phase' \in {"stray", "aborted", "scan", "no start", "done"}
        BY <1>3 DEF FindCalls, FindSymbol, NothingToScan, ScanInstruction, ScanEnd
    <2> QED BY <1>3, <2>1, <2>2 DEF DumpInv
<1>4. ASSUME DumpInv, UNCHANGED toolsVars PROVE DumpInv'
    BY <1>4 DEF DumpInv, DumpIs, Printed, toolsVars, chosen
<1>5. CallInv /\ DumpInv /\ [ToolsNext]_toolsVars => DumpInv'
    BY <1>2, <1>3, <1>4 DEF ToolsNext
<1> QED BY <1>1, <1>5, CallsAreReported, PTL DEF ToolsSpec

\* A finished dump of a well-formed file lists its load commands, as many as the
\* header counts, then its symbols, then its fileset entries.
THEOREM DumpListsTheCommands == ToolsSpec => []ListsTheCommands
<1>1. DumpInv => ListsTheCommands
    <2> SUFFICES ASSUME DumpInv, tool = "dump", phase = "done", isMagicGood(macho), WellFormed(macho),
                        Len(out) < MaxLines
                 PROVE  /\ out = Expected(macho)
                        /\ Len(CommandLines(loadCommands(macho))) = macho.ncmds
        BY DEF ListsTheCommands, Expected, FilesetLines
    <2>1. macho \in Files /\ out \in Seq(AllLines(macho)) /\ Printed(<<>>)
        BY DEF DumpInv, DumpIs
    <2>2. out = Expected(macho)
        <3>1. out \o <<>> = Expected(macho)
            BY <2>1 DEF Printed
        <3> DEFINE A == AllLines(macho)
        <3>2. out \in Seq(A)
            BY <2>1
        <3> HIDE DEF A
        <3>3. out \o <<>> = out
            BY <3>2, ConcatEmptySeq
        <3> QED BY <3>1, <3>3
    <2>3. Len(CommandLines(loadCommands(macho))) = macho.ncmds
        <3>1. macho.sizeofcmds \in Nat /\ macho.ncmds = Len(loadCommands(macho))
            BY <2>1, ToolsAssumption DEF IsCounted
        <3>2. loadCommands(macho) \in Seq(Commands(macho))
            BY <3>1, CommandsAre
        <3>3. \A U : \A t \in Seq(U) : Len(CommandLines(t)) = Len(t)
            BY CommandLinesAre
        <3> QED BY <3>1, <3>2, <3>3
    <2> QED BY <2>2, <2>3
<1> QED BY <1>1, DumpIsWhole, PTL

\* Without re-exported libraries, those the ordinals count are those of the map.
LEMMA LibrariesAre ==
    ASSUME NEW m \in Files, WellFormed(m), OfType(m, {"REEXPORT_DYLIB"}) = <<>>
    PROVE  m.libraries = dylibNamesMap(m) /\ 0 \notin DOMAIN m.libraries
<1> DEFINE all == OfType(m, {"LOAD_DYLIB", "LOAD_WEAK_DYLIB", "REEXPORT_DYLIB"})
           some == OfType(m, {"LOAD_DYLIB", "LOAD_WEAK_DYLIB"})
<1>1. m.sizeofcmds \in Nat /\ m.libraries = [i \in DOMAIN all |-> all[i].name]
    BY ToolsAssumption DEF IsLinked
<1>2. all = some
    <2>1. {"LOAD_DYLIB", "LOAD_WEAK_DYLIB", "REEXPORT_DYLIB"}
             = {"LOAD_DYLIB", "LOAD_WEAK_DYLIB"} \cup {"REEXPORT_DYLIB"}
        OBVIOUS
    <2>2. OfType(m, {"LOAD_DYLIB", "LOAD_WEAK_DYLIB"} \cup {"REEXPORT_DYLIB"}) = some
        BY <1>1, WithoutType
    <2> QED BY <2>1, <2>2
<1>3. dylibNamesMap(m) = [i \in DOMAIN some |-> some[i].name]
    BY DEF dylibNamesMap, importedDylibCommands
<1>4. 0 \notin DOMAIN all
    <2>1. all \in Seq(Commands(m))
        BY <1>1, OfTypeIs
    <2> HIDE DEF all
    <2> QED BY <2>1
<1> HIDE DEF all, some
<1> QED BY <1>1, <1>2, <1>3, <1>4

\* The dump names the right library for every undefined symbol of a file that
\* re-exports none.
THEOREM LibrariesAreRight == ToolsSpec => []UndefFromItsLibrary
<1>1. DumpInv => UndefFromItsLibrary
    <2> SUFFICES ASSUME DumpInv, NEW i \in DOMAIN out, out[i].line = "undef", WellFormed(macho),
                        OfType(macho, {"REEXPORT_DYLIB"}) = <<>>
                 PROVE  \E nl \in {symtab(macho).nlists[j] : j \in DOMAIN symtab(macho).nlists} :
                            /\ nl.name = out[i].name
                            /\ nl.ordinal \in DOMAIN macho.libraries =>
                                   out[i].from = macho.libraries[nl.ordinal]
        BY DEF UndefFromItsLibrary
    <2>1. macho \in Files /\ out \in Seq(AllLines(macho))
        <3>1. out # <<>>
            OBVIOUS
        <3>2. macho \in Files /\ DumpIs
            BY <3>1 DEF DumpInv
        <3> QED BY <3>2 DEF DumpIs
    <2>2. out[i] \in UndefLineSet(macho)
        <3>1. out[i] \in AllLines(macho)
            <4> DEFINE A == AllLines(macho)
            <4>1. out \in Seq(A)
                BY <2>1
            <4> HIDE DEF A
            <4>2. out[i] \in A
                BY <4>1
            <4> QED BY <4>2 DEF A
        <3>2. \A e \in CommandLineSet(macho) : e.line = "lc"
            BY DEF CommandLineSet, CommandLinesOf
        <3>3. \A e \in IndirectLineSet(macho) : e.line = "indirect"
            BY DEF IndirectLineSet, NameLines
        <3>4. \A e \in FilesetLineSet(macho) : e.line = "filesets"
            BY DEF FilesetLineSet, NameLines
        <3> QED BY <3>1, <3>2, <3>3, <3>4 DEF AllLines
    <2>3. PICK nl \in Range(undef_syms(macho)) : out[i] = UndefLine(nl, dylibNamesMap(macho))
        BY <2>2 DEF UndefLineSet, UndefLinesOf
    <2>4. nl \in Range(nlists(macho)) /\ symtab(macho) # nullptr
        <3>1. undef_syms(macho) # <<>>
            BY <2>3 DEF Range
        <3> QED BY <2>1, <2>3, <3>1, ListsAre
    <2>5. nl \in {symtab(macho).nlists[j] : j \in DOMAIN symtab(macho).nlists}
        BY <2>4 DEF nlists, Range
    <2>6. out[i].name = nl.name /\ out[i].from = dylibName(nl, dylibNamesMap(macho))
        BY <2>3 DEF UndefLine
    <2>7. ASSUME nl.ordinal \in DOMAIN macho.libraries
          PROVE  out[i].from = macho.libraries[nl.ordinal]
        <3>1. macho.libraries = dylibNamesMap(macho) /\ nl.ordinal # 0
            BY <2>1, <2>7, LibrariesAre
        <3>2. dylibName(nl, dylibNamesMap(macho)) = dylibNamesMap(macho)[nl.ordinal]
            BY <2>7, <3>1 DEF dylibName
        <3> QED BY <2>6, <3>1, <3>2
    <2> QED BY <2>5, <2>6, <2>7
<1> QED BY <1>1, DumpIsWhole, PTL

-----------------------------------------------------------------------------
(* The preparation of a kernelcache *)

old == before.dt
MachHeaderRegion == "Kernel-mach_header"
PayloadRegion == "Kernel-PYLD"

\* The steps that may still give up, and the ones from which a part is found.
Early == {"boot args", "mach_header", "payload", "kernelcache", "sepfw", "copy sepfw",
          "boot args region"}
BehindBootArgs == {"copy boot args", "copy stub", "reserve", "segments", "regs", "patch",
                   "next stage", "stub"}
BehindSepfw == BehindBootArgs \cup {"copy sepfw", "boot args region"}
BehindPayload == BehindSepfw \cup {"kernelcache", "sepfw"}
BehindMachHeader == BehindPayload \cup {"payload"}

\* What iBoot may have left.
ValidInput ==
    /\ VmSize(kc) \in Nat \ {0}
    /\ MemoryMap(old) # Nil => HasRoom(old, kc)

AtFields ==
    locals = [machoBase |-> locals.machoBase, payload |-> locals.payload, entry |-> locals.entry,
          sepfw |-> locals.sepfw, ba |-> locals.ba, stub |-> locals.stub, number |-> locals.number,
          region |-> locals.region]

\* Where the parts have been found and the image is extended.
Placed ==
    /\ stage \in BehindMachHeader \cup {"mach_header"} => MemoryMap(old) # Nil
    /\ stage \in BehindMachHeader =>
          HasRegister(old, MachHeaderRegion) /\ locals.machoBase = Reg(old, MachHeaderRegion).base
    /\ stage \in BehindPayload =>
          HasRegister(old, PayloadRegion) /\ locals.payload = Reg(old, PayloadRegion).base
    /\ stage \in BehindSepfw => HasRegister(old, "SEPFW") /\ locals.sepfw = locals.payload + VmSize(kc)
    /\ stage \in BehindBootArgs =>
          /\ HasRegister(old, "BootArgs")
          /\ locals.stub = locals.sepfw + Reg(old, "SEPFW").size + Reg(old, "BootArgs").size

\* Until it cannot give up any more, the tree is as it was, and so is the memory
\* but for the copy of SEPFW.
SepfwCopied ==
    /\ locals.sepfw > 0 /\ locals.sepfw = locals.payload + VmSize(kc)
    /\ \A a \in DOMAIN memory : memory[a] # before.memory[a] =>
          a \in locals.sepfw .. locals.sepfw + Reg(old, "SEPFW").size - 1

Unharmed ==
    /\ stage \in Early \cup {"returned"} => dt = old
    /\ stage \in Early \ {"boot args region"} => memory = before.memory
    /\ stage \in {"boot args region", "returned"} => memory = before.memory \/ SepfwCopied

\* The stub has moved 2 * r units of an even number of them.
Moving(r) ==
    /\ stub.x1 = locals.payload + 2 * r /\ stub.x2 = locals.machoBase + 2 * r
    /\ stub.x3 = (locals.stub - locals.payload) - 2 * r /\ stub.x3 > 0

Pairs ==
    /\ stage = "stub" /\ (locals.stub - locals.payload) % 2 = 0 => \E r \in Nat : Moving(r)
    /\ stage = "runaway" => (locals.stub - locals.payload) % 2 = 1

BootInv == ValidInput /\ AtFields /\ Placed /\ Unharmed /\ Pairs

-----------------------------------------------------------------------------
LEMMA BootInit == Init => BootInv
<1> SUFFICES ASSUME Init PROVE BootInv
    OBVIOUS
<1>1. PICK in \in Inputs :
          /\ kc = in.kc /\ dt = in.tree
          /\ before = [dt |-> in.tree, memory |-> memory]
    BY Zenon DEF Init
<1>2. old = in.tree /\ dt = old /\ memory = before.memory
    BY <1>1 DEF old
<1>3. stage = "boot args" /\ AtFields
    BY DEF Init, AtFields
<1>4. ValidInput
    BY <1>1, <1>2, XNUBootAssumption DEF ValidInput
<1>5. Placed
    BY <1>3 DEF Placed, BehindMachHeader, BehindPayload, BehindSepfw, BehindBootArgs
<1>6. Unharmed
    BY <1>2, <1>3 DEF Unharmed
<1>7. Pairs
    BY <1>3 DEF Pairs
<1> QED BY <1>3, <1>4, <1>5, <1>6, <1>7 DEF BootInv

\* Giving up or failing changes nothing else.
LEMMA EndInv ==
    ASSUME BootInv, NEW how \in {"returned", "aborted"}, stage \in Early \/ how = "aborted", End(how)
    PROVE  BootInv'
<1>1. /\ stage' = how /\ UNCHANGED <<kc, before, dt, memory, locals, stub>>
    BY DEF End, input
<1>2. ValidInput' /\ AtFields' /\ old' = old
    BY <1>1 DEF BootInv, ValidInput, AtFields, old
<1>3. Placed'
    BY <1>1 DEF Placed, BehindMachHeader, BehindPayload, BehindSepfw, BehindBootArgs
<1>4. Unharmed'
    BY <1>1, <1>2 DEF BootInv, Unharmed, SepfwCopied, Early
<1>5. Pairs'
    BY <1>1 DEF Pairs
<1> QED BY <1>2, <1>3, <1>4, <1>5 DEF BootInv

-----------------------------------------------------------------------------
(* The steps *)

\* What the invariant says of the step before finding a part.
LEMMA OldTree ==
    ASSUME BootInv, stage \in Early
    PROVE  dt = old /\ (stage # "boot args" => HasRoom(old, kc))
<1>1. dt = old
    BY DEF BootInv, Unharmed
<1>2. stage # "boot args" => MemoryMap(old) # Nil
    BY DEF BootInv, Placed, Early, BehindMachHeader, BehindPayload, BehindSepfw
<1> QED BY <1>1, <1>2 DEF BootInv, ValidInput

LEMMA BootArgsInv == BootInv /\ BootArgs => BootInv'
<1> SUFFICES ASSUME BootInv, BootArgs PROVE BootInv'
    OBVIOUS
<1>1. stage = "boot args" /\ stage \in Early
    BY DEF BootArgs, Early
<1>2. CASE End("returned")
    BY <1>1, <1>2, EndInv
<1>3. CASE IsAskedFor /\ Goto("mach_header") /\ UNCHANGED <<input, dt, memory, locals, stub>>
    <2>1. /\ stage' = "mach_header" /\ UNCHANGED <<kc, before, dt, memory, locals, stub>>
        BY <1>3 DEF Goto, input
    <2>2. ValidInput' /\ AtFields' /\ old' = old
        BY <2>1 DEF BootInv, ValidInput, AtFields, old
    <2>3. MemoryMap(old) # Nil
        BY <1>1, <1>3, OldTree DEF IsAskedFor
    <2>4. Placed'
        BY <2>1, <2>2, <2>3 DEF Placed, BehindMachHeader, BehindPayload, BehindSepfw, BehindBootArgs
    <2>5. Unharmed'
        BY <1>1, <2>1, <2>2 DEF BootInv, Unharmed, Early
    <2>6. Pairs'
        BY <2>1 DEF Pairs
    <2> QED BY <2>2, <2>4, <2>5, <2>6 DEF BootInv
<1> QED BY <1>2, <1>3 DEF BootArgs

LEMMA MissingInv ==
    ASSUME BootInv, NEW step \in Early, NEW name, Missing(step, name)
    PROVE  BootInv'
    BY EndInv DEF Missing

\* A step that finds a part: what it sets is in the place it says.
LEMMA FoundInv ==
    ASSUME BootInv, NEW step \in Early, NEW name, NEW next, Found(step, name, next)
    PROVE  /\ stage = step /\ stage' = next /\ UNCHANGED <<kc, before, dt, memory, stub>>
           /\ dt = old /\ HasRegister(old, name) /\ ValidInput' /\ old' = old
<1>1. /\ stage = step /\ stage' = next /\ UNCHANGED <<kc, before, dt, memory, stub>>
      /\ HasRegister(dt, name)
    BY DEF Found, Goto, input
<1>2. dt = old
    BY <1>1, OldTree
<1>3. ValidInput' /\ old' = old
    BY <1>1 DEF BootInv, ValidInput, old
<1> QED BY <1>1, <1>2, <1>3

LEMMA MachHeaderInv == BootInv /\ MachHeader => BootInv'
<1> SUFFICES ASSUME BootInv, MachHeader PROVE BootInv'
    OBVIOUS
<1> DEFINE step == "mach_header"
<1>0. step \in Early
    BY DEF Early
<1>1. CASE Missing(step, MachHeaderRegion)
    BY <1>0, <1>1, MissingInv
<1>2. CASE /\ Found(step, MachHeaderRegion, "payload")
           /\ locals' = [locals EXCEPT !.machoBase = Reg(dt, MachHeaderRegion).base]
    <2>1. /\ stage = step /\ stage' = "payload" /\ UNCHANGED <<kc, before, dt, memory, stub>>
          /\ dt = old /\ HasRegister(old, MachHeaderRegion) /\ ValidInput' /\ old' = old
        BY <1>0, <1>2, FoundInv
    <2>2. AtFields' /\ locals'.machoBase = Reg(old, MachHeaderRegion).base
        BY <1>2, <2>1 DEF BootInv, AtFields
    <2>3. MemoryMap(old) # Nil
        BY <2>1 DEF BootInv, Placed
    <2>4. Placed'
        BY <2>1, <2>2, <2>3 DEF Placed, BehindMachHeader, BehindPayload, BehindSepfw, BehindBootArgs
    <2>5. Unharmed'
        BY <2>1 DEF BootInv, Unharmed, Early
    <2>6. Pairs'
        BY <2>1 DEF Pairs
    <2> QED BY <2>1, <2>2, <2>4, <2>5, <2>6 DEF BootInv
<1> QED BY <1>1, <1>2 DEF MachHeader, MachHeaderRegion

LEMMA PayloadInv == BootInv /\ Payload => BootInv'
<1> SUFFICES ASSUME BootInv, Payload PROVE BootInv'
    OBVIOUS
<1> DEFINE step == "payload"
<1>0. step \in Early
    BY DEF Early
<1>1. CASE Missing(step, PayloadRegion)
    BY <1>0, <1>1, MissingInv
<1>2. CASE /\ Found(step, PayloadRegion, "kernelcache")
           /\ locals' = [locals EXCEPT !.payload = Reg(dt, PayloadRegion).base]
    <2>1. /\ stage = step /\ stage' = "kernelcache" /\ UNCHANGED <<kc, before, dt, memory, stub>>
          /\ dt = old /\ HasRegister(old, PayloadRegion) /\ ValidInput' /\ old' = old
        BY <1>0, <1>2, FoundInv
    <2>2. AtFields' /\ locals'.payload = Reg(old, PayloadRegion).base /\ locals'.machoBase = locals.machoBase
        BY <1>2, <2>1 DEF BootInv, AtFields
    <2>3. /\ MemoryMap(old) # Nil /\ HasRegister(old, MachHeaderRegion)
          /\ locals.machoBase = Reg(old, MachHeaderRegion).base
        BY <2>1 DEF BootInv, Placed, BehindMachHeader
    <2>4. Placed'
        BY <2>1, <2>2, <2>3 DEF Placed, BehindMachHeader, BehindPayload, BehindSepfw, BehindBootArgs
    <2>5. Unharmed'
        BY <2>1 DEF BootInv, Unharmed, Early
    <2>6. Pairs'
        BY <2>1 DEF Pairs
    <2> QED BY <2>1, <2>2, <2>4, <2>5, <2>6 DEF BootInv
<1> QED BY <1>1, <1>2 DEF Payload, PayloadRegion

LEMMA KernelcacheInv == BootInv /\ Kernelcache => BootInv'
<1> SUFFICES ASSUME BootInv, Kernelcache PROVE BootInv'
    OBVIOUS
<1>0. stage = "kernelcache" /\ stage \in Early
    BY DEF Kernelcache, Early
<1>1. CASE End("returned")
    BY <1>0, <1>1, EndInv
<1>2. CASE /\ KernelcacheIsHandled /\ Goto("sepfw")
           /\ locals' = [locals EXCEPT !.entry = locals.machoBase + kc.pc - VmMin(kc)]
           /\ UNCHANGED <<input, dt, memory, stub>>
    <2>1. stage' = "sepfw" /\ UNCHANGED <<kc, before, dt, memory, stub>>
        BY <1>2 DEF Goto, input
    <2>2. ValidInput' /\ old' = old
        BY <2>1 DEF BootInv, ValidInput, old
    <2>3. AtFields' /\ locals'.payload = locals.payload /\ locals'.machoBase = locals.machoBase
        BY <1>2 DEF BootInv, AtFields
    <2>4. /\ MemoryMap(old) # Nil
          /\ HasRegister(old, MachHeaderRegion) /\ locals.machoBase = Reg(old, MachHeaderRegion).base
          /\ HasRegister(old, PayloadRegion) /\ locals.payload = Reg(old, PayloadRegion).base
        BY <1>0 DEF BootInv, Placed, BehindMachHeader, BehindPayload
    <2>5. Placed'
        BY <2>1, <2>2, <2>3, <2>4 DEF Placed, BehindMachHeader, BehindPayload, BehindSepfw, BehindBootArgs
    <2>6. Unharmed'
        BY <1>0, <2>1, <2>2 DEF BootInv, Unharmed, Early
    <2>7. Pairs'
        BY <2>1 DEF Pairs
    <2> QED BY <2>2, <2>3, <2>5, <2>6, <2>7 DEF BootInv
<1> QED BY <1>1, <1>2 DEF Kernelcache

LEMMA SepfwInv == BootInv /\ Sepfw => BootInv'
<1> SUFFICES ASSUME BootInv, Sepfw PROVE BootInv'
    OBVIOUS
<1> DEFINE step == "sepfw"
<1>0. step \in Early
    BY DEF Early
<1>1. CASE Missing(step, "SEPFW")
    BY <1>0, <1>1, MissingInv
<1>2. CASE /\ Found(step, "SEPFW", "copy sepfw")
           /\ locals' = [locals EXCEPT !.sepfw = locals.payload + VmSize(kc)]
    <2>1. /\ stage = step /\ stage' = "copy sepfw" /\ UNCHANGED <<kc, before, dt, memory, stub>>
          /\ dt = old /\ HasRegister(old, "SEPFW") /\ ValidInput' /\ old' = old
        BY <1>0, <1>2, FoundInv
    <2>2. /\ AtFields' /\ locals'.payload = locals.payload /\ locals'.machoBase = locals.machoBase
          /\ locals'.sepfw = locals.payload + VmSize(kc)
        BY <1>2, <2>1 DEF BootInv, AtFields
    <2>3. /\ MemoryMap(old) # Nil
          /\ HasRegister(old, MachHeaderRegion) /\ locals.machoBase = Reg(old, MachHeaderRegion).base
          /\ HasRegister(old, PayloadRegion) /\ locals.payload = Reg(old, PayloadRegion).base
        BY <2>1 DEF BootInv, Placed, BehindMachHeader, BehindPayload
    <2>4. Placed'
        BY <2>1, <2>2, <2>3 DEF Placed, BehindMachHeader, BehindPayload, BehindSepfw, BehindBootArgs
    <2>5. Unharmed'
        BY <2>1 DEF BootInv, Unharmed, Early
    <2>6. Pairs'
        BY <2>1 DEF Pairs
    <2> QED BY <2>1, <2>2, <2>4, <2>5, <2>6 DEF BootInv
<1> QED BY <1>1, <1>2 DEF Sepfw

\* What the steps from SEPFW on rely on.
LEMMA PlacedBehindSepfw ==
    ASSUME BootInv, stage \in BehindSepfw
    PROVE  /\ MemoryMap(old) # Nil /\ HasRoom(old, kc)
           /\ HasRegister(old, MachHeaderRegion) /\ locals.machoBase = Reg(old, MachHeaderRegion).base
           /\ HasRegister(old, PayloadRegion) /\ locals.payload = Reg(old, PayloadRegion).base
           /\ HasRegister(old, "SEPFW") /\ locals.sepfw = locals.payload + VmSize(kc)
           /\ locals.payload \in Nat /\ VmSize(kc) \in Nat \ {0}
<1>1. /\ MemoryMap(old) # Nil
      /\ HasRegister(old, MachHeaderRegion) /\ locals.machoBase = Reg(old, MachHeaderRegion).base
      /\ HasRegister(old, PayloadRegion) /\ locals.payload = Reg(old, PayloadRegion).base
      /\ HasRegister(old, "SEPFW") /\ locals.sepfw = locals.payload + VmSize(kc)
    BY DEF BootInv, Placed, BehindPayload, BehindMachHeader
<1>2. HasRoom(old, kc) /\ VmSize(kc) \in Nat \ {0}
    BY <1>1 DEF BootInv, ValidInput
<1>3. locals.payload \in Nat
    BY <1>1, <1>2 DEF HasRoom, PayloadRegion
<1> QED BY <1>1, <1>2, <1>3

LEMMA CopySepfwInv == BootInv /\ CopySepfw => BootInv'
<1> SUFFICES ASSUME BootInv, CopySepfw PROVE BootInv'
    OBVIOUS
<1>1. /\ stage = "copy sepfw" /\ stage' = "boot args region"
      /\ UNCHANGED <<kc, before, dt, locals, stub>>
      /\ memory' = MemCpy(memory, Reg(dt, "SEPFW").base, locals.sepfw, Reg(dt, "SEPFW").size)
    BY DEF CopySepfw, Goto, input, CopyTo
<1>2. stage \in BehindSepfw /\ stage \in Early
    BY <1>1 DEF BehindSepfw, Early
<1>3. ValidInput' /\ AtFields' /\ old' = old
    BY <1>1 DEF BootInv, ValidInput, AtFields, old
<1>4. Placed'
    BY <1>1, <1>2, <1>3, PlacedBehindSepfw
    DEF Placed, BehindMachHeader, BehindPayload, BehindSepfw, BehindBootArgs
<1>5. Unharmed'
    <2>1. dt = old /\ memory = before.memory
        BY <1>1, <1>2 DEF BootInv, Unharmed
    <2>2. locals.sepfw > 0 /\ locals.sepfw = locals.payload + VmSize(kc)
        BY <1>2, PlacedBehindSepfw
    <2>3. \A a \in DOMAIN memory' : memory'[a] # before.memory[a] =>
             a \in locals.sepfw .. locals.sepfw + Reg(old, "SEPFW").size - 1
        BY <1>1, <2>1 DEF MemCpy
    <2>4. SepfwCopied'
        BY <1>1, <1>3, <2>2, <2>3 DEF SepfwCopied
    <2> QED BY <1>1, <1>3, <2>1, <2>4 DEF Unharmed, Early
<1>6. Pairs'
    BY <1>1 DEF Pairs
<1> QED BY <1>3, <1>4, <1>5, <1>6 DEF BootInv

LEMMA BootArgsRegionInv == BootInv /\ BootArgsRegion => BootInv'
<1> SUFFICES ASSUME BootInv, BootArgsRegion PROVE BootInv'
    OBVIOUS
<1> DEFINE step == "boot args region"
           ba == locals.sepfw + Reg(dt, "SEPFW").size
<1>0. step \in Early /\ step \in BehindSepfw
    BY DEF Early, BehindSepfw
<1>1. CASE Missing(step, "BootArgs")
    BY <1>0, <1>1, MissingInv
<1>2. CASE /\ Found(step, "BootArgs", "copy boot args")
           /\ locals' = [locals EXCEPT !.ba = ba, !.stub = ba + Reg(dt, "BootArgs").size]
    <2>1. /\ stage = step /\ stage' = "copy boot args" /\ UNCHANGED <<kc, before, dt, memory, stub>>
          /\ dt = old /\ HasRegister(old, "BootArgs") /\ ValidInput' /\ old' = old
        BY <1>0, <1>2, FoundInv
    <2>2. /\ AtFields' /\ locals'.payload = locals.payload /\ locals'.machoBase = locals.machoBase
          /\ locals'.sepfw = locals.sepfw
          /\ locals'.stub = locals.sepfw + Reg(old, "SEPFW").size + Reg(old, "BootArgs").size
        BY <1>2, <2>1 DEF BootInv, AtFields
    <2>3. Placed'
        BY <1>0, <2>1, <2>2, PlacedBehindSepfw
        DEF Placed, BehindMachHeader, BehindPayload, BehindSepfw, BehindBootArgs
    <2>4. Unharmed'
        BY <2>1 DEF Unharmed, Early
    <2>5. Pairs'
        BY <2>1 DEF Pairs
    <2> QED BY <2>1, <2>2, <2>3, <2>4, <2>5 DEF BootInv
<1> QED BY <1>1, <1>2 DEF BootArgsRegion

\* From then on the steps leave alone what was found: what they change are the
\* memory, the tree, and the numbers of regions.
LEMMA GoesOn ==
    ASSUME BootInv, stage \in BehindBootArgs, stage' \in BehindBootArgs, UNCHANGED <<kc, before>>,
           NEW number, NEW region, locals' = [locals EXCEPT !.number = number, !.region = region], Pairs'
    PROVE  BootInv'
<1>1. /\ AtFields' /\ locals'.payload = locals.payload /\ locals'.machoBase = locals.machoBase
      /\ locals'.sepfw = locals.sepfw /\ locals'.stub = locals.stub
    BY DEF BootInv, AtFields
<1>2. ValidInput' /\ old' = old
    BY DEF BootInv, ValidInput, old
<1>3. Placed'
    BY <1>1, <1>2 DEF BootInv, Placed, BehindMachHeader, BehindPayload, BehindSepfw
<1>4. Unharmed'
    BY DEF Unharmed, Early, BehindBootArgs
<1> QED BY <1>1, <1>2, <1>3, <1>4 DEF BootInv

LEMMA AtUnchanged == AtFields => locals = [locals EXCEPT !.number = locals.number, !.region = locals.region]
    BY DEF AtFields

LEMMA LaterEndInv ==
    ASSUME BootInv, End("aborted") PROVE BootInv'
    BY EndInv

LEMMA CopyBootArgsInv == BootInv /\ (CopyBootArgs \/ CopyStub \/ Regs) => BootInv'
<1> SUFFICES ASSUME BootInv, CopyBootArgs \/ CopyStub \/ Regs PROVE BootInv'
    BY SMTT(60)
<1>1. /\ stage \in BehindBootArgs /\ stage' \in BehindBootArgs /\ stage' \notin {"stub", "runaway"}
      /\ UNCHANGED <<kc, before, locals>>
    BY DEF CopyBootArgs, CopyStub, Regs, Goto, input, BehindBootArgs
<1>2. Pairs'
    BY <1>1 DEF Pairs
<1>3. locals' = [locals EXCEPT !.number = locals.number, !.region = locals.region]
    BY <1>1, AtUnchanged DEF BootInv
<1> QED BY <1>1, <1>2, <1>3, GoesOn

LEMMA ReserveInv == BootInv /\ Reserve => BootInv'
<1> SUFFICES ASSUME BootInv, Reserve, ~ End("aborted") PROVE BootInv'
    BY LaterEndInv
<1>1. stage = "reserve" /\ stage' \in {"reserve", "segments"} /\ UNCHANGED <<kc, before>>
    BY DEF Reserve, Goto, input
<1>2. Pairs' /\ stage \in BehindBootArgs /\ stage' \in BehindBootArgs
    BY <1>1 DEF Pairs, BehindBootArgs
<1>3. \E number, region : locals' = [locals EXCEPT !.number = number, !.region = region]
    <2>1. CASE locals' = locals
        BY <2>1, AtUnchanged DEF BootInv
    <2>2. CASE \E region : locals' = [locals EXCEPT !.region = region]
        <3>1. PICK region : locals' = [locals EXCEPT !.region = region]
            BY <2>2
        <3>2. locals' = [locals EXCEPT !.number = locals.number, !.region = region]
            BY <3>1 DEF BootInv, AtFields
        <3> QED BY <3>2
    <2>3. CASE \E number : locals' = [locals EXCEPT !.number = number]
        <3>1. PICK number : locals' = [locals EXCEPT !.number = number]
            BY <2>3
        <3>2. locals' = [locals EXCEPT !.number = number, !.region = locals.region]
            BY <3>1 DEF BootInv, AtFields
        <3> QED BY <3>2
    <2>4. \/ locals' = locals \/ \E region : locals' = [locals EXCEPT !.region = region]
          \/ \E number : locals' = [locals EXCEPT !.number = number]
        BY Zenon DEF Reserve
    <2> QED BY <2>1, <2>2, <2>3, <2>4
<1> QED BY <1>1, <1>2, <1>3, GoesOn

LEMMA SegmentInv == BootInv /\ Segment => BootInv'
<1> SUFFICES ASSUME BootInv, Segment, ~ End("aborted") PROVE BootInv'
    BY LaterEndInv
<1>1. stage = "segments" /\ stage' \in {"segments", "regs"} /\ UNCHANGED <<kc, before>>
    BY DEF Segment, Goto, input
<1>2. Pairs' /\ stage \in BehindBootArgs /\ stage' \in BehindBootArgs
    BY <1>1 DEF Pairs, BehindBootArgs
<1>3. \E number, region : locals' = [locals EXCEPT !.number = number, !.region = region]
    <2>1. CASE locals' = locals
        BY <2>1, AtUnchanged DEF BootInv
    <2>2. CASE \E region : locals' = [locals EXCEPT !.region = region]
        <3>1. PICK region : locals' = [locals EXCEPT !.region = region]
            BY <2>2
        <3>2. locals' = [locals EXCEPT !.number = locals.number, !.region = region]
            BY <3>1 DEF BootInv, AtFields
        <3> QED BY <3>2
    <2>3. locals' = locals \/ \E region : locals' = [locals EXCEPT !.region = region]
        BY Zenon DEF Segment
    <2> QED BY <2>1, <2>2, <2>3
<1> QED BY <1>1, <1>2, <1>3, GoesOn

LEMMA PatchInv == BootInv /\ Patch => BootInv'
<1> SUFFICES ASSUME BootInv, Patch, ~ End("aborted") PROVE BootInv'
    BY LaterEndInv
<1>1. stage = "patch" /\ stage' = "next stage" /\ UNCHANGED <<kc, before, locals>>
    BY DEF Patch, Goto, input
<1>2. Pairs' /\ stage \in BehindBootArgs /\ stage' \in BehindBootArgs
    BY <1>1 DEF Pairs, BehindBootArgs
<1>3. locals' = [locals EXCEPT !.number = locals.number, !.region = locals.region]
    BY <1>1, AtUnchanged DEF BootInv
<1> QED BY <1>1, <1>2, <1>3, GoesOn

\* What the stub moves, and that there is memory where it is and where it goes.
LEMMA ImageHasRoom ==
    ASSUME BootInv, stage \in BehindBootArgs
    PROVE  /\ locals.payload \in Nat /\ locals.machoBase \in Nat /\ locals.stub - locals.payload \in Nat \ {0}
           /\ locals.payload .. locals.payload + (locals.stub - locals.payload) - 1 \subseteq Addresses
           /\ locals.machoBase .. locals.machoBase + (locals.stub - locals.payload) - 1 \subseteq Addresses
<1> DEFINE size == VmSize(kc) + Reg(old, "SEPFW").size + Reg(old, "BootArgs").size
<1>1. /\ HasRoom(old, kc) /\ VmSize(kc) \in Nat \ {0}
      /\ HasRegister(old, MachHeaderRegion) /\ locals.machoBase = Reg(old, MachHeaderRegion).base
      /\ HasRegister(old, PayloadRegion) /\ locals.payload = Reg(old, PayloadRegion).base
      /\ HasRegister(old, "SEPFW") /\ locals.sepfw = locals.payload + VmSize(kc)
    BY PlacedBehindSepfw DEF BehindSepfw
<1>2. /\ HasRegister(old, "BootArgs")
      /\ locals.stub = locals.sepfw + Reg(old, "SEPFW").size + Reg(old, "BootArgs").size
    BY DEF BootInv, Placed
<1>3. /\ Reg(old, "SEPFW").size \in Nat /\ Reg(old, "BootArgs").size \in Nat
      /\ locals.payload \in Nat /\ locals.machoBase \in Nat
    BY <1>1, <1>2 DEF HasRoom, MachHeaderRegion, PayloadRegion
<1>4. locals.stub - locals.payload = size /\ size \in Nat \ {0}
    BY <1>1, <1>2, <1>3
<1>5. /\ locals.payload .. locals.payload + size - 1 \subseteq Addresses
      /\ locals.machoBase .. locals.machoBase + size - 1 \subseteq Addresses
    BY <1>1, <1>2, Zenon DEF HasRoom, MachHeaderRegion, PayloadRegion, size
<1> HIDE DEF size
<1> QED BY <1>3, <1>4, <1>5

LEMMA NextStageInv == BootInv /\ NextStage => BootInv'
<1> SUFFICES ASSUME BootInv, NextStage PROVE BootInv'
    OBVIOUS
<1>1. /\ stage = "next stage" /\ stage' = "stub" /\ UNCHANGED <<kc, before, locals>>
      /\ stub' = [x1 |-> locals.payload, x2 |-> locals.machoBase, x3 |-> locals.stub - locals.payload]
    BY DEF NextStage, Goto
<1>2. stage \in BehindBootArgs /\ stage' \in BehindBootArgs
    BY <1>1 DEF BehindBootArgs
<1>3. Pairs'
    <2>1. Moving(0)'
        <3>1. /\ locals.payload \in Nat /\ locals.machoBase \in Nat /\ locals.stub - locals.payload \in Nat \ {0}
              /\ locals' = locals
            BY <1>1, <1>2, ImageHasRoom
        <3>2. /\ stub'.x1 = locals.payload /\ stub'.x2 = locals.machoBase
              /\ stub'.x3 = locals.stub - locals.payload
            BY <1>1
        <3> DEFINE n == locals.stub - locals.payload
        <3>3. n \in Nat \ {0} /\ stub'.x3 = n
            BY <3>1, <3>2
        <3> HIDE DEF n
        <3>4. /\ stub'.x1 = locals.payload + 2 * 0 /\ stub'.x2 = locals.machoBase + 2 * 0
              /\ stub'.x3 = n - 2 * 0 /\ stub'.x3 > 0
            BY <3>1, <3>2, <3>3
        <3> QED BY <3>1, <3>4 DEF Moving, n
    <2> QED BY <1>1, <2>1 DEF Pairs
<1>4. locals' = [locals EXCEPT !.number = locals.number, !.region = locals.region]
    BY <1>1, AtUnchanged DEF BootInv
<1> QED BY <1>1, <1>2, <1>3, <1>4, GoesOn

LEMMA StubInv == BootInv /\ Stub => BootInv'
<1> SUFFICES ASSUME BootInv, Stub PROVE BootInv'
    OBVIOUS
<1> DEFINE n == locals.stub - locals.payload
<1>0. stage = "stub" /\ stage \in BehindBootArgs
    BY DEF Stub, BehindBootArgs
<1>1. /\ locals.payload \in Nat /\ locals.machoBase \in Nat /\ n \in Nat \ {0}
      /\ locals.payload .. locals.payload + n - 1 \subseteq Addresses
      /\ locals.machoBase .. locals.machoBase + n - 1 \subseteq Addresses
    BY <1>0, ImageHasRoom
<1>2. ASSUME n % 2 = 0, NEW r \in Nat, Moving(r)
      PROVE  /\ {stub.x1 + 1, stub.x2 + 1} \subseteq Addresses
             /\ stub.x3 - 2 > 0 \/ stub.x3 - 2 = 0
    <2>1. n \div 2 \in Int /\ n = 2 * (n \div 2)
        BY <1>1, <1>2, DivMod
    <2>2. /\ stub.x1 = locals.payload + 2 * r /\ stub.x2 = locals.machoBase + 2 * r
          /\ stub.x3 = n - 2 * r /\ stub.x3 > 0
        BY <1>2 DEF Moving
    <2> DEFINE h == n \div 2
    <2> HIDE DEF n, h
    <2>3. n = 2 * h /\ h \in Int
        BY <2>1 DEF h
    <2>4. n - 2 * r >= 2 /\ n \in Nat
        BY <1>1, <2>2, <2>3
    <2>5. /\ stub.x1 + 1 \in locals.payload .. locals.payload + n - 1
          /\ stub.x2 + 1 \in locals.machoBase .. locals.machoBase + n - 1
        BY <1>1, <2>2, <2>4
    <2>6. {stub.x1 + 1, stub.x2 + 1} \subseteq Addresses
        BY <1>1, <2>5
    <2>7. stub.x3 - 2 > 0 \/ stub.x3 - 2 = 0
        BY <2>2, <2>4
    <2> QED BY <2>6, <2>7
<1>3. n % 2 = 0 => \E r \in Nat : Moving(r)
    BY <1>0 DEF BootInv, Pairs
<1>4. CASE ~ {stub.x1 + 1, stub.x2 + 1} \subseteq Addresses /\ End("runaway")
    <2>1. stage' = "runaway" /\ UNCHANGED <<kc, before, locals>>
        BY <1>4 DEF End, input
    <2>2. n % 2 = 1
        <3>1. n % 2 # 0
            BY <1>2, <1>3, <1>4
        <3>2. n % 2 \in 0 .. 1
            BY <1>1, DivMod
        <3> HIDE DEF n
        <3> QED BY <3>1, <3>2
    <2>3. Pairs'
        BY <2>1, <2>2 DEF Pairs
    <2>4. Placed'
        BY <2>1 DEF Placed, BehindMachHeader, BehindPayload, BehindSepfw, BehindBootArgs
    <2>5. ValidInput' /\ AtFields'
        BY <2>1 DEF BootInv, ValidInput, AtFields, old
    <2>6. Unharmed'
        BY <2>1 DEF Unharmed, Early
    <2> QED BY <2>3, <2>4, <2>5, <2>6 DEF BootInv
<1>5. CASE /\ stub' = [x1 |-> stub.x1 + 2, x2 |-> stub.x2 + 2, x3 |-> Left(stub.x3)]
           /\ stage' = IF Left(stub.x3) = 0 THEN "entered" ELSE "stub"
           /\ UNCHANGED <<turn, input, dt, locals>>
    <2>1. UNCHANGED <<kc, before, locals>> /\ stage' \in {"entered", "stub"}
        BY <1>5 DEF input
    <2>2. ValidInput' /\ AtFields' /\ old' = old
        BY <2>1 DEF BootInv, ValidInput, AtFields, old
    <2>3. Placed'
        BY <1>0, <2>1, <2>2
        DEF BootInv, Placed, BehindMachHeader, BehindPayload, BehindSepfw, BehindBootArgs
    <2>4. Unharmed'
        BY <2>1 DEF Unharmed, Early
    <2>5. Pairs'
        <3> SUFFICES ASSUME stage' = "stub", n % 2 = 0 PROVE \E r \in Nat : Moving(r)'
            BY <2>1 DEF Pairs
        <3>1. PICK r \in Nat : Moving(r)
            BY <1>3
        <3>2. /\ stub.x1 = locals.payload + 2 * r /\ stub.x2 = locals.machoBase + 2 * r
              /\ stub.x3 = n - 2 * r
            BY <3>1 DEF Moving
        <3>3. stub.x3 - 2 > 0
            BY <1>2, <1>5, <3>1 DEF Left
        <3>4. /\ stub'.x1 = stub.x1 + 2 /\ stub'.x2 = stub.x2 + 2 /\ stub'.x3 = stub.x3 - 2
            BY <1>5 DEF Left
        <3>5. locals' = locals
            BY <2>1
        <3> HIDE DEF n
        <3>6. /\ stub'.x1 = locals.payload + 2 * (r + 1) /\ stub'.x2 = locals.machoBase + 2 * (r + 1)
              /\ stub'.x3 = n - 2 * (r + 1) /\ stub'.x3 > 0
            BY <1>1, <3>2, <3>3, <3>4
        <3>7. Moving(r + 1)'
            BY <3>5, <3>6 DEF Moving, n
        <3>8. r + 1 \in Nat
            OBVIOUS
        <3> HIDE DEF Moving
        <3> QED BY <3>7, <3>8
    <2> QED BY <2>2, <2>3, <2>4, <2>5 DEF BootInv
<1> QED BY <1>4, <1>5 DEF Stub

LEMMA BootStep == BootInv /\ [Next]_vars => BootInv'
<1> SUFFICES ASSUME BootInv, [Next]_vars PROVE BootInv'
    OBVIOUS
<1>1. CASE UNCHANGED vars
    BY <1>1, ZenonT(60) DEF vars, BootInv, ValidInput, AtFields, Placed, Unharmed, SepfwCopied, Pairs, Moving, old
<1>2. CASE BootArgs \/ MachHeader \/ Payload \/ Kernelcache \/ Sepfw \/ CopySepfw
    BY <1>2, BootArgsInv, MachHeaderInv, PayloadInv, KernelcacheInv, SepfwInv, CopySepfwInv, Zenon
<1>3. CASE BootArgsRegion \/ CopyBootArgs \/ CopyStub \/ Reserve \/ Segment \/ Regs
    BY <1>3, BootArgsRegionInv, CopyBootArgsInv, ReserveInv, SegmentInv, Zenon
<1>4. CASE Patch \/ NextStage \/ Stub
    BY <1>4, PatchInv, NextStageInv, StubInv, Zenon
<1> QED BY <1>1, <1>2, <1>3, <1>4, Zenon DEF Next

\* Until the function cannot give up any more the tree is the one it was given, and
\* the parts are where the tree says (load_and_prep_xnu_kernelcache).
THEOREM BootInvariant == Spec => []BootInv
    BY BootInit, BootStep, PTL DEF Spec

\* Returning early leaves the tree as it was, and the memory but for a copy of SEPFW
\* behind the payload, whatever is missing (load_and_prep_xnu_kernelcache).
THEOREM AlwaysBailingOutIsHarmless == Spec => []BailingOutIsHarmless
<1>1. BootInv => BailingOutIsHarmless
    <2> SUFFICES ASSUME BootInv, stage = "returned" PROVE BailingOutIsHarmless
        BY DEF BailingOutIsHarmless
    <2>1. dt = old /\ (memory = before.memory \/ SepfwCopied)
        BY DEF BootInv, Unharmed
    <2> QED BY <2>1 DEF BailingOutIsHarmless, SepfwCopied, old
<1> QED BY <1>1, BootInvariant, PTL

\* The stub's loop ends, whatever the sizes of the parts, when they are a whole
\* number of pairs of registers together (xnu_jump_stub).
THEOREM AlwaysStubEnds == Spec => []StubEnds
<1>1. BootInv => StubEnds
    BY DEF BootInv, Pairs, StubEnds
<1> QED BY <1>1, BootInvariant, PTL

-----------------------------------------------------------------------------
(* What the stub moves *)

SepfwBase == Reg(old, "SEPFW").base
SepfwSize == Reg(old, "SEPFW").size
ArgsBase == Reg(old, "BootArgs").base
ArgsSize == Reg(old, "BootArgs").size
Total == VmSize(kc) + SepfwSize + ArgsSize

\* The units of the new image, from what iBoot has left.
ImageUnit(k) ==
    IF k < VmSize(kc) THEN before.memory[locals.payload + k]
    ELSE IF k < VmSize(kc) + SepfwSize THEN before.memory[SepfwBase + (k - VmSize(kc))]
    ELSE before.memory[ArgsBase + (k - (VmSize(kc) + SepfwSize))]

\* Its parts have been found.
Extended == BehindBootArgs \cup {"entered"}
PartsAreFound ==
    /\ locals.payload \in Nat /\ locals.machoBase \in Nat /\ VmSize(kc) \in Nat \ {0}
    /\ SepfwSize \in Nat /\ ArgsSize \in Nat /\ SepfwBase \in Nat /\ ArgsBase \in Nat
    /\ locals.sepfw = locals.payload + VmSize(kc) /\ locals.ba = locals.sepfw + SepfwSize
    /\ locals.stub = locals.payload + Total
    /\ locals.payload .. locals.payload + Total - 1 \subseteq Addresses
    /\ locals.machoBase .. locals.machoBase + Total - 1 \subseteq Addresses
    /\ SepfwBase .. SepfwBase + SepfwSize - 1 \subseteq Addresses
    /\ ArgsBase .. ArgsBase + ArgsSize - 1 \subseteq Addresses

\* The image is put together behind the payload; the stub has moved j units of it.
Together == \A k \in 0 .. Total - 1 : memory[locals.payload + k] = ImageUnit(k)
MovedUnits(j) ==
    /\ stub.x1 = locals.payload + j /\ stub.x2 = locals.machoBase + j /\ stub.x3 = Total - j
    /\ \A k \in 0 .. Total - 1 :
          IF k < j THEN memory[locals.machoBase + k] = ImageUnit(k)
          ELSE memory[locals.payload + k] = ImageUnit(k)

SepfwIsCopied ==
    \A a \in Addresses :
        memory[a] = IF a \in locals.sepfw .. locals.sepfw + SepfwSize - 1
                      THEN before.memory[a - locals.sepfw + SepfwBase] ELSE before.memory[a]

ImageParts ==
    /\ stage \in {"boot args region", "copy boot args"} => SepfwIsCopied
    /\ stage = "copy boot args" => dt = old
    /\ stage \in Extended => PartsAreFound
    /\ LayoutIsSound =>
          /\ stage \in BehindBootArgs \ {"copy boot args", "stub"} => Together
          /\ stage = "stub" => \E j \in Nat : MovedUnits(j)
          /\ stage = "entered" => \A k \in 0 .. Total - 1 : memory[locals.machoBase + k] = ImageUnit(k)

ImageInv ==
    /\ memory = [a \in Addresses |-> memory[a]]
    /\ before.memory = [a \in Addresses |-> before.memory[a]]
    /\ ImageParts

LEMMA ImageInit == Init => ImageInv
<1> SUFFICES ASSUME Init PROVE ImageInv
    OBVIOUS
<1>1. PICK in \in Inputs :
          /\ memory = Loaded(in.files)
          /\ before = [dt |-> in.tree, memory |-> Loaded(in.files)]
    BY Zenon DEF Init
<1>2. Loaded(in.files) = [a \in Addresses |-> Loaded(in.files)[a]]
    BY DEF Loaded
<1>3. stage = "boot args"
    BY DEF Init
<1>4. ImageParts
    BY <1>3 DEF ImageParts, Extended, BehindBootArgs
<1> QED BY <1>1, <1>2, <1>4 DEF ImageInv

\* A step that does not reach the image.
LEMMA ImageApart ==
    ASSUME ImageInv, UNCHANGED <<before, memory>>,
           stage' \notin {"boot args region"} \cup Extended
    PROVE  ImageInv'
<1>1. stage' \notin {"boot args region", "copy boot args", "stub", "entered"}
    BY DEF Extended, BehindBootArgs
<1>2. ImageParts'
    BY <1>1 DEF ImageParts, Extended
<1> QED BY <1>2 DEF ImageInv

\* A step that does not change what has been found.
LEMMA SameParts ==
    ASSUME UNCHANGED <<before, kc>>,
           locals'.payload = locals.payload, locals'.machoBase = locals.machoBase,
           locals'.sepfw = locals.sepfw, locals'.ba = locals.ba, locals'.stub = locals.stub
    PROVE  /\ PartsAreFound' = PartsAreFound /\ LayoutIsSound' = LayoutIsSound
           /\ Total' = Total /\ \A k : ImageUnit(k)' = ImageUnit(k)
<1>1. /\ SepfwBase' = SepfwBase /\ SepfwSize' = SepfwSize /\ ArgsBase' = ArgsBase
      /\ ArgsSize' = ArgsSize
    BY DEF SepfwBase, SepfwSize, ArgsBase, ArgsSize, old
<1>2. Total' = Total
    BY <1>1 DEF Total
<1>3. \A k : ImageUnit(k)' = ImageUnit(k)
    BY <1>1 DEF ImageUnit
<1>4. PartsAreFound' = PartsAreFound
    BY <1>1, <1>2 DEF PartsAreFound
<1>5. LayoutIsSound' = LayoutIsSound
    BY DEF LayoutIsSound
<1> QED BY <1>2, <1>3, <1>4, <1>5

LEMMA CopySepfwImage == BootInv /\ ImageInv /\ CopySepfw => ImageInv'
<1> SUFFICES ASSUME BootInv, ImageInv, CopySepfw PROVE ImageInv'
    OBVIOUS
<1>1. /\ stage = "copy sepfw" /\ stage' = "boot args region" /\ UNCHANGED <<kc, before, dt, locals>>
      /\ memory' = MemCpy(memory, Reg(dt, "SEPFW").base, locals.sepfw, Reg(dt, "SEPFW").size)
    BY DEF CopySepfw, Goto, input, CopyTo
<1>2. dt = old /\ memory = before.memory
    BY <1>1 DEF BootInv, Unharmed, Early
<1>3. memory' = MemCpy(before.memory, SepfwBase, locals.sepfw, SepfwSize)
    BY <1>1, <1>2 DEF SepfwBase, SepfwSize
<1>4. DOMAIN before.memory = Addresses
    BY DEF ImageInv
<1>5. memory' = [a \in Addresses |->
                   IF a \in locals.sepfw .. locals.sepfw + SepfwSize - 1
                     THEN before.memory[a - locals.sepfw + SepfwBase] ELSE before.memory[a]]
    BY <1>3, <1>4 DEF MemCpy
<1>6. SepfwBase' = SepfwBase /\ SepfwSize' = SepfwSize
    BY <1>1 DEF SepfwBase, SepfwSize, old
<1>7. SepfwIsCopied'
    BY <1>1, <1>5, <1>6 DEF SepfwIsCopied
<1>8. ImageParts'
    BY <1>1, <1>7 DEF ImageParts, Extended, BehindBootArgs
<1>9. memory' = [a \in Addresses |-> memory'[a]]
    BY <1>5
<1> QED BY <1>1, <1>8, <1>9 DEF ImageInv

LEMMA PartsAre ==
    ASSUME BootInv, stage \in BehindBootArgs, locals.ba = locals.sepfw + SepfwSize
    PROVE  PartsAreFound
<1>1. /\ HasRoom(old, kc) /\ VmSize(kc) \in Nat \ {0}
      /\ HasRegister(old, "Kernel-mach_header") /\ locals.machoBase = Reg(old, "Kernel-mach_header").base
      /\ HasRegister(old, "Kernel-PYLD") /\ locals.payload = Reg(old, "Kernel-PYLD").base
      /\ HasRegister(old, "SEPFW") /\ locals.sepfw = locals.payload + VmSize(kc)
    BY PlacedBehindSepfw DEF BehindSepfw, MachHeaderRegion, PayloadRegion
<1>2. HasRegister(old, "BootArgs") /\ locals.stub = locals.sepfw + SepfwSize + ArgsSize
    BY DEF BootInv, Placed, SepfwSize, ArgsSize
<1>3. /\ SepfwSize \in Nat /\ ArgsSize \in Nat /\ SepfwBase \in Nat /\ ArgsBase \in Nat
      /\ locals.payload \in Nat /\ locals.machoBase \in Nat
    BY <1>1, <1>2 DEF HasRoom, SepfwSize, ArgsSize, SepfwBase, ArgsBase
<1>4. \A name \in {"Kernel-mach_header", "Kernel-PYLD", "SEPFW", "BootArgs"} : HasRegister(old, name)
    BY <1>1, <1>2
<1>5. /\ \A name \in {"Kernel-mach_header", "Kernel-PYLD"} :
            Reg(old, name).base .. Reg(old, name).base + Total - 1 \subseteq Addresses
      /\ \A name \in {"SEPFW", "BootArgs"} :
            Reg(old, name).base .. Reg(old, name).base + Reg(old, name).size - 1 \subseteq Addresses
    BY <1>1, <1>4, Zenon DEF HasRoom, Total, SepfwSize, ArgsSize
<1>6. /\ locals.payload .. locals.payload + Total - 1 \subseteq Addresses
      /\ locals.machoBase .. locals.machoBase + Total - 1 \subseteq Addresses
    BY <1>1, <1>5, Zenon
<1>7. /\ SepfwBase .. SepfwBase + SepfwSize - 1 \subseteq Addresses
      /\ ArgsBase .. ArgsBase + ArgsSize - 1 \subseteq Addresses
    BY <1>5, Zenon DEF SepfwBase, SepfwSize, ArgsBase, ArgsSize
<1>8. locals.stub = locals.payload + Total
    BY <1>1, <1>2, <1>3 DEF Total
<1> QED BY <1>1, <1>3, <1>6, <1>7, <1>8 DEF PartsAreFound

LEMMA BootArgsRegionImage == BootInv /\ ImageInv /\ BootArgsRegion => ImageInv'
<1> SUFFICES ASSUME BootInv, ImageInv, BootArgsRegion PROVE ImageInv'
    OBVIOUS
<1>1. CASE Missing("boot args region", "BootArgs")
    <2>1. UNCHANGED <<before, memory>> /\ stage' \in {"returned", "aborted"}
        BY <1>1 DEF Missing, End, input
    <2>2. stage' \notin {"boot args region"} \cup Extended
        BY <2>1 DEF Extended, BehindBootArgs
    <2> QED BY <2>1, <2>2, ImageApart
<1>2. CASE ~Missing("boot args region", "BootArgs")
    <2> DEFINE ba == locals.sepfw + Reg(dt, "SEPFW").size
    <2>1. /\ Found("boot args region", "BootArgs", "copy boot args")
          /\ locals' = [locals EXCEPT !.ba = ba, !.stub = ba + Reg(dt, "BootArgs").size]
        BY <1>2 DEF BootArgsRegion
    <2>2. /\ stage = "boot args region" /\ stage' = "copy boot args"
          /\ UNCHANGED <<kc, before, dt, memory>> /\ dt = old
        BY <2>1, FoundInv DEF Early
    <2>3. BootInv'
        BY <2>1, BootStep DEF Next, BootArgsRegion
    <2>4. locals'.ba = ba /\ locals'.sepfw = locals.sepfw
        BY <2>1 DEF BootInv, AtFields
    <2>5. SepfwBase' = SepfwBase /\ SepfwSize' = SepfwSize
        BY <2>2 DEF SepfwBase, SepfwSize, old
    <2>6. locals'.ba = locals'.sepfw + SepfwSize'
        BY <2>2, <2>4, <2>5 DEF SepfwSize
    <2>7. (BootInv /\ stage \in BehindBootArgs /\ locals.ba = locals.sepfw + SepfwSize => PartsAreFound)'
        BY PartsAre, PTL
    <2>8. PartsAreFound'
        BY <2>2, <2>3, <2>6, <2>7 DEF BehindBootArgs
    <2>9. SepfwIsCopied'
        <3>1. SepfwIsCopied
            BY <2>2 DEF ImageInv, ImageParts
        <3> QED BY <2>2, <2>4, <2>5, <3>1 DEF SepfwIsCopied
    <2>10. ImageParts'
        BY <2>2, <2>8, <2>9 DEF ImageParts, old
    <2> QED BY <2>2, <2>10 DEF ImageInv
<1> QED BY <1>1, <1>2

\* The boot arguments are copied behind SEPFW: the image is put together, if the
\* copies have not hit them.
LEMMA CopyBootArgsImage == BootInv /\ ImageInv /\ CopyBootArgs => ImageInv'
<1> SUFFICES ASSUME BootInv, ImageInv, CopyBootArgs PROVE ImageInv'
    OBVIOUS
<1> DEFINE vm == VmSize(kc)
           payload == locals.payload
           sepfw == locals.sepfw
           ba == locals.ba
<1>1. /\ stage = "copy boot args" /\ stage' = "copy stub" /\ UNCHANGED <<kc, before, dt, locals>>
      /\ memory' = MemCpy(memory, Reg(dt, "BootArgs").base, locals.ba, Reg(dt, "BootArgs").size)
    BY DEF CopyBootArgs, Goto, input, CopyTo
<1>2. PartsAreFound /\ SepfwIsCopied /\ dt = old
    BY <1>1 DEF ImageInv, ImageParts, Extended, BehindBootArgs
<1>3. memory' = MemCpy(memory, ArgsBase, ba, ArgsSize)
    BY <1>1, <1>2 DEF ArgsBase, ArgsSize
<1>4. DOMAIN memory = Addresses
    BY DEF ImageInv
<1>5. memory' = [a \in Addresses |-> IF a \in ba .. ba + ArgsSize - 1
                                      THEN memory[a - ba + ArgsBase] ELSE memory[a]]
    BY <1>3, <1>4 DEF MemCpy
<1>6. \A a \in Addresses : memory[a] = IF a \in sepfw .. sepfw + SepfwSize - 1
                                         THEN before.memory[a - sepfw + SepfwBase]
                                         ELSE before.memory[a]
    BY <1>2 DEF SepfwIsCopied
<1>7. /\ payload \in Nat /\ vm \in Nat \ {0} /\ SepfwSize \in Nat /\ ArgsSize \in Nat
      /\ SepfwBase \in Nat /\ ArgsBase \in Nat
      /\ sepfw = payload + vm /\ ba = payload + vm + SepfwSize /\ Total = vm + SepfwSize + ArgsSize
      /\ payload .. payload + Total - 1 \subseteq Addresses
      /\ ArgsBase .. ArgsBase + ArgsSize - 1 \subseteq Addresses
    BY <1>2 DEF PartsAreFound, Total
<1>8. LayoutIsSound => Disjoint(ArgsBase, ArgsSize, sepfw, SepfwSize + ArgsSize)
    BY DEF LayoutIsSound, ArgsBase, ArgsSize, SepfwSize, old
<1> HIDE DEF vm, payload, sepfw, ba
<1>9. ASSUME LayoutIsSound, NEW k \in 0 .. Total - 1 PROVE memory'[payload + k] = ImageUnit(k)
    <2>0. k \in Int /\ 0 <= k /\ k <= vm + SepfwSize + ArgsSize - 1
        BY <1>7
    <2>1. payload + k \in Addresses
        BY <1>7, <2>0
    <2>2. CASE k < vm
        <3>1. payload + k \notin ba .. ba + ArgsSize - 1 /\ payload + k \notin sepfw .. sepfw + SepfwSize - 1
            BY <1>7, <2>0, <2>2
        <3>2. memory'[payload + k] = before.memory[payload + k]
            BY <1>5, <1>6, <2>1, <3>1
        <3> QED BY <2>2, <3>2 DEF ImageUnit, vm, payload
    <2>3. CASE vm <= k /\ k < vm + SepfwSize
        <3>1. /\ payload + k \notin ba .. ba + ArgsSize - 1
              /\ payload + k \in sepfw .. sepfw + SepfwSize - 1
              /\ (payload + k) - sepfw + SepfwBase = SepfwBase + (k - vm)
            BY <1>7, <2>0, <2>3
        <3>2. memory'[payload + k] = before.memory[(payload + k) - sepfw + SepfwBase]
            BY <1>5, <1>6, <2>1, <3>1
        <3>3. ~(k < vm)
            BY <1>7, <2>0, <2>3
        <3> QED BY <2>3, <3>1, <3>2, <3>3 DEF ImageUnit, vm
    <2>4. CASE vm + SepfwSize <= k
        <3> DEFINE from == ArgsBase + (k - (vm + SepfwSize))
        <3>1. /\ payload + k \in ba .. ba + ArgsSize - 1
              /\ (payload + k) - ba + ArgsBase = from
            BY <1>7, <2>0, <2>4
        <3>2. from \in ArgsBase .. ArgsBase + ArgsSize - 1
            BY <1>7, <2>0, <2>4
        <3>3. from \notin sepfw .. sepfw + SepfwSize - 1
            <4>1. ArgsBase + ArgsSize <= sepfw \/ sepfw + (SepfwSize + ArgsSize) <= ArgsBase
                BY <1>8, <1>9 DEF Disjoint
            <4> HIDE DEF from
            <4> QED BY <1>7, <3>2, <4>1
        <3>4. memory'[payload + k] = memory[from]
            BY <1>5, <2>1, <3>1
        <3>5. memory[from] = before.memory[from]
            BY <1>6, <1>7, <3>2, <3>3
        <3>6. ~(k < vm) /\ ~(k < vm + SepfwSize)
            BY <1>7, <2>0, <2>4
        <3> QED BY <3>4, <3>5, <3>6 DEF ImageUnit, vm
    <2> QED BY <1>7, <2>0, <2>2, <2>3, <2>4
<1>10. /\ PartsAreFound' = PartsAreFound /\ LayoutIsSound' = LayoutIsSound
       /\ Total' = Total /\ \A k : ImageUnit(k)' = ImageUnit(k)
    BY <1>1, SameParts
<1>11. LayoutIsSound' => Together'
    BY <1>1, <1>9, <1>10 DEF Together, payload
<1>12. ImageParts'
    BY <1>1, <1>2, <1>10, <1>11 DEF ImageParts
<1>13. memory' = [a \in Addresses |-> memory'[a]]
    BY <1>5
<1> QED BY <1>1, <1>12, <1>13 DEF ImageInv

LEMMA CopyStubImage == BootInv /\ ImageInv /\ CopyStub => ImageInv'
<1> SUFFICES ASSUME BootInv, ImageInv, CopyStub PROVE ImageInv'
    OBVIOUS
<1>1. /\ stage = "copy stub" /\ stage' = "reserve" /\ UNCHANGED <<kc, before, locals>>
      /\ memory' = [a \in DOMAIN memory |->
                      IF a \in locals.stub .. locals.stub + STUB_SIZE - 1
                        THEN <<"stub", a - locals.stub>> ELSE memory[a]]
    BY DEF CopyStub, Goto, input
<1>2. PartsAreFound /\ (LayoutIsSound => Together)
    BY <1>1 DEF ImageInv, ImageParts, Extended, BehindBootArgs
<1>3. memory' = [a \in Addresses |-> memory'[a]] /\ DOMAIN memory = Addresses
    BY <1>1 DEF ImageInv
<1>4. /\ PartsAreFound' = PartsAreFound /\ LayoutIsSound' = LayoutIsSound
      /\ Total' = Total /\ \A k : ImageUnit(k)' = ImageUnit(k)
    BY <1>1, SameParts
<1>5. ASSUME LayoutIsSound, NEW k \in 0 .. Total - 1
      PROVE  memory'[locals.payload + k] = ImageUnit(k)
    <2>1. /\ locals.payload \in Nat /\ Total \in Nat /\ locals.stub = locals.payload + Total
          /\ locals.payload .. locals.payload + Total - 1 \subseteq Addresses
        BY <1>2 DEF PartsAreFound, Total
    <2>2. locals.payload + k \in Addresses /\ ~(locals.stub <= locals.payload + k)
        BY <2>1
    <2>3. locals.payload + k \notin locals.stub .. locals.stub + STUB_SIZE - 1
        BY <2>1, <2>2 DEF STUB_SIZE
    <2>4. memory'[locals.payload + k] = memory[locals.payload + k]
        BY <1>1, <1>3, <2>2, <2>3
    <2> QED BY <1>2, <1>5, <2>4 DEF Together
<1>6. LayoutIsSound' => Together'
    BY <1>1, <1>4, <1>5 DEF Together
<1>7. ImageParts'
    BY <1>1, <1>2, <1>4, <1>6 DEF ImageParts
<1> QED BY <1>1, <1>3, <1>7 DEF ImageInv

\* The steps on the tree leave the image alone.
LEMMA TreeStepsImage == BootInv /\ ImageInv /\ (Reserve \/ Segment \/ Regs \/ Patch) => ImageInv'
<1> SUFFICES ASSUME BootInv, ImageInv, Reserve \/ Segment \/ Regs \/ Patch PROVE ImageInv'
    OBVIOUS
<1> DEFINE Steps == {"reserve", "segments", "regs", "patch"}
<1>1. /\ stage \in Steps /\ UNCHANGED <<kc, before, memory>>
      /\ stage' \in Steps \cup {"next stage", "aborted"}
    <2>1. CASE Reserve
        BY <2>1 DEF Reserve, Goto, End, input
    <2>2. CASE Segment
        BY <2>2 DEF Segment, Goto, End, input
    <2>3. CASE Regs
        BY <2>3 DEF Regs, Goto, input
    <2>4. CASE Patch
        BY <2>4 DEF Patch, Goto, End, input
    <2> QED BY <2>1, <2>2, <2>3, <2>4
<1>2. /\ locals'.payload = locals.payload /\ locals'.machoBase = locals.machoBase
      /\ locals'.sepfw = locals.sepfw /\ locals'.ba = locals.ba /\ locals'.stub = locals.stub
    <2>1. \/ locals' = locals \/ \E region : locals' = [locals EXCEPT !.region = region]
          \/ \E number : locals' = [locals EXCEPT !.number = number]
        <3>1. CASE Reserve
            BY <3>1, Zenon DEF Reserve, End
        <3>2. CASE Segment
            BY <3>2, Zenon DEF Segment, End
        <3>3. CASE Regs
            BY <3>3 DEF Regs
        <3>4. CASE Patch
            BY <3>4 DEF Patch, End
        <3> QED BY <3>1, <3>2, <3>3, <3>4
    <2> QED BY <2>1 DEF BootInv, AtFields
<1>3. /\ PartsAreFound' = PartsAreFound /\ LayoutIsSound' = LayoutIsSound
      /\ Total' = Total /\ \A k : ImageUnit(k)' = ImageUnit(k)
    BY <1>1, <1>2, SameParts
<1>4. PartsAreFound /\ (LayoutIsSound => Together)
    BY <1>1 DEF ImageInv, ImageParts, Extended, BehindBootArgs
<1>5. LayoutIsSound' => Together'
    BY <1>1, <1>2, <1>3, <1>4 DEF Together
<1>6. ImageParts'
    BY <1>1, <1>3, <1>4, <1>5 DEF ImageParts
<1> QED BY <1>1, <1>6 DEF ImageInv

LEMMA NextStageImage == BootInv /\ ImageInv /\ NextStage => ImageInv'
<1> SUFFICES ASSUME BootInv, ImageInv, NextStage PROVE ImageInv'
    OBVIOUS
<1>1. /\ stage = "next stage" /\ stage' = "stub" /\ UNCHANGED <<kc, before, memory, locals>>
      /\ stub' = [x1 |-> locals.payload, x2 |-> locals.machoBase, x3 |-> locals.stub - locals.payload]
    BY DEF NextStage, Goto
<1>2. PartsAreFound /\ (LayoutIsSound => Together)
    BY <1>1 DEF ImageInv, ImageParts, Extended, BehindBootArgs
<1>3. /\ PartsAreFound' = PartsAreFound /\ LayoutIsSound' = LayoutIsSound
      /\ Total' = Total /\ \A k : ImageUnit(k)' = ImageUnit(k)
    BY <1>1, SameParts
<1>4. LayoutIsSound => MovedUnits(0)'
    <2> SUFFICES ASSUME LayoutIsSound PROVE MovedUnits(0)'
        OBVIOUS
    <2>1. /\ locals.payload \in Nat /\ locals.machoBase \in Nat /\ Total \in Nat
          /\ locals.stub = locals.payload + Total
        BY <1>2 DEF PartsAreFound, Total
    <2>2. /\ stub'.x1 = locals.payload + 0 /\ stub'.x2 = locals.machoBase + 0
          /\ stub'.x3 = Total - 0
        <3>1. /\ stub'.x1 = locals.payload /\ stub'.x2 = locals.machoBase
              /\ stub'.x3 = locals.stub - locals.payload
            BY <1>1
        <3> QED BY ONLY <2>1, <3>1
    <2>3. \A k \in 0 .. Total - 1 : ~(k < 0) /\ memory[locals.payload + k] = ImageUnit(k)
        BY <1>2 DEF Together
    <2> QED BY <1>1, <1>3, <2>2, <2>3 DEF MovedUnits
<1>5. LayoutIsSound => \E j \in Nat : MovedUnits(j)'
    BY <1>4
<1>6. ImageParts'
    BY <1>1, <1>2, <1>3, <1>5 DEF ImageParts
<1> QED BY <1>1, <1>6 DEF ImageInv

\* A round of the stub moves two more units, or what lies behind the image; as it
\* moves down it never overwrites what is still to be moved.
LEMMA StubImage == BootInv /\ ImageInv /\ Stub => ImageInv'
<1> SUFFICES ASSUME BootInv, ImageInv, Stub PROVE ImageInv'
    OBVIOUS
<1> DEFINE payload == locals.payload
           base == locals.machoBase
<1>1. stage = "stub" /\ UNCHANGED <<kc, before, locals>>
    BY DEF Stub, End, input
<1>2. PartsAreFound /\ (LayoutIsSound => \E j \in Nat : MovedUnits(j))
    BY <1>1 DEF ImageInv, ImageParts, Extended, BehindBootArgs
<1>3. /\ PartsAreFound' = PartsAreFound /\ LayoutIsSound' = LayoutIsSound
      /\ Total' = Total /\ \A k : ImageUnit(k)' = ImageUnit(k)
    BY <1>1, SameParts
<1>4. CASE End("runaway")
    <2>1. UNCHANGED <<before, memory>> /\ stage' = "runaway"
        BY <1>4 DEF End, input
    <2>2. stage' \notin {"boot args region"} \cup Extended
        BY <2>1 DEF Extended, BehindBootArgs
    <2> QED BY <2>1, <2>2, ImageApart
<1>5. CASE /\ {stub.x1 + 1, stub.x2 + 1} \subseteq Addresses
           /\ memory' = [memory EXCEPT ![stub.x2] = memory[stub.x1],
                                       ![stub.x2 + 1] = memory[stub.x1 + 1]]
           /\ stub' = [x1 |-> stub.x1 + 2, x2 |-> stub.x2 + 2, x3 |-> Left(stub.x3)]
           /\ stage' = IF Left(stub.x3) = 0 THEN "entered" ELSE "stub"
    <2>1. memory' = [a \in Addresses |->
                      IF a = stub.x2 + 1 THEN memory[stub.x1 + 1]
                      ELSE IF a = stub.x2 THEN memory[stub.x1] ELSE memory[a]]
        <3>1. memory = [a \in Addresses |-> memory[a]]
            BY DEF ImageInv
        <3> QED BY <1>5, <3>1
    <2>2. memory' = [a \in Addresses |-> memory'[a]]
        BY <2>1
    <2>3. /\ payload \in Nat /\ base \in Nat /\ Total \in Nat
          /\ payload .. payload + Total - 1 \subseteq Addresses
          /\ base .. base + Total - 1 \subseteq Addresses
        BY <1>2 DEF PartsAreFound, Total
    <2>4. LayoutIsSound => base <= payload
        BY DEF LayoutIsSound
    <2> HIDE DEF payload, base
    <2>5. ASSUME LayoutIsSound PROVE \E j \in Nat : j + 2 \in Nat /\ MovedUnits(j + 2)'
        <3>1. PICK j \in Nat : MovedUnits(j)
            BY <1>2, <2>5
        <3>2. stub.x1 = payload + j /\ stub.x2 = base + j /\ stub.x3 = Total - j
            BY <3>1 DEF MovedUnits, payload, base
        <3>3. \A k \in 0 .. Total - 1 :
                 IF k < j THEN memory[base + k] = ImageUnit(k) ELSE memory[payload + k] = ImageUnit(k)
            BY <3>1 DEF MovedUnits, payload, base
        <3>4. ASSUME NEW k \in 0 .. Total - 1
              PROVE  IF k < j + 2 THEN memory'[base + k] = ImageUnit(k)
                     ELSE memory'[payload + k] = ImageUnit(k)
            <4>1. base + k \in Addresses /\ payload + k \in Addresses
                BY <2>3
            <4>2. CASE k < j
                <5>1. base + k # stub.x2 /\ base + k # stub.x2 + 1
                    BY <2>3, <3>2, <4>2
                <5>2. memory'[base + k] = memory[base + k]
                    BY <2>1, <4>1, <5>1
                <5>3. k < j + 2 /\ memory[base + k] = ImageUnit(k)
                    BY <2>3, <3>3, <4>2
                <5> QED BY <5>2, <5>3
            <4>3. CASE k = j
                <5>1. base + k = stub.x2 /\ base + k # stub.x2 + 1 /\ payload + k = stub.x1
                    BY <2>3, <3>2, <4>3
                <5>2. memory'[base + k] = memory[payload + k]
                    BY <2>1, <4>1, <5>1
                <5>3. k < j + 2 /\ memory[payload + k] = ImageUnit(k)
                    BY <2>3, <3>3, <4>3
                <5> QED BY <5>2, <5>3
            <4>4. CASE k = j + 1
                <5>1. base + k = stub.x2 + 1 /\ payload + k = stub.x1 + 1
                    BY <2>3, <3>2, <4>4
                <5>2. memory'[base + k] = memory[payload + k]
                    BY <2>1, <4>1, <5>1
                <5>3. k < j + 2 /\ memory[payload + k] = ImageUnit(k)
                    BY <2>3, <3>3, <4>4
                <5> QED BY <5>2, <5>3
            <4>5. CASE k >= j + 2
                <5>1. payload + k # stub.x2 /\ payload + k # stub.x2 + 1
                    BY <2>3, <2>4, <2>5, <3>2, <4>5
                <5>2. memory'[payload + k] = memory[payload + k]
                    BY <2>1, <4>1, <5>1
                <5>3. ~(k < j + 2) /\ memory[payload + k] = ImageUnit(k)
                    BY <2>3, <3>3, <4>5
                <5> QED BY <5>2, <5>3
            <4> QED BY <2>3, <4>2, <4>3, <4>4, <4>5
        <3>5. /\ stub'.x1 = payload + (j + 2) /\ stub'.x2 = base + (j + 2)
              /\ stub'.x3 = Total - (j + 2)
            <4>1. /\ stub'.x1 = stub.x1 + 2 /\ stub'.x2 = stub.x2 + 2
                  /\ stub'.x3 = stub.x3 - 2
                BY <1>5 DEF Left
            <4>2. j \in Nat /\ payload \in Nat /\ base \in Nat /\ Total \in Nat
                BY <2>3
            <4> QED BY ONLY <3>2, <4>1, <4>2
        <3>6. MovedUnits(j + 2)'
            BY <1>1, <1>3, <3>4, <3>5 DEF MovedUnits, payload, base
        <3> QED BY <3>6
    <2>6. CASE Left(stub.x3) = 0
        <3>1. stage' = "entered"
            BY <1>5, <2>6
        <3>2. ASSUME LayoutIsSound PROVE \A k \in 0 .. Total - 1 : memory'[base + k] = ImageUnit(k)
            <4>1. PICK j \in Nat : MovedUnits(j + 2)'
                BY <2>5, <3>2
            <4>2. stub'.x3 = Total - (j + 2) /\ stub'.x3 = 0
                BY <1>3, <1>5, <2>6, <4>1 DEF MovedUnits
            <4>3. \A k \in 0 .. Total - 1 : k < j + 2
                BY <2>3, <4>2
            <4> QED BY <1>1, <1>3, <4>1, <4>3 DEF MovedUnits, base
        <3>3. PartsAreFound'
            BY <1>2, <1>3
        <3>4. /\ stage' \notin {"boot args region", "copy boot args", "stub"}
              /\ stage' \notin BehindBootArgs
            BY <3>1 DEF BehindBootArgs
        <3>5. LayoutIsSound' => \A k \in 0 .. Total' - 1 :
                                   memory'[locals'.machoBase + k] = ImageUnit(k)'
            BY <1>1, <1>3, <3>2 DEF base
        <3>6. ImageParts'
            BY <3>3, <3>4, <3>5 DEF ImageParts
        <3> QED BY <1>1, <2>2, <3>6 DEF ImageInv
    <2>7. CASE Left(stub.x3) # 0
        <3>1. stage' = "stub"
            BY <1>5, <2>7
        <3>2. LayoutIsSound => \E j \in Nat : MovedUnits(j)'
            BY <2>5
        <3>3. ImageParts'
            BY <1>1, <1>2, <1>3, <3>1, <3>2 DEF ImageParts
        <3> QED BY <1>1, <2>2, <3>3 DEF ImageInv
    <2> QED BY <2>6, <2>7
<1> QED BY <1>4, <1>5 DEF Stub

LEMMA ImageStep == BootInv /\ ImageInv /\ [Next]_vars => ImageInv'
<1> SUFFICES ASSUME BootInv, ImageInv, [Next]_vars PROVE ImageInv'
    OBVIOUS
<1>1. CASE UNCHANGED vars
    <2>1. UNCHANGED <<kc, before, dt, memory, stage, locals, stub>>
        BY <1>1 DEF vars
    <2>2. /\ PartsAreFound' = PartsAreFound /\ LayoutIsSound' = LayoutIsSound
          /\ Total' = Total /\ \A k : ImageUnit(k)' = ImageUnit(k)
        BY <2>1, SameParts
    <2>3. Together' = Together /\ \A j : MovedUnits(j)' = MovedUnits(j)
        BY <2>1, <2>2 DEF Together, MovedUnits
    <2>4. SepfwIsCopied' = SepfwIsCopied /\ old' = old
        BY <2>1 DEF SepfwIsCopied, SepfwSize, SepfwBase, old
    <2>5. ImageParts'
        BY <2>1, <2>2, <2>3, <2>4 DEF ImageInv, ImageParts
    <2> QED BY <2>1, <2>5 DEF ImageInv
<1>2. CASE BootArgs \/ MachHeader \/ Payload \/ Kernelcache \/ Sepfw
    <2>1. /\ UNCHANGED <<before, memory>>
          /\ stage' \in {"mach_header", "payload", "kernelcache", "sepfw", "copy sepfw",
                         "returned", "aborted"}
        <3>1. CASE BootArgs
            BY <3>1 DEF BootArgs, End, Goto, input
        <3>2. CASE MachHeader
            BY <3>2 DEF MachHeader, Missing, Found, End, Goto, input
        <3>3. CASE Payload
            BY <3>3 DEF Payload, Missing, Found, End, Goto, input
        <3>4. CASE Kernelcache
            BY <3>4 DEF Kernelcache, End, Goto, input
        <3>5. CASE Sepfw
            BY <3>5 DEF Sepfw, Missing, Found, End, Goto, input
        <3> QED BY <1>2, <3>1, <3>2, <3>3, <3>4, <3>5
    <2>2. stage' \notin {"boot args region"} \cup Extended
        BY <2>1 DEF Extended, BehindBootArgs
    <2> QED BY <2>1, <2>2, ImageApart
<1>3. CASE CopySepfw \/ BootArgsRegion \/ CopyBootArgs \/ CopyStub
    BY <1>3, CopySepfwImage, BootArgsRegionImage, CopyBootArgsImage, CopyStubImage
<1>4. CASE Reserve \/ Segment \/ Regs \/ Patch \/ NextStage \/ Stub
    BY <1>4, TreeStepsImage, NextStageImage, StubImage, Zenon
<1> QED BY <1>1, <1>2, <1>3, <1>4, Zenon DEF Next

\* When the stub has moved every unit of the image, its parts are where they should be.
LEMMA ImageMoved ==
    ASSUME ImageInv, stage = "entered", LayoutIsSound PROVE ImageIsMoved
<1> DEFINE vm == VmSize(kc)
<1>1. PartsAreFound /\ \A k \in 0 .. Total - 1 : memory[locals.machoBase + k] = ImageUnit(k)
    BY DEF ImageInv, ImageParts, Extended
<1>2. /\ locals.payload \in Nat /\ locals.machoBase \in Nat /\ vm \in Nat
      /\ SepfwSize \in Nat /\ ArgsSize \in Nat
      /\ locals.sepfw = locals.payload + vm /\ locals.ba = locals.payload + vm + SepfwSize
      /\ Total = vm + SepfwSize + ArgsSize
    BY <1>1 DEF PartsAreFound, Total
<1> HIDE DEF vm
<1>3. \A k \in 0 .. vm - 1 : memory[locals.machoBase + k] = before.memory[locals.payload + k]
    <2> SUFFICES ASSUME NEW k \in 0 .. vm - 1
                 PROVE  memory[locals.machoBase + k] = before.memory[locals.payload + k]
        OBVIOUS
    <2>1. k \in 0 .. Total - 1 /\ k < vm
        BY <1>2
    <2> QED BY <1>1, <2>1 DEF ImageUnit, vm
<1>4. \A k \in 0 .. SepfwSize - 1 :
         memory[Moved(locals.sepfw) + k] = before.memory[SepfwBase + k]
    <2> SUFFICES ASSUME NEW k \in 0 .. SepfwSize - 1
                 PROVE  memory[Moved(locals.sepfw) + k] = before.memory[SepfwBase + k]
        OBVIOUS
    <2>1. /\ vm + k \in 0 .. Total - 1 /\ ~(vm + k < vm) /\ vm + k < vm + SepfwSize
          /\ (vm + k) - vm = k
        BY <1>2
    <2>2. Moved(locals.sepfw) + k = locals.machoBase + (vm + k)
        BY <1>2 DEF Moved
    <2> QED BY <1>1, <2>1, <2>2 DEF ImageUnit, vm
<1>5. \A k \in 0 .. ArgsSize - 1 :
         memory[Moved(locals.ba) + k] = before.memory[ArgsBase + k]
    <2> SUFFICES ASSUME NEW k \in 0 .. ArgsSize - 1
                 PROVE  memory[Moved(locals.ba) + k] = before.memory[ArgsBase + k]
        OBVIOUS
    <2> DEFINE i == vm + SepfwSize + k
    <2>1. /\ i \in 0 .. Total - 1 /\ ~(i < vm) /\ ~(i < vm + SepfwSize)
          /\ i - (vm + SepfwSize) = k
        BY <1>2
    <2>2. Moved(locals.ba) + k = locals.machoBase + i
        BY <1>2 DEF Moved
    <2> HIDE DEF i
    <2> QED BY <1>1, <2>1, <2>2 DEF ImageUnit, vm
<1> QED BY <1>3, <1>4, <1>5 DEF ImageIsMoved, vm, SepfwBase, SepfwSize, ArgsBase, ArgsSize, old

\* Wherever iBoot has put the parts, if no copy hits what is still to be copied: when
\* the kernel is entered, the payload, SEPFW and the boot arguments are in memory as
\* they were, where the function has said that they will be (CopyTo, xnu_jump_stub).
THEOREM AlwaysImageIsMoved == Spec => [](stage = "entered" /\ LayoutIsSound => ImageIsMoved)
<1>1. BootInv /\ ImageInv => (stage = "entered" /\ LayoutIsSound => ImageIsMoved)
    BY ImageMoved
<1>2. Init => BootInv /\ ImageInv
    BY BootInit, ImageInit
<1>3. BootInv /\ ImageInv /\ [Next]_vars => (BootInv /\ ImageInv)'
    BY BootStep, ImageStep
<1> QED BY <1>1, <1>2, <1>3, PTL DEF Spec

-----------------------------------------------------------------------------
\* A range of numbers from 1 on has one end.
LEMMA OneEnd ==
    ASSUME NEW a \in Nat, NEW b \in Nat, 1 .. a = 1 .. b
    PROVE  a = b
<1>1. CASE a < b
    <2>1. b \in 1 .. b /\ b \notin 1 .. a
        BY <1>1
    <2> QED BY <2>1
<1>2. CASE b < a
    <2>1. a \in 1 .. a /\ a \notin 1 .. b
        BY <1>2
    <2> QED BY <2>1
<1> QED BY <1>1, <1>2

-----------------------------------------------------------------------------
(* The tree, and looking things up in it *)

\* What iBoot has left behind.
Given ==
    \E in \in Inputs : kc = in.kc /\ old = in.tree /\ before.memory = Loaded(in.files)

\* A tree made of the same nodes and properties as the one iBoot has left.
LikeTree(d) ==
    /\ d = [n \in DOMAIN old |-> d[n]]
    /\ \A n \in DOMAIN old :
          /\ d[n] = [props |-> d[n].props, nchildren |-> old[n].nchildren, torn |-> d[n].torn]
          /\ d[n].props = [p \in DOMAIN old[n].props |-> d[n].props[p]]
          /\ \A p \in DOMAIN old[n].props :
                d[n].props[p] = [name |-> d[n].props[p].name, size |-> old[n].props[p].size,
                                 val |-> d[n].props[p].val]

Whole(d) == \A n \in DOMAIN old : ~ d[n].torn

\* The properties of a name are the same as in the tree that iBoot has left.
SameNamed(d, name) ==
    \A n \in DOMAIN old : \A p \in DOMAIN old[n].props :
        d[n].props[p].name = name \/ old[n].props[p].name = name =>
            d[n].props[p] = old[n].props[p]

LEMMA OldIsTree ==
    ASSUME Given
    PROVE  /\ IsTree(old) /\ HasProxyData(old) /\ Len(old) \in Nat \ {0} /\ DOMAIN old = 1 .. Len(old)
           /\ LikeTree(old) /\ Whole(old)
<1>1. IsTree(old) /\ HasProxyData(old)
    BY iBootAssumption DEF Given
<1>2. old \in Seq(Range(old)) /\ old # <<>>
    BY <1>1 DEF IsTree
<1>3. Len(old) \in Nat \ {0} /\ DOMAIN old = 1 .. Len(old)
    BY <1>2, LenProperties, EmptySeq
<1>4. old = [n \in DOMAIN old |-> old[n]]
    BY <1>2, <1>3
<1>5. ASSUME NEW n \in DOMAIN old
      PROVE  /\ old[n] = [props |-> old[n].props, nchildren |-> old[n].nchildren, torn |-> FALSE]
             /\ old[n].props = [p \in DOMAIN old[n].props |-> old[n].props[p]]
             /\ \A p \in DOMAIN old[n].props :
                   old[n].props[p] = [name |-> old[n].props[p].name, size |-> old[n].props[p].size,
                                      val |-> old[n].props[p].val]
    <2>1. old[n].props \in Seq(Range(old[n].props))
        BY <1>1 DEF IsTree
    <2>2. old[n].props = [p \in DOMAIN old[n].props |-> old[n].props[p]]
        BY <2>1
    <2> QED BY <1>1, <2>2 DEF IsTree
<1>6. Whole(old)
    <2> SUFFICES ASSUME NEW n \in DOMAIN old PROVE ~ old[n].torn
        BY DEF Whole
    <2>1. old[n] = [props |-> old[n].props, nchildren |-> old[n].nchildren, torn |-> FALSE]
        BY <1>5
    <2> QED BY ONLY <2>1
<1>7. LikeTree(old)
    <2>1. ASSUME NEW n \in DOMAIN old
          PROVE  old[n] = [props |-> old[n].props, nchildren |-> old[n].nchildren, torn |-> old[n].torn]
        <3>1. old[n] = [props |-> old[n].props, nchildren |-> old[n].nchildren, torn |-> FALSE]
            BY <1>5
        <3> QED BY ONLY <3>1
    <2> QED BY <1>4, <1>5, <2>1, Zenon DEF LikeTree
<1> QED BY <1>1, <1>3, <1>6, <1>7

\* The lengths are the same.
LEMMA LikeLengths ==
    ASSUME Given, NEW d, LikeTree(d)
    PROVE  /\ d \in Seq(Range(d)) /\ Len(d) = Len(old) /\ DOMAIN d = DOMAIN old
           /\ \A n \in DOMAIN old :
                 /\ d[n].nchildren = old[n].nchildren
                 /\ d[n].props \in Seq(Range(d[n].props)) /\ Len(d[n].props) = Len(old[n].props)
                 /\ Len(old[n].props) \in Nat
                 /\ DOMAIN d[n].props = DOMAIN old[n].props
                 /\ DOMAIN old[n].props = 1 .. Len(old[n].props)
<1>1. Len(old) \in Nat /\ DOMAIN old = 1 .. Len(old) /\ IsTree(old)
    BY OldIsTree
<1>2. d = [n \in 1 .. Len(old) |-> d[n]]
    BY <1>1 DEF LikeTree
<1>3. d \in [1 .. Len(old) -> Range(d)]
    BY <1>2 DEF Range
<1>4. d \in Seq(Range(d))
    BY <1>1, <1>3, SeqDef
<1>5. Len(d) = Len(old) /\ DOMAIN d = DOMAIN old
    <2>1. DOMAIN d = 1 .. Len(d) /\ Len(d) \in Nat
        BY <1>4, LenProperties
    <2>2. DOMAIN d = DOMAIN old
        BY <1>3, <1>1, SMTT(60)
    <2>3. 1 .. Len(d) = 1 .. Len(old)
        BY <1>1, <2>1, <2>2, ZenonT(60)
    <2>4. Len(d) = Len(old)
        BY <1>1, <2>1, <2>3, OneEnd
    <2> QED BY <2>2, <2>4
<1>6. ASSUME NEW n \in DOMAIN old
      PROVE  /\ d[n].nchildren = old[n].nchildren
             /\ d[n].props \in Seq(Range(d[n].props)) /\ Len(d[n].props) = Len(old[n].props)
             /\ Len(old[n].props) \in Nat
             /\ DOMAIN d[n].props = DOMAIN old[n].props
             /\ DOMAIN old[n].props = 1 .. Len(old[n].props)
    <2> DEFINE s == d[n].props
               m == Len(old[n].props)
    <2>1. old[n].props \in Seq(Range(old[n].props))
        BY <1>1 DEF IsTree
    <2>2. m \in Nat /\ DOMAIN old[n].props = 1 .. m
        BY <2>1, LenProperties
    <2>3. d[n].nchildren = old[n].nchildren
        <3>1. d[n] = [props |-> d[n].props, nchildren |-> old[n].nchildren, torn |-> d[n].torn]
            BY DEF LikeTree
        <3> QED BY ONLY <3>1
    <2>4. s = [p \in DOMAIN old[n].props |-> s[p]]
        BY DEF LikeTree
    <2>5. s = [p \in 1 .. m |-> s[p]]
        BY <2>2, <2>4
    <2> HIDE DEF s, m
    <2>6. s \in [1 .. m -> Range(s)]
        BY <2>5 DEF Range
    <2>7. s \in Seq(Range(s))
        BY <2>2, <2>6, SeqDef
    <2>8. DOMAIN s = 1 .. Len(s) /\ DOMAIN s = 1 .. m /\ Len(s) \in Nat
        BY <2>6, <2>7, LenProperties, SMTT(60)
    <2>9. Len(s) = m
        BY <2>2, <2>8, OneEnd, ZenonT(60)
    <2>10. DOMAIN s = DOMAIN old[n].props
        BY <2>2, <2>8
    <2> QED BY <2>2, <2>3, <2>7, <2>9, <2>10, Zenon DEF s, m
<1> QED BY <1>4, <1>5, <1>6, Zenon

\* A property that is found is there and has that name.
LEMMA RegionFound ==
    ASSUME Given, NEW d, LikeTree(d), NEW n \in DOMAIN old, NEW name, PropertyNamed(d[n], name) # Nil
    PROVE  LET p == PropertyNamed(d[n], name)
           IN p \in DOMAIN old[n].props /\ d[n].props[p].name = name
<1> DEFINE ps == properties(d[n])
           I == {i \in 1 .. Len(ps) : ps[i].name = name}
           p == PropertyNamed(d[n], name)
<1>1. p = IF I # {} THEN Min(I) ELSE 0
    BY DEF PropertyNamed, SelectInSeq
<1>2. I # {} /\ p = Min(I)
    BY <1>1 DEF Nil
<1>3. Len(ps) \in Nat
    BY LikeLengths DEF properties
<1>4. I \subseteq Nat
    BY <1>3
<1>5. Min(I) \in I
    <2> HIDE DEF I
    <2> QED BY <1>2, <1>4, LeastOf
<1>6. p \in 1 .. Len(ps) /\ ps[p].name = name
    <2>1. p \in I
        BY <1>2, <1>5
    <2> HIDE DEF p, ps
    <2> QED BY <2>1
<1>7. ps = d[n].props
    BY <1>6 DEF properties
<1> HIDE DEF ps, p
<1>8. p \in 1 .. Len(old[n].props)
    BY <1>6, <1>7, LikeLengths
<1> QED BY <1>6, <1>7, <1>8, LikeLengths DEF p

\* The children that are walked.
LEMMA ChildrenAre ==
    ASSUME Given, NEW d, LikeTree(d), NEW n \in DOMAIN old
    PROVE  LET cs == Children(d, n)
           IN /\ Len(cs) = old[n].nchildren /\ old[n].nchildren \in Nat
              /\ \A i \in 1 .. old[n].nchildren : cs[i] = d[n + i] /\ n + i \in DOMAIN old
<1>1. old[n].nchildren \in Nat /\ n + old[n].nchildren <= Len(old) /\ d[n].nchildren = old[n].nchildren
    BY OldIsTree, LikeLengths DEF IsTree
<1>2. n \in 1 .. Len(old) /\ Len(old) \in Nat
    BY OldIsTree
<1>3. d \in Seq(Range(d)) /\ Len(d) = Len(old)
    BY LikeLengths
<1>4. \A i \in n + 1 .. n + old[n].nchildren : d[i] \in Range(d)
    BY <1>1, <1>2, <1>3, ElementOfSeq
<1>5. n + 1 \in Int /\ n + old[n].nchildren \in Int
    BY <1>1, <1>2
<1> DEFINE k == old[n].nchildren
<1>6. Len(SubSeq(d, n + 1, n + k)) = k
    BY <1>1, <1>2, <1>4, <1>5, SubSeqProperties
<1>7. ASSUME NEW i \in 1 .. k PROVE SubSeq(d, n + 1, n + k)[i] = d[n + i]
    <2>1. i \in 1 .. (n + k) - (n + 1) + 1 /\ (n + 1) + i - 1 = n + i
        BY <1>1, <1>2
    <2>2. SubSeq(d, n + 1, n + k)[i] = d[(n + 1) + i - 1]
        BY <1>4, <1>5, <2>1, SubSeqProperties
    <2> QED BY <2>1, <2>2
<1>8. \A i \in 1 .. k : n + i \in DOMAIN old
    BY <1>1, <1>2, OldIsTree
<1>9. Children(d, n) = SubSeq(d, n + 1, n + k)
    BY <1>1 DEF Children
<1> HIDE DEF k
<1> QED BY <1>1, <1>6, <1>7, <1>8, <1>9 DEF k

\* Indices of the children with a name, and of the torn ones.
NamedSo(d, n, name) == {i \in 1 .. Len(Children(d, n)) : IsNamed(Children(d, n)[i], name)}
Tears(d, n) == {i \in 1 .. Len(Children(d, n)) : Children(d, n)[i].torn}
First(I) == IF I # {} THEN Min(I) ELSE 0

\* Where a walk over the children leads, from those indices.
LEMMA ChildNamedIs ==
    ASSUME NEW d, NEW n, NEW name
    PROVE  ChildNamed(d, n, name) =
              LET named == First(NamedSo(d, n, name))
                  tear == First(Tears(d, n))
              IN IF named # Nil /\ (tear = Nil \/ named < tear) THEN n + named
                 ELSE IF tear # Nil /\ tear < Len(Children(d, n)) THEN Undefined
                 ELSE Nil
<1> DEFINE named == SelectInSeq(Children(d, n), LAMBDA c : IsNamed(c, name))
           tear == SelectInSeq(Children(d, n), LAMBDA c : c.torn)
<1>1. named = First(NamedSo(d, n, name))
    BY DEF SelectInSeq, NamedSo, First
<1>2. tear = First(Tears(d, n))
    BY DEF SelectInSeq, Tears, First
<1>3. ChildNamed(d, n, name) =
         IF named # Nil /\ (tear = Nil \/ named < tear) THEN n + named
         ELSE IF tear # Nil /\ tear < Len(Children(d, n)) THEN Undefined
         ELSE Nil
    BY DEF ChildNamed
<1> HIDE DEF named, tear
<1> QED BY <1>1, <1>2, <1>3

\* A child that is found is there, and in a whole tree a walk leads nowhere else.
LEMMA ChildPlace ==
    ASSUME Given, NEW d, LikeTree(d), NEW n \in DOMAIN old, NEW name
    PROVE  /\ ChildNamed(d, n, name) \in DOMAIN old \cup {Nil, Undefined}
           /\ Whole(d) => ChildNamed(d, n, name) # Undefined
<1> DEFINE k == old[n].nchildren
           named == First(NamedSo(d, n, name))
           tear == First(Tears(d, n))
<1>1. /\ Len(Children(d, n)) = k /\ k \in Nat
      /\ \A i \in 1 .. k : Children(d, n)[i] = d[n + i] /\ n + i \in DOMAIN old
    BY ChildrenAre
<1> HIDE DEF k
<1>2. named \in 0 .. k
    <2>1. NamedSo(d, n, name) \subseteq 1 .. k
        BY <1>1 DEF NamedSo
    <2>2. NamedSo(d, n, name) # {} => Min(NamedSo(d, n, name)) \in NamedSo(d, n, name)
        <3>1. 1 .. k \subseteq Nat
            BY <1>1
        <3>2. NamedSo(d, n, name) \subseteq Nat
            BY <2>1, <3>1
        <3> QED BY <3>2, LeastOf
    <2> QED BY <1>1, <2>1, <2>2 DEF First
<1>3. Whole(d) => tear = Nil
    <2> SUFFICES ASSUME Whole(d) PROVE Tears(d, n) = {}
        BY DEF First, Nil
    <2>1. ASSUME NEW i \in 1 .. k PROVE ~ Children(d, n)[i].torn
        <3>1. Children(d, n)[i] = d[n + i] /\ n + i \in DOMAIN old
            BY <1>1
        <3> QED BY <3>1 DEF Whole
    <2> QED BY <1>1, <2>1 DEF Tears
<1>4. ChildNamed(d, n, name) =
         IF named # Nil /\ (tear = Nil \/ named < tear) THEN n + named
         ELSE IF tear # Nil /\ tear < Len(Children(d, n)) THEN Undefined ELSE Nil
    BY ChildNamedIs
<1>5. named # Nil => n + named \in DOMAIN old
    BY <1>1, <1>2 DEF Nil
<1>6. \A x \in DOMAIN old : x # Undefined
    BY OldIsTree DEF Undefined
<1> HIDE DEF named, tear
<1>7. CASE named # Nil /\ (tear = Nil \/ named < tear)
    BY <1>4, <1>5, <1>6, <1>7
<1>8. CASE ~ (named # Nil /\ (tear = Nil \/ named < tear))
    <2>1. Nil # Undefined
        BY DEF Nil, Undefined
    <2> QED BY <1>3, <1>4, <1>8, <2>1
<1> QED BY <1>7, <1>8

\* The memory map is a node of the tree, or there is none.
LEMMA MapPlace ==
    ASSUME Given, NEW d, LikeTree(d)
    PROVE  /\ MemoryMap(d) \in DOMAIN old \cup {Nil, Undefined}
           /\ Whole(d) => MemoryMap(d) # Undefined
           /\ Root \in DOMAIN old
<1> DEFINE parent == ChildNamed(d, Root, "chosen")
<1>1. Root \in DOMAIN old
    BY OldIsTree DEF Root
<1>2. parent \in DOMAIN old \cup {Nil, Undefined} /\ (Whole(d) => parent # Undefined)
    BY <1>1, ChildPlace
<1>3. MemoryMap(d) = IF parent \in {Nil, Undefined} THEN parent ELSE ChildNamed(d, parent, "memory-map")
    BY DEF MemoryMap
<1> HIDE DEF parent
<1>4. CASE parent \in {Nil, Undefined}
    BY <1>1, <1>2, <1>3, <1>4
<1>5. CASE parent \notin {Nil, Undefined}
    <2>1. parent \in DOMAIN old
        BY <1>2, <1>5
    <2>2. /\ ChildNamed(d, parent, "memory-map") \in DOMAIN old \cup {Nil, Undefined}
          /\ Whole(d) => ChildNamed(d, parent, "memory-map") # Undefined
        BY <2>1, ChildPlace
    <2> QED BY <1>1, <1>3, <1>5, <2>2
<1> QED BY <1>4, <1>5

\* What is still as it was is found where it was.
LEMMA SameRegion ==
    ASSUME Given, NEW d, LikeTree(d), Whole(d), NEW name, SameNamed(d, name), NEW n \in DOMAIN old
    PROVE  PropertyNamed(d[n], name) = PropertyNamed(old[n], name)
<1>1. LikeTree(old) /\ Whole(old)
    BY OldIsTree
<1>2. properties(d[n]) = d[n].props /\ properties(old[n]) = old[n].props
    BY <1>1 DEF properties, Whole
<1>3. /\ Len(d[n].props) = Len(old[n].props)
      /\ DOMAIN old[n].props = 1 .. Len(old[n].props)
    BY LikeLengths
<1>4. \A p \in 1 .. Len(old[n].props) : d[n].props[p].name = name <=> old[n].props[p].name = name
    BY <1>3 DEF SameNamed
<1>5. {i \in 1 .. Len(d[n].props) : d[n].props[i].name = name}
         = {i \in 1 .. Len(old[n].props) : old[n].props[i].name = name}
    BY <1>3, <1>4
<1>6. PropertyNamed(d[n], name) = First({i \in 1 .. Len(d[n].props) : d[n].props[i].name = name})
    BY <1>2 DEF PropertyNamed, SelectInSeq, First
<1>7. PropertyNamed(old[n], name) = First({i \in 1 .. Len(old[n].props) : old[n].props[i].name = name})
    BY <1>2 DEF PropertyNamed, SelectInSeq, First
<1> QED BY <1>5, <1>6, <1>7

\* A child is found where it was, too, and so is the memory map.
LEMMA SameChild ==
    ASSUME Given, NEW d, LikeTree(d), Whole(d), SameNamed(d, "name"), NEW n \in DOMAIN old, NEW name
    PROVE  ChildNamed(d, n, name) = ChildNamed(old, n, name)
<1> DEFINE k == old[n].nchildren
<1>1. /\ Len(Children(d, n)) = k /\ k \in Nat
      /\ \A i \in 1 .. k : Children(d, n)[i] = d[n + i] /\ n + i \in DOMAIN old
    BY ChildrenAre
<1>2. LikeTree(old) /\ Whole(old)
    BY OldIsTree
<1>3. /\ Len(Children(old, n)) = k
      /\ \A i \in 1 .. k : Children(old, n)[i] = old[n + i] /\ n + i \in DOMAIN old
    BY <1>2, ChildrenAre
<1> HIDE DEF k
<1>4. ASSUME NEW m \in DOMAIN old PROVE IsNamed(d[m], name) <=> IsNamed(old[m], name)
    <2> DEFINE p == PropertyNamed(old[m], "name")
    <2>1. PropertyNamed(d[m], "name") = p
        BY SameRegion
    <2>2. p # Nil => p \in DOMAIN old[m].props /\ old[m].props[p].name = "name"
        BY <1>2, RegionFound
    <2>3. p # Nil => d[m].props[p] = old[m].props[p]
        BY <2>2 DEF SameNamed
    <2> QED BY <2>1, <2>3 DEF IsNamed
<1>5. NamedSo(d, n, name) = NamedSo(old, n, name)
    <2>1. \A i \in 1 .. k : IsNamed(Children(d, n)[i], name) <=> IsNamed(Children(old, n)[i], name)
        BY <1>1, <1>3, <1>4
    <2> QED BY <1>1, <1>3, <2>1 DEF NamedSo
<1>6. Tears(d, n) = Tears(old, n)
    <2>1. \A i \in 1 .. k : ~ Children(d, n)[i].torn /\ ~ Children(old, n)[i].torn
        BY <1>1, <1>2, <1>3 DEF Whole
    <2> QED BY <1>1, <1>3, <2>1 DEF Tears
<1> QED BY <1>1, <1>3, <1>5, <1>6, ChildNamedIs

LEMMA SameMap ==
    ASSUME Given, NEW d, LikeTree(d), Whole(d), SameNamed(d, "name")
    PROVE  MemoryMap(d) = MemoryMap(old)
<1> DEFINE parent == ChildNamed(old, Root, "chosen")
<1>1. Root \in DOMAIN old /\ LikeTree(old)
    BY MapPlace, OldIsTree
<1>2. parent \in DOMAIN old \cup {Nil, Undefined}
    BY <1>1, ChildPlace
<1>3. ChildNamed(d, Root, "chosen") = parent
    BY <1>1, SameChild
<1>4. parent \notin {Nil, Undefined} =>
         ChildNamed(d, parent, "memory-map") = ChildNamed(old, parent, "memory-map")
    BY <1>2, SameChild
<1> QED BY <1>3, <1>4 DEF MemoryMap

\* The next region with a prefix: none before it has it.
LEMMA NextRegion ==
    ASSUME Given, LikeTree(dt), MemoryMap(dt) \in DOMAIN old, NEW prefix,
           NEW p \in 1 .. Len(old[MemoryMap(dt)].props) + 1
    PROVE  LET q == NextWithPrefix(prefix, p)
               Has(r) == StartsWith(dt[MemoryMap(dt)].props[r].name, prefix)
           IN /\ q # Nil => q \in DOMAIN old[MemoryMap(dt)].props /\ q >= p /\ Has(q)
              /\ \A r \in DOMAIN old[MemoryMap(dt)].props :
                    r >= p /\ (q = Nil \/ r < q) => ~ Has(r)
<1> DEFINE rs == dt[MemoryMap(dt)].props
           m == Len(rs)
           sub == SubSeq(rs, p, m)
           I == {i \in 1 .. Len(sub) : StartsWith(sub[i].name, prefix)}
           q == NextWithPrefix(prefix, p)
           k == SelectInSeq(sub, LAMBDA r : StartsWith(r.name, prefix))
<1>1. /\ rs \in Seq(Range(rs)) /\ m \in Nat /\ m = Len(old[MemoryMap(dt)].props)
      /\ DOMAIN old[MemoryMap(dt)].props = 1 .. m
    BY LikeLengths
<1>2. k = First(I)
    BY DEF SelectInSeq, First
<1>3. q = IF k = 0 THEN Nil ELSE p + k - 1
    BY DEF NextWithPrefix, Regions
<1> HIDE DEF k, q
<1>4. p \in Nat /\ p >= 1 /\ p <= m + 1
    BY <1>1
<1>5. /\ Len(sub) = m - p + 1
      /\ \A i \in 1 .. m - p + 1 : sub[i] = rs[p + i - 1]
    <2>1. \A i \in p .. m : rs[i] \in Range(rs)
        <3> HIDE DEF rs
        <3> QED BY <1>1, <1>4, ElementOfSeq
    <2>2. p \in Int /\ m \in Int
        BY <1>1, <1>4
    <2> HIDE DEF rs, m
    <2>3. Len(sub) = IF p <= m THEN m - p + 1 ELSE 0
        BY <2>1, <2>2, SubSeqProperties
    <2>4. \A i \in 1 .. m - p + 1 : sub[i] = rs[p + i - 1]
        BY <2>1, <2>2, SubSeqProperties
    <2> HIDE DEF sub
    <2>5. Len(sub) = m - p + 1
        BY <1>4, <2>2, <2>3
    <2> QED BY <2>4, <2>5
<1> HIDE DEF sub, m
<1>6. I \subseteq 1 .. m - p + 1
    BY <1>5
<1>7. I # {} => Min(I) \in I /\ \A y \in I : Min(I) <= y
    <2>1. I \subseteq Nat
        BY <1>1, <1>4, <1>6
    <2> HIDE DEF I
    <2> QED BY <2>1, LeastOf
<1>8. ASSUME NEW i \in 1 .. m - p + 1
      PROVE  i \in I <=> StartsWith(rs[p + i - 1].name, prefix)
    BY <1>5
<1> HIDE DEF I
<1>9. ASSUME q # Nil
      PROVE  q \in 1 .. m /\ q >= p /\ StartsWith(rs[q].name, prefix)
    <2>1. k # 0 /\ q = p + k - 1
        BY <1>3, <1>9
    <2>2. I # {} /\ k = Min(I)
        BY <1>2, <2>1 DEF First
    <2>3. k \in I /\ k \in 1 .. m - p + 1
        BY <1>6, <1>7, <2>2
    <2>4. q \in 1 .. m /\ q >= p
        BY <1>1, <1>4, <2>1, <2>3
    <2>5. StartsWith(rs[p + k - 1].name, prefix)
        BY <1>8, <2>3
    <2> QED BY <2>1, <2>4, <2>5
<1>10. ASSUME NEW r \in 1 .. m, r >= p, q = Nil \/ r < q
       PROVE  ~ StartsWith(rs[r].name, prefix)
    <2> DEFINE i == r - p + 1
    <2>1. i \in 1 .. m - p + 1 /\ p + i - 1 = r
        BY <1>1, <1>4, <1>10
    <2> HIDE DEF i
    <2> SUFFICES ASSUME i \in I PROVE FALSE
        BY <1>8, <2>1
    <2>2. k = Min(I) /\ k \in 1 .. m - p + 1 /\ k <= i
        BY <1>2, <1>6, <1>7 DEF First
    <2>3. q = p + k - 1 /\ q # Nil
        BY <1>1, <1>3, <1>4, <2>2 DEF Nil
    <2> QED BY <1>1, <1>4, <1>10, <2>1, <2>2, <2>3
<1> HIDE DEF rs
<1> QED BY <1>1, <1>9, <1>10 DEF rs, q

-----------------------------------------------------------------------------
(* Changing the tree *)

\* The fields of a property.
LEMMA PropertyFields ==
    ASSUME NEW a, NEW b, NEW c, NEW w, w = [name |-> a, size |-> b, val |-> c]
    PROVE  w.name = a /\ w.size = b /\ w.val = c
    OBVIOUS

\* A tree in which one property has been changed, if it is there.
Changed(d, e, m, p, r) ==
    /\ LikeTree(e)
    /\ \A n \in DOMAIN old :
          /\ e[n].torn = d[n].torn
          /\ n # m => e[n] = d[n]
          /\ \A q \in DOMAIN old[n].props :
                e[n].props[q] = IF n = m /\ q = p THEN r ELSE d[n].props[q]

\* What assigning one property does.
LEMMA OneChanged ==
    ASSUME Given, NEW d, LikeTree(d), NEW m, NEW p, NEW name, NEW val,
           NEW r, r = [name |-> name, size |-> old[m].props[p].size, val |-> val],
           NEW e, e = [d EXCEPT ![m] = [d[m] EXCEPT !.props = [d[m].props EXCEPT ![p] = r]]]
    PROVE  Changed(d, e, m, p, r)
<1>1. DOMAIN d = DOMAIN old /\ d = [n \in DOMAIN old |-> d[n]]
    BY DEF LikeTree
<1>2. e = [n \in DOMAIN old |-> IF n = m THEN [d[m] EXCEPT !.props = [d[m].props EXCEPT ![p] = r]]
                                ELSE d[n]]
    BY <1>1
<1>3. ASSUME NEW n \in DOMAIN old, n = m
      PROVE  /\ e[n] = [props |-> e[n].props, nchildren |-> old[n].nchildren, torn |-> d[n].torn]
             /\ e[n].props = [q \in DOMAIN old[n].props |-> IF q = p THEN r ELSE d[n].props[q]]
    <2>1. d[n] = [props |-> d[n].props, nchildren |-> old[n].nchildren, torn |-> d[n].torn]
        BY DEF LikeTree
    <2>2. d[n].props = [q \in DOMAIN old[n].props |-> d[n].props[q]]
        BY DEF LikeTree
    <2>3. e[n] = [d[n] EXCEPT !.props = [d[n].props EXCEPT ![p] = r]]
        BY <1>2, <1>3
    <2> DEFINE a == [d[n].props EXCEPT ![p] = r]
               t == d[n].torn
               c == old[n].nchildren
    <2>4. a = [q \in DOMAIN old[n].props |-> IF q = p THEN r ELSE d[n].props[q]]
        BY <2>2
    <2>5. e[n] = [d[n] EXCEPT !.props = a]
        BY <2>3
    <2> HIDE DEF a, t, c
    <2>6. e[n] = [props |-> a, nchildren |-> c, torn |-> t]
        BY <2>1, <2>5 DEF c, t
    <2> QED BY <2>4, <2>6 DEF c, t
<1>4. ASSUME NEW n \in DOMAIN old, n # m PROVE e[n] = d[n]
    BY <1>2, <1>4
<1>5. ASSUME NEW n \in DOMAIN old
      PROVE  /\ e[n] = [props |-> e[n].props, nchildren |-> old[n].nchildren, torn |-> e[n].torn]
             /\ e[n].torn = d[n].torn
             /\ e[n].props = [q \in DOMAIN old[n].props |-> e[n].props[q]]
             /\ \A q \in DOMAIN old[n].props :
                   e[n].props[q] = IF n = m /\ q = p THEN r ELSE d[n].props[q]
    <2>1. CASE n = m
        <3>1. e[n] = [props |-> e[n].props, nchildren |-> old[n].nchildren, torn |-> d[n].torn]
            BY <1>3, <2>1
        <3>2. e[n].torn = d[n].torn
            BY ONLY <3>1
        <3>3. e[n].props = [q \in DOMAIN old[n].props |-> IF q = p THEN r ELSE d[n].props[q]]
            BY <1>3, <2>1
        <3>4. e[n].props = [q \in DOMAIN old[n].props |-> e[n].props[q]]
            BY <3>3
        <3>5. \A q \in DOMAIN old[n].props :
                 e[n].props[q] = IF n = m /\ q = p THEN r ELSE d[n].props[q]
            BY <2>1, <3>3
        <3> QED BY <3>1, <3>2, <3>4, <3>5
    <2>2. CASE n # m
        <3>1. e[n] = d[n]
            BY <1>4, <2>2
        <3>2. /\ d[n] = [props |-> d[n].props, nchildren |-> old[n].nchildren, torn |-> d[n].torn]
              /\ d[n].props = [q \in DOMAIN old[n].props |-> d[n].props[q]]
            BY DEF LikeTree
        <3>3. /\ e[n] = [props |-> e[n].props, nchildren |-> old[n].nchildren, torn |-> e[n].torn]
              /\ e[n].torn = d[n].torn
              /\ e[n].props = [q \in DOMAIN old[n].props |-> e[n].props[q]]
            BY <3>1, <3>2, Zenon
        <3>4. \A q \in DOMAIN old[n].props :
                 e[n].props[q] = IF n = m /\ q = p THEN r ELSE d[n].props[q]
            BY <2>2, <3>1
        <3> QED BY <3>3, <3>4
    <2> QED BY <2>1, <2>2
<1>6. ASSUME NEW n \in DOMAIN old, NEW q \in DOMAIN old[n].props
      PROVE  e[n].props[q] = [name |-> e[n].props[q].name, size |-> old[n].props[q].size,
                              val |-> e[n].props[q].val]
    <2>1. CASE n = m /\ q = p
        <3>1. e[n].props[q] = [name |-> name, size |-> old[n].props[q].size, val |-> val]
            <4>1. e[n].props[q] = IF n = m /\ q = p THEN r ELSE d[n].props[q]
                BY <1>5
            <4>2. e[n].props[q] = r
                BY <2>1, <4>1, Zenon
            <4> QED BY <2>1, <4>2, Zenon
        <3> DEFINE w == e[n].props[q]
        <3>2. w = [name |-> name, size |-> old[n].props[q].size, val |-> val]
            BY <3>1
        <3> HIDE DEF w
        <3>3. w.name = name /\ w.val = val
            BY ONLY <3>2
        <3>4. w = [name |-> w.name, size |-> old[n].props[q].size, val |-> w.val]
            BY ONLY <3>2, <3>3
        <3> QED BY <3>4 DEF w
    <2>2. CASE ~ (n = m /\ q = p)
        <3>1. e[n].props[q] = d[n].props[q]
            BY <1>5, <2>2
        <3>2. d[n].props[q] = [name |-> d[n].props[q].name, size |-> old[n].props[q].size,
                               val |-> d[n].props[q].val]
            BY DEF LikeTree
        <3> QED BY <3>1, <3>2
    <2> QED BY <2>1, <2>2
<1>7. e = [n \in DOMAIN old |-> e[n]]
    BY <1>2
<1>8. LikeTree(e)
    BY <1>5, <1>6, <1>7, Zenon DEF LikeTree
<1> QED BY <1>4, <1>5, <1>8 DEF Changed

\* A value is set; a name is.
LEMMA ValueSet ==
    ASSUME Given, NEW d, LikeTree(d), NEW m, NEW p, NEW val
    PROVE  LET e == [d EXCEPT ![m].props[p].val = val]
           IN Changed(d, e, m, p, [name |-> d[m].props[p].name, size |-> old[m].props[p].size,
                                   val |-> val])
<1> DEFINE r == [name |-> d[m].props[p].name, size |-> old[m].props[p].size, val |-> val]
           e == [d EXCEPT ![m].props[p].val = val]
           f == [d EXCEPT ![m] = [d[m] EXCEPT !.props = [d[m].props EXCEPT ![p] = r]]]
<1>1. e = [d EXCEPT ![m] = [d[m] EXCEPT !.props = [d[m].props EXCEPT ![p] = [d[m].props[p] EXCEPT !.val = val]]]]
    OBVIOUS
<1>2. ASSUME m \in DOMAIN old, p \in DOMAIN old[m].props
      PROVE  [d[m].props[p] EXCEPT !.val = val] = r
    <2>1. d[m].props[p] = [name |-> d[m].props[p].name, size |-> old[m].props[p].size,
                           val |-> d[m].props[p].val]
        BY <1>2 DEF LikeTree
    <2> QED BY <2>1
<1>3. e = f
    <2>1. CASE m \in DOMAIN old /\ p \in DOMAIN old[m].props
        BY <1>1, <1>2, <2>1
    <2>2. CASE m \in DOMAIN old /\ p \notin DOMAIN old[m].props
        <3>1. DOMAIN d[m].props = DOMAIN old[m].props
            BY <2>2 DEF LikeTree
        <3>2. [d[m].props EXCEPT ![p] = [d[m].props[p] EXCEPT !.val = val]]
                 = [d[m].props EXCEPT ![p] = r]
            BY <2>2, <3>1
        <3> QED BY <1>1, <3>2
    <2>3. CASE m \notin DOMAIN old
        <3>1. DOMAIN d = DOMAIN old
            BY DEF LikeTree
        <3>2. [d EXCEPT ![m] = [d[m] EXCEPT !.props = [d[m].props EXCEPT ![p] = [d[m].props[p] EXCEPT !.val = val]]]] = f
            BY <2>3, <3>1
        <3> QED BY <1>1, <3>2
    <2> QED BY <2>1, <2>2, <2>3
<1> HIDE DEF e
<1>4. Changed(d, e, m, p, r)
    BY <1>3, OneChanged
<1> QED BY <1>4 DEF e

LEMMA NameSet ==
    ASSUME Given, NEW d, LikeTree(d), NEW m, NEW p, NEW name
    PROVE  LET e == [d EXCEPT ![m].props[p].name = name]
           IN Changed(d, e, m, p, [name |-> name, size |-> old[m].props[p].size,
                                   val |-> d[m].props[p].val])
<1> DEFINE r == [name |-> name, size |-> old[m].props[p].size, val |-> d[m].props[p].val]
           e == [d EXCEPT ![m].props[p].name = name]
           f == [d EXCEPT ![m] = [d[m] EXCEPT !.props = [d[m].props EXCEPT ![p] = r]]]
<1>1. e = [d EXCEPT ![m] = [d[m] EXCEPT !.props = [d[m].props EXCEPT ![p] = [d[m].props[p] EXCEPT !.name = name]]]]
    OBVIOUS
<1>2. ASSUME m \in DOMAIN old, p \in DOMAIN old[m].props
      PROVE  [d[m].props[p] EXCEPT !.name = name] = r
    <2>1. d[m].props[p] = [name |-> d[m].props[p].name, size |-> old[m].props[p].size,
                           val |-> d[m].props[p].val]
        BY <1>2 DEF LikeTree
    <2> QED BY <2>1
<1>3. e = f
    <2>1. CASE m \in DOMAIN old /\ p \in DOMAIN old[m].props
        BY <1>1, <1>2, <2>1
    <2>2. CASE m \in DOMAIN old /\ p \notin DOMAIN old[m].props
        <3>1. DOMAIN d[m].props = DOMAIN old[m].props
            BY <2>2 DEF LikeTree
        <3>2. [d[m].props EXCEPT ![p] = [d[m].props[p] EXCEPT !.name = name]]
                 = [d[m].props EXCEPT ![p] = r]
            BY <2>2, <3>1
        <3> QED BY <1>1, <3>2
    <2>3. CASE m \notin DOMAIN old
        <3>1. DOMAIN d = DOMAIN old
            BY DEF LikeTree
        <3>2. [d EXCEPT ![m] = [d[m] EXCEPT !.props = [d[m].props EXCEPT ![p] = [d[m].props[p] EXCEPT !.name = name]]]] = f
            BY <2>3, <3>1
        <3> QED BY <1>1, <3>2
    <2> QED BY <2>1, <2>2, <2>3
<1> HIDE DEF e
<1>4. Changed(d, e, m, p, r)
    BY <1>3, OneChanged
<1> QED BY <1>4 DEF e

\* Changes of the same place, one after the other.
LEMMA ChangedTwice ==
    ASSUME NEW d, NEW e, NEW f, NEW m, NEW p, NEW q, NEW r, Changed(d, e, m, p, q), Changed(e, f, m, p, r)
    PROVE  Changed(d, f, m, p, r)
<1>1. LikeTree(f)
    BY DEF Changed
<1>2. ASSUME NEW n \in DOMAIN old
      PROVE  f[n].torn = d[n].torn /\ (n # m => f[n] = d[n])
    BY DEF Changed
<1>3. ASSUME NEW n \in DOMAIN old, NEW k \in DOMAIN old[n].props
      PROVE  f[n].props[k] = IF n = m /\ k = p THEN r ELSE d[n].props[k]
    <2>1. /\ f[n].props[k] = IF n = m /\ k = p THEN r ELSE e[n].props[k]
          /\ e[n].props[k] = IF n = m /\ k = p THEN q ELSE d[n].props[k]
        BY DEF Changed
    <2> QED BY <2>1
<1> QED BY <1>1, <1>2, <1>3 DEF Changed

\* SetRegion
LEMMA RegionSet ==
    ASSUME Given, LikeTree(dt), MemoryMap(dt) \in DOMAIN old,
           NEW p \in DOMAIN old[MemoryMap(dt)].props, NEW name, NEW base, NEW size
    PROVE  LET m == MemoryMap(dt)
           IN Changed(dt, SetRegion(p, name, base, size), m, p,
                      [name |-> name, size |-> old[m].props[p].size,
                       val |-> [base |-> base, size |-> size]])
<1> DEFINE m == MemoryMap(dt)
           val == [base |-> base, size |-> size]
           d == [dt EXCEPT ![m].props[p].name = name]
           e == [d EXCEPT ![m].props[p].val = val]
           q == [name |-> name, size |-> old[m].props[p].size, val |-> dt[m].props[p].val]
<1>1. SetRegion(p, name, base, size) = e
    BY DEF SetRegion
<1> HIDE DEF m, val
<1>2. Changed(dt, d, m, p, q)
    BY NameSet
<1> HIDE DEF d, q
<1>3. Changed(d, e, m, p, [name |-> d[m].props[p].name, size |-> old[m].props[p].size, val |-> val])
    <2>1. LikeTree(d)
        BY <1>2 DEF Changed
    <2> QED BY <2>1, ValueSet
<1>4. d[m].props[p] = q
    BY <1>2 DEF Changed, m
<1>5. d[m].props[p].name = name
    BY <1>4 DEF q
<1>6. Changed(d, e, m, p, [name |-> name, size |-> old[m].props[p].size, val |-> val])
    BY <1>3, <1>5
<1> HIDE DEF e
<1>7. Changed(dt, e, m, p, [name |-> name, size |-> old[m].props[p].size, val |-> val])
    BY <1>2, <1>6, ChangedTwice
<1> QED BY <1>1, <1>7 DEF e, m, val

\* A node is torn.
LEMMA TornKeeps ==
    ASSUME Given, NEW d, LikeTree(d), NEW m
    PROVE  LET e == [d EXCEPT ![m].torn = TRUE]
           IN LikeTree(e) /\ \A n \in DOMAIN old : e[n].props = d[n].props
<1> DEFINE e == [d EXCEPT ![m].torn = TRUE]
<1>1. DOMAIN d = DOMAIN old /\ d = [n \in DOMAIN old |-> d[n]]
    BY DEF LikeTree
<1>2. e = [n \in DOMAIN old |-> IF n = m THEN [d[n] EXCEPT !.torn = TRUE] ELSE d[n]]
    BY <1>1
<1>3. e = [n \in DOMAIN old |-> e[n]]
    BY <1>2
<1>4. ASSUME NEW n \in DOMAIN old
      PROVE  /\ e[n] = [props |-> e[n].props, nchildren |-> old[n].nchildren, torn |-> e[n].torn]
             /\ e[n].props = d[n].props
    <2>1. d[n] = [props |-> d[n].props, nchildren |-> old[n].nchildren, torn |-> d[n].torn]
        BY DEF LikeTree
    <2> DEFINE ps == d[n].props
               c == old[n].nchildren
               w == e[n]
    <2>2. CASE n = m
        <3>1. w = [d[n] EXCEPT !.torn = TRUE]
            BY <1>2, <2>2
        <3> HIDE DEF w
        <3> DEFINE v == d[n]
                   t == d[n].torn
        <3>2. v = [props |-> ps, nchildren |-> c, torn |-> t] /\ w = [v EXCEPT !.torn = TRUE]
            BY <2>1, <3>1
        <3> HIDE DEF ps, c, v, t
        <3>3. w = [props |-> ps, nchildren |-> c, torn |-> TRUE]
            BY ONLY <3>2
        <3>4. w = [props |-> w.props, nchildren |-> c, torn |-> w.torn] /\ w.props = ps
            BY ONLY <3>3
        <3> QED BY <3>4 DEF ps, c, w
    <2>3. CASE n # m
        <3>1. e[n] = d[n]
            BY <1>2, <2>3
        <3> QED BY <2>1, <3>1, Zenon
    <2> QED BY <2>2, <2>3
<1> HIDE DEF e
<1>5. ASSUME NEW n \in DOMAIN old
      PROVE  /\ e[n].props = [p \in DOMAIN old[n].props |-> e[n].props[p]]
             /\ \A p \in DOMAIN old[n].props :
                   e[n].props[p] = [name |-> e[n].props[p].name, size |-> old[n].props[p].size,
                                    val |-> e[n].props[p].val]
    <2>1. e[n].props = d[n].props
        BY <1>4
    <2>2. d[n].props = [p \in DOMAIN old[n].props |-> d[n].props[p]]
        BY DEF LikeTree
    <2>3. \A p \in DOMAIN old[n].props :
             d[n].props[p] = [name |-> d[n].props[p].name, size |-> old[n].props[p].size,
                              val |-> d[n].props[p].val]
        BY DEF LikeTree
    <2> QED BY <2>1, <2>2, <2>3, Zenon
<1>6. LikeTree(e)
    BY <1>3, <1>4, <1>5, Zenon DEF LikeTree
<1> QED BY <1>4, <1>6 DEF e

\* The properties of some names are among those that they should be.
AllRight(d, names, rights) ==
    \A n \in DOMAIN old : \A p \in DOMAIN old[n].props :
        d[n].props[p].name \in names => d[n].props[p] \in rights

\* A patch changes none that are registers, and no name but to lose it.
LEMMA PatchKeepsRegions ==
    ASSUME Given, NEW d, LikeTree(d), NEW spec, Applies(d, spec),
           NEW names, NEW rights, NoName \notin names, \A r \in rights : r.size = REG_SIZE,
           AllRight(d, names, rights)
    PROVE  LikeTree(Patched(d, spec)) /\ AllRight(Patched(d, spec), names, rights)
<1> DEFINE m == Target(d, spec)[1]
           p == Target(d, spec)[2]
           size == d[m].props[p].size
           word == Parsed(spec, size)
           set == [d EXCEPT ![m].props[p].val = word]
           lost == [set EXCEPT ![m].props[p + 1].name = NoName]
           torn == [set EXCEPT ![m + 1].torn = TRUE]
<1>1. word # NoInt
    BY DEF Applies
<1>2. size \in {4, 8}
    BY <1>1 DEF Parsed
<1>3. Patched(d, spec) \in {set, lost, torn}
    BY Zenon DEF Patched, SetProperty, ZeroBehind, NoName
<1> HIDE DEF m, p, word
<1>4. Changed(d, set, m, p, [name |-> d[m].props[p].name, size |-> old[m].props[p].size, val |-> word])
    BY ValueSet
<1>5. ASSUME m \in DOMAIN old, p \in DOMAIN old[m].props
      PROVE  d[m].props[p].name \notin names
    <2> SUFFICES ASSUME d[m].props[p].name \in names PROVE FALSE
        OBVIOUS
    <2>1. d[m].props[p] \in rights
        BY <1>5 DEF AllRight
    <2>2. size = REG_SIZE
        BY <2>1 DEF size
    <2> HIDE DEF size
    <2> QED BY <1>2, <2>2 DEF REG_SIZE
<1> HIDE DEF set, size
<1>6. LikeTree(set)
    BY <1>4 DEF Changed
<1>7. AllRight(set, names, rights)
    <2> SUFFICES ASSUME NEW n \in DOMAIN old, NEW q \in DOMAIN old[n].props, set[n].props[q].name \in names
                 PROVE  set[n].props[q] \in rights
        BY DEF AllRight
    <2>1. CASE n = m /\ q = p
        <3>1. set[n].props[q] = [name |-> d[m].props[p].name, size |-> old[m].props[p].size, val |-> word]
            BY <1>4, <2>1 DEF Changed
        <3>2. set[n].props[q].name = d[m].props[p].name
            BY <3>1, PropertyFields
        <3> QED BY <1>5, <2>1, <3>2
    <2>2. CASE ~ (n = m /\ q = p)
        <3>1. set[n].props[q] = d[n].props[q]
            BY <1>4, <2>2 DEF Changed
        <3> QED BY <3>1 DEF AllRight
    <2> QED BY <2>1, <2>2
<1>8. LikeTree(lost) /\ AllRight(lost, names, rights)
    <2> DEFINE k == p + 1
    <2>1. Changed(set, lost, m, k, [name |-> NoName, size |-> old[m].props[k].size, val |-> set[m].props[k].val])
        BY <1>6, NameSet
    <2> HIDE DEF lost, k
    <2>2. ASSUME NEW n \in DOMAIN old, NEW q \in DOMAIN old[n].props, lost[n].props[q].name \in names
          PROVE  lost[n].props[q] \in rights
        <3>1. CASE n = m /\ q = k
            <4>1. lost[n].props[q] = [name |-> NoName, size |-> old[m].props[k].size, val |-> set[m].props[k].val]
                BY <2>1, <3>1, Zenon DEF Changed
            <4>2. lost[n].props[q].name = NoName
                BY <4>1, PropertyFields
            <4> QED BY <2>2, <4>2, Zenon
        <3>2. CASE ~ (n = m /\ q = k)
            <4>1. lost[n].props[q] = set[n].props[q]
                BY <2>1, <3>2, Zenon DEF Changed
            <4> QED BY <1>7, <2>2, <4>1, Zenon DEF AllRight
        <3> QED BY <3>1, <3>2
    <2> QED BY <2>1, <2>2, Zenon DEF Changed, AllRight
<1>9. LikeTree(torn) /\ AllRight(torn, names, rights)
    <2> DEFINE k == m + 1
    <2>1. LikeTree(torn) /\ \A n \in DOMAIN old : torn[n].props = set[n].props
        BY <1>6, TornKeeps
    <2> HIDE DEF torn
    <2> QED BY <1>7, <2>1 DEF AllRight
<1> HIDE DEF lost, torn
<1> QED BY <1>3, <1>6, <1>7, <1>8, <1>9

-----------------------------------------------------------------------------
(* The patches *)

\* Where each set of the first components of a path leads.
Walked(d, n, path) ==
    CHOOSE f : f = [I \in SUBSET (DOMAIN path) |->
                      IF I = {} THEN n
                      ELSE IF f[I \ {Max(I)}] \in {Nil, Undefined} THEN f[I \ {Max(I)}]
                      ELSE ChildNamed(d, n, path[Max(I)])]

\* A path with one component leads to a child.
LEMMA OneComponent ==
    ASSUME NEW d, NEW n, n \notin {Nil, Undefined}, NEW x
    PROVE  LookupNode(d, n, <<x>>) = ChildNamed(d, n, x)
<1> DEFINE path == <<x>>
           c == ChildNamed(d, n, x)
           Body(f) == [I \in SUBSET (DOMAIN path) |->
                         IF I = {} THEN n
                         ELSE IF f[I \ {Max(I)}] \in {Nil, Undefined} THEN f[I \ {Max(I)}]
                         ELSE ChildNamed(d, n, path[Max(I)])]
           f == [I \in SUBSET {1} |-> IF I = {} THEN n ELSE c]
           g == Walked(d, n, path)
<1>1. DOMAIN path = {1} /\ path[1] = x
    OBVIOUS
<1>2. Max({1}) = 1
    BY DEF Max
<1>3. \A I \in SUBSET {1} : I = {} \/ I = {1}
    OBVIOUS
<1>4. {1} \ {1} = {} /\ {1} # {} /\ {} \in SUBSET {1} /\ {1} \in SUBSET {1}
    OBVIOUS
<1>5. f[{}] = n /\ f[{1}] = c
    OBVIOUS
<1> HIDE DEF path
<1>6. f = Body(f)
    <2>1. ASSUME NEW I \in SUBSET {1}
          PROVE  f[I] = IF I = {} THEN n
                        ELSE IF f[I \ {Max(I)}] \in {Nil, Undefined} THEN f[I \ {Max(I)}]
                        ELSE ChildNamed(d, n, path[Max(I)])
        <3> HIDE DEF f
        <3>1. CASE I = {}
            BY <3>1, <1>5
        <3>2. CASE I = {1}
            BY <3>2, <1>1, <1>2, <1>4, <1>5
        <3> QED BY <3>1, <3>2, <1>3
    <2> QED BY <1>1, <2>1
<1> HIDE DEF f, c
<1>7. g = Body(g)
    BY <1>6 DEF Walked
<1>8. LookupNode(d, n, path) = g[DOMAIN path]
    BY Zenon DEF LookupNode, FoldLeft, MapThenFoldSet, Walked, g
<1> HIDE DEF g
<1>9. g[{}] = n
    BY <1>1, <1>4, <1>7
<1>10. g[{1}] = IF g[{1} \ {Max({1})}] \in {Nil, Undefined} THEN g[{1} \ {Max({1})}]
                ELSE ChildNamed(d, n, path[Max({1})])
    BY <1>1, <1>4, <1>7
<1>11. g[{1}] = c
    BY <1>1, <1>2, <1>4, <1>9, <1>10 DEF c
<1> QED BY <1>1, <1>8, <1>11 DEF path, c

\* The patches in the NVRAM are specifications, while the proxy data are as they were.
LEMMA PatchesType ==
    ASSUME Given, LikeTree(dt), SameNamed(dt, "nvram-proxy-data")
    PROVE  Patches \in Seq(PatchSpecs)
<1> DEFINE n == ChildNamed(dt, Root, "chosen")
           p == PropertyNamed(dt[n], "nvram-proxy-data")
           val == old[n].props[p].val
<1>1. Root \in DOMAIN old /\ Root \notin {Nil, Undefined}
    BY MapPlace DEF Root, Nil, Undefined
<1>2. n \in DOMAIN old \cup {Nil, Undefined}
    BY <1>1, ChildPlace
<1>3. LookupNode(dt, Root, <<"chosen">>) = n
    BY <1>1, OneComponent
<1>4. ProxyData(dt) = IF n \in {Nil, Undefined} THEN <<n, Nil>> ELSE <<n, p>>
    BY <1>3 DEF ProxyData, LookupProperty
<1>5. CASE ProxyData(dt)[2] = Nil
    <2>1. NvramPatches(dt) = <<>>
        BY <1>5 DEF NvramPatches
    <2> QED BY <2>1, EmptySeq DEF Patches
<1>6. CASE ProxyData(dt)[2] # Nil
    <2>1. n \in DOMAIN old /\ ProxyData(dt) = <<n, p>> /\ p # Nil
        BY <1>2, <1>4, <1>6
    <2>2. p \in DOMAIN old[n].props /\ dt[n].props[p].name = "nvram-proxy-data"
        BY <2>1, RegionFound
    <2>3. dt[n].props[p] = old[n].props[p]
        BY <2>1, <2>2 DEF SameNamed
    <2>4. old[n].props[p].name = "nvram-proxy-data" /\ DataAt(dt, ProxyData(dt)) = val
        BY <2>1, <2>2, <2>3 DEF DataAt
    <2>5. PatchesVar(val) # NoVar => varValue(val, PatchesVar(val)) \in Seq(PatchSpecs)
        BY <2>1, <2>2, <2>4, OldIsTree DEF HasProxyData
    <2>6. NvramPatches(dt) = IF PatchesVar(val) = NoVar THEN <<>> ELSE varValue(val, PatchesVar(val))
        BY <1>6, <2>4 DEF NvramPatches
    <2> HIDE DEF val
    <2> QED BY <2>5, <2>6, EmptySeq DEF Patches
<1> QED BY <1>5, <1>6

\* The trees between the patches.
Trees(specs, f) ==
    f = [k \in 0 .. Len(specs) |->
            IF k = 0 THEN dt
            ELSE IF Applies(f[k - 1], specs[k]) THEN Patched(f[k - 1], specs[k])
            ELSE f[k - 1]]

\* There are such trees, and the last of them is the one after the patches.
LEMMA TreesExist ==
    ASSUME NEW S, NEW specs \in Seq(S)
    PROVE  \E f : Trees(specs, f) /\ AfterPatches(specs) = f[Len(specs)]
<1> DEFINE n == Len(specs)
           Next1(t, k) == IF Applies(t, specs[k]) THEN Patched(t, specs[k]) ELSE t
           Upto(m, f) == f = [k \in 0 .. m |-> IF k = 0 THEN dt ELSE Next1(f[k - 1], k)]
           Exists(m) == \E f : Upto(m, f)
           P == {m \in 0 .. n : Exists(m)}
<1>1. n \in Nat
    BY LenProperties
<1> HIDE DEF Next1
<1>2. 0 \in P
    <2> DEFINE f == [k \in 0 .. 0 |-> dt]
    <2>1. Upto(0, f)
        OBVIOUS
    <2>2. Exists(0)
        <3> HIDE DEF f, Upto
        <3> QED BY <2>1
    <2> HIDE DEF Exists
    <2> QED BY <1>1, <2>2
<1>3. ASSUME NEW m \in 1 .. n, m - 1 \in P PROVE m \in P
    <2>1. Exists(m - 1)
        <3> HIDE DEF Exists
        <3> QED BY <1>3
    <2>2. PICK g : Upto(m - 1, g)
        <3> HIDE DEF Upto
        <3> QED BY <2>1
    <2> DEFINE f == [k \in 0 .. m |-> IF k = m THEN Next1(g[m - 1], m) ELSE g[k]]
    <2>3. m \in Nat /\ m # 0
        BY <1>1
    <2>4. ASSUME NEW k \in 0 .. m PROVE f[k] = IF k = 0 THEN dt ELSE Next1(f[k - 1], k)
        <3>1. CASE k = m
            <4>1. f[k] = Next1(g[m - 1], m) /\ f[m - 1] = g[m - 1]
                BY <2>3, <3>1
            <4> HIDE DEF f
            <4> QED BY <2>3, <3>1, <4>1
        <3>2. CASE k # m
            <4>1. k \in 0 .. m - 1 /\ f[k] = g[k]
                BY <2>3, <3>2
            <4>2. g[k] = IF k = 0 THEN dt ELSE Next1(g[k - 1], k)
                BY <2>2, <4>1
            <4>3. k # 0 => k - 1 \in 0 .. m /\ k - 1 # m
                BY <2>3, <4>1
            <4>4. k # 0 => f[k - 1] = g[k - 1]
                BY <4>3
            <4> HIDE DEF f
            <4> QED BY <4>1, <4>2, <4>4
        <3> QED BY <3>1, <3>2
    <2>5. DOMAIN f = 0 .. m /\ f = [k \in 0 .. m |-> f[k]]
        OBVIOUS
    <2> HIDE DEF f
    <2>6. Upto(m, f)
        BY <2>4, <2>5
    <2>7. Exists(m)
        <3> HIDE DEF Upto
        <3> QED BY <2>6
    <2> HIDE DEF Exists
    <2> QED BY <1>1, <2>7
<1>4. Exists(n)
    <2>1. 0 .. n \subseteq P
        <3> HIDE DEF P
        <3> QED BY <1>1, <1>2, <1>3, InductionUp
    <2>2. n \in P
        <3> HIDE DEF P
        <3> QED BY <1>1, <2>1
    <2> HIDE DEF Exists
    <2> QED BY <2>2
<1>5. \E f : Trees(specs, f)
    BY <1>4, Zenon DEF Trees, Next1
<1> DEFINE h == CHOOSE f : Trees(specs, f)
<1>6. Trees(specs, h)
    BY <1>5
<1>7. AfterPatches(specs) = h[Len(specs)]
    BY Zenon DEF AfterPatches, Trees, h
<1> HIDE DEF h
<1> QED BY <1>6, <1>7

\* All patches keep what each of them does.
LEMMA PatchesKeepRegions ==
    ASSUME Given, LikeTree(dt), NEW S, NEW specs \in Seq(S),
           NEW names, NEW rights, NoName \notin names, \A r \in rights : r.size = REG_SIZE,
           AllRight(dt, names, rights)
    PROVE  LikeTree(AfterPatches(specs)) /\ AllRight(AfterPatches(specs), names, rights)
<1> DEFINE n == Len(specs)
<1>1. n \in Nat
    BY LenProperties
<1>2. PICK f : Trees(specs, f) /\ AfterPatches(specs) = f[n]
    BY TreesExist
<1>3. \A k \in 0 .. n : f[k] = IF k = 0 THEN dt
                               ELSE IF Applies(f[k - 1], specs[k]) THEN Patched(f[k - 1], specs[k])
                               ELSE f[k - 1]
    BY <1>2, Zenon DEF Trees
<1> HIDE DEF n
<1> DEFINE P == {k \in 0 .. n : LikeTree(f[k]) /\ AllRight(f[k], names, rights)}
<1>4. 0 \in P
    BY <1>1, <1>3
<1>5. ASSUME NEW k \in 1 .. n, k - 1 \in P PROVE k \in P
    <2>1. k \in 0 .. n /\ k # 0
        BY <1>1
    <2>2. LikeTree(f[k - 1]) /\ AllRight(f[k - 1], names, rights)
        BY <1>5
    <2>3. f[k] = IF Applies(f[k - 1], specs[k]) THEN Patched(f[k - 1], specs[k]) ELSE f[k - 1]
        BY <1>3, <2>1
    <2>4. LikeTree(f[k]) /\ AllRight(f[k], names, rights)
        BY <2>2, <2>3, PatchKeepsRegions
    <2> QED BY <2>1, <2>4
<1>6. n \in P
    <2> HIDE DEF P
    <2>1. 0 .. n \subseteq P
        BY <1>1, <1>4, <1>5, InductionUp
    <2> QED BY <1>1, <2>1
<1> QED BY <1>2, <1>6

-----------------------------------------------------------------------------
(* The memory map *)

Map == MemoryMap(old)

SegmentName(i) == KernelName(kc.segments[i].name)
SegmentRegion(i) ==
    [name |-> SegmentName(i), size |-> REG_SIZE,
     val |-> [base |-> locals.machoBase + kc.segments[i].fileoff, size |-> kc.segments[i].filesize]]
SegmentNames == {SegmentName(i) : i \in DOMAIN kc.segments}
SegmentRegions == {SegmentRegion(i) : i \in DOMAIN kc.segments}

SepfwRegion == [name |-> "SEPFW", size |-> REG_SIZE,
                val |-> [base |-> Moved(locals.sepfw), size |-> SepfwSize]]
ArgsRegion == [name |-> "BootArgs", size |-> REG_SIZE,
               val |-> [base |-> Moved(locals.ba), size |-> ArgsSize]]
NewNames == SegmentNames \cup {"SEPFW", "BootArgs"}
NewRegions == SegmentRegions \cup {SepfwRegion, ArgsRegion}

\* While the map is rewritten: only its regions of the kernel are touched.
Rewritten(d) ==
    /\ LikeTree(d) /\ Whole(d)
    /\ \A name \in OtherNames : SameNamed(d, name)
    /\ \A n \in DOMAIN old : n # Map => d[n] = old[n]

\* The regions of the running kernel before the next one are renamed.
Reserving ==
    /\ turn \in 1 .. Len(old[Map].props) + 1
    /\ locals.number \in RESERVED_FROM + 1 - turn .. RESERVED_FROM
    /\ \A p \in DOMAIN old[Map].props :
          p < turn /\ StartsWith(dt[Map].props[p].name, "Kernel-") =>
              dt[Map].props[p].name = KernelName("mach_header")

\* The next segment's region is one of the reserved ones.
Taking ==
    /\ turn \in Nat \ {0}
    /\ locals.region # Nil =>
          /\ locals.region \in DOMAIN old[Map].props
          /\ StartsWith(dt[Map].props[locals.region].name, "MemoryMapReserved-")

Handled ==
    KernelcacheIsHandled /\ locals.entry = locals.machoBase + kc.pc - VmMin(kc)

Located ==
    /\ Map # Nil /\ HasRegister(old, PayloadRegion) /\ locals.payload = Reg(old, PayloadRegion).base
    /\ HasRegister(old, "SEPFW") /\ HasRegister(old, "BootArgs")

BeforeMap == Early \cup {"copy boot args", "copy stub"}
BehindKernelcache == BehindSepfw \cup {"sepfw", "entered"}
BehindMap == {"patch", "next stage", "stub", "entered"}

MapInv ==
    /\ Given
    /\ stage \in BeforeMap => dt = old /\ locals.number = RESERVED_FROM
    /\ stage \in {"reserve", "segments", "regs"} => Rewritten(dt)
    /\ stage = "reserve" => Reserving
    /\ stage = "segments" => Taking
    /\ stage \in {"segments", "regs"} => AllRight(dt, SegmentNames, SegmentRegions)
    /\ stage = "patch" => SameNamed(dt, "nvram-proxy-data")
    /\ stage \in BehindMap => LikeTree(dt) /\ AllRight(dt, NewNames, NewRegions)
    /\ stage \in BehindKernelcache => Handled
    /\ stage = "entered" => Located

LEMMA MapInit == Init => MapInv
<1> SUFFICES ASSUME Init PROVE MapInv
    OBVIOUS
<1>1. PICK in \in Inputs :
          /\ kc = in.kc /\ dt = in.tree
          /\ before = [dt |-> in.tree, memory |-> Loaded(in.files)]
    BY Zenon DEF Init
<1>2. dt = old /\ Given
    BY <1>1 DEF old, Given
<1>3. stage = "boot args" /\ locals.number = RESERVED_FROM
    BY DEF Init
<1> QED BY <1>2, <1>3 DEF MapInv, BehindMap, BehindKernelcache, BehindSepfw, BehindBootArgs

\* The end of the function.
LEMMA MapEnd ==
    ASSUME MapInv, UNCHANGED <<kc, before>>, stage' \in {"returned", "aborted", "runaway"}
    PROVE  MapInv'
<1>1. Given'
    BY DEF MapInv, Given, old
<1> QED BY <1>1 DEF MapInv, BeforeMap, Early, BehindMap, BehindKernelcache, BehindSepfw, BehindBootArgs

\* The names that are not renamed are apart from those that are.
LEMMA NamesApart ==
    ASSUME Given
    PROVE  /\ \A name \in OtherNames :
                 ~ StartsWith(name, "Kernel-") /\ ~ StartsWith(name, "MemoryMapReserved-")
           /\ \A i \in DOMAIN kc.segments :
                 StartsWith(SegmentName(i), "Kernel-") /\ SegmentName(i) # KernelName("mach_header")
           /\ \A i, j \in DOMAIN kc.segments : SegmentName(i) = SegmentName(j) => i = j
           /\ Map # Nil => \A k \in DOMAIN old[Map].props :
                 /\ StartsWith(ReservedName(RESERVED_FROM + 1 - k), "MemoryMapReserved-")
                 /\ ~ StartsWith(ReservedName(RESERVED_FROM + 1 - k), "Kernel-")
<1>1. PICK in \in Inputs : kc = in.kc /\ old = in.tree
    BY DEF Given
<1>2. NamesAreApart(in)
    BY iBootAssumption
<1>3. \A i \in DOMAIN kc.segments : kc.segments[i] \in Range(kc.segments)
    BY DEF Range
<1> QED BY <1>1, <1>2, <1>3 DEF NamesAreApart, SegmentName, Map

\* The memory map is a node of the tree, and the regions are in there.
LEMMA MapIsThere ==
    ASSUME Given, Map # Nil
    PROVE  Map \in DOMAIN old /\ RegionsAreInTheMap(old) /\ Map > 0
<1>1. Map \in DOMAIN old
    BY OldIsTree, MapPlace DEF Map
<1>2. RegionsAreInTheMap(old)
    BY iBootAssumption DEF Given, Map
<1> QED BY <1>1, <1>2, OldIsTree

\* What stays when the kernelcache and what iBoot has left do.
LEMMA SameGiven ==
    ASSUME UNCHANGED <<kc, before>>
    PROVE  /\ old' = old /\ Map' = Map /\ Given' = Given
           /\ KernelcacheIsHandled' = KernelcacheIsHandled
           /\ LikeTree(dt') => LikeTree(dt)'
           /\ Rewritten(dt') => Rewritten(dt)'
           /\ SameNamed(dt', "nvram-proxy-data") => SameNamed(dt, "nvram-proxy-data")'
<1>1. old' = old
    BY DEF old
<1>2. Map' = Map
    BY <1>1 DEF Map
<1>3. Given' = Given
    BY <1>1, Zenon DEF Given
<1>4. KernelcacheIsHandled' = KernelcacheIsHandled
    BY DEF KernelcacheIsHandled
<1>5. LikeTree(dt') => LikeTree(dt)'
    BY <1>1 DEF LikeTree
<1>6. SameNamed(dt', "nvram-proxy-data") => SameNamed(dt, "nvram-proxy-data")'
    BY <1>1 DEF SameNamed
<1>7. Rewritten(dt') => Rewritten(dt)'
    <2> SUFFICES ASSUME Rewritten(dt') PROVE Rewritten(dt)'
        OBVIOUS
    <2>1. LikeTree(dt)'
        BY <1>5 DEF Rewritten
    <2>2. Whole(dt)'
        BY <1>1 DEF Rewritten, Whole
    <2>3. (\A name \in OtherNames : SameNamed(dt, name))'
        BY <1>1 DEF Rewritten, SameNamed
    <2>4. (\A n \in DOMAIN old : n # Map => dt[n] = old[n])'
        BY <1>1, <1>2 DEF Rewritten
    <2> QED BY <2>1, <2>2, <2>3, <2>4 DEF Rewritten
<1> QED BY <1>1, <1>2, <1>3, <1>4, <1>5, <1>6, <1>7

\* The regions that the map is to have, while nothing is found anew.
LEMMA SameNewRegions ==
    ASSUME UNCHANGED <<kc, before>>,
           locals'.payload = locals.payload, locals'.machoBase = locals.machoBase,
           locals'.sepfw = locals.sepfw, locals'.ba = locals.ba
    PROVE  /\ AllRight(dt', SegmentNames, SegmentRegions) => AllRight(dt, SegmentNames, SegmentRegions)'
           /\ AllRight(dt', NewNames, NewRegions) => AllRight(dt, NewNames, NewRegions)'
<1>1. old' = old
    BY DEF old
<1>2. SegmentNames' = SegmentNames
    BY DEF SegmentNames, SegmentName
<1>3. SegmentRegions' = SegmentRegions
    BY DEF SegmentRegions, SegmentRegion, SegmentName
<1>4. SepfwRegion' = SepfwRegion
    BY <1>1 DEF SepfwRegion, Moved, SepfwSize
<1>5. ArgsRegion' = ArgsRegion
    BY <1>1 DEF ArgsRegion, Moved, ArgsSize
<1>6. NewNames' = NewNames
    BY <1>2 DEF NewNames
<1>7. NewRegions' = NewRegions
    BY <1>3, <1>4, <1>5 DEF NewRegions
<1>8. AllRight(dt', SegmentNames, SegmentRegions) => AllRight(dt, SegmentNames, SegmentRegions)'
    BY <1>1, <1>2, <1>3 DEF AllRight
<1>9. AllRight(dt', NewNames, NewRegions) => AllRight(dt, NewNames, NewRegions)'
    BY <1>1, <1>6, <1>7 DEF AllRight
<1> QED BY <1>8, <1>9

\* The steps before the map is rewritten.
LEMMA FindingMap ==
    ASSUME BootInv, MapInv,
           BootArgs \/ MachHeader \/ Payload \/ Kernelcache \/ Sepfw \/ CopySepfw \/ BootArgsRegion
              \/ CopyBootArgs
    PROVE  MapInv'
<1> SUFFICES ASSUME stage' \notin {"returned", "aborted", "runaway"} PROVE MapInv'
    <2>1. UNCHANGED <<kc, before>>
        BY DEF BootArgs, MachHeader, Payload, Kernelcache, Sepfw, CopySepfw, BootArgsRegion,
               CopyBootArgs, Missing, Found, End, Goto, input
    <2> QED BY <2>1, MapEnd
<1>1. /\ UNCHANGED <<kc, before, dt>> /\ stage \in BeforeMap /\ stage' \in BeforeMap
      /\ stage' \in BehindKernelcache => stage \in BehindKernelcache \/ Kernelcache
      /\ locals'.number = locals.number
      /\ stage \in BehindKernelcache =>
            locals'.entry = locals.entry /\ locals'.machoBase = locals.machoBase
    <2> USE DEF BeforeMap, Early, BehindKernelcache, BehindSepfw, BehindBootArgs
    <2>0. AtFields
        BY DEF BootInv
    <2>1. CASE BootArgs
        BY <2>1 DEF BootArgs, End, Goto, input
    <2>2. CASE MachHeader
        BY <2>0, <2>2 DEF MachHeader, Missing, Found, End, Goto, input, AtFields
    <2>3. CASE Payload
        BY <2>0, <2>3 DEF Payload, Missing, Found, End, Goto, input, AtFields
    <2>4. CASE Kernelcache
        BY <2>0, <2>4 DEF Kernelcache, End, Goto, input, AtFields
    <2>5. CASE Sepfw
        BY <2>0, <2>5 DEF Sepfw, Missing, Found, End, Goto, input, AtFields
    <2>6. CASE CopySepfw
        BY <2>6 DEF CopySepfw, Goto, input
    <2>7. CASE BootArgsRegion
        <3> DEFINE ba == locals.sepfw + Reg(dt, "SEPFW").size
                   end == ba + Reg(dt, "BootArgs").size
        <3>1. /\ Found("boot args region", "BootArgs", "copy boot args")
              /\ locals' = [locals EXCEPT !.ba = ba, !.stub = end]
            BY <2>7 DEF BootArgsRegion, Missing, End
        <3> HIDE DEF ba, end
        <3>2. /\ locals'.number = locals.number /\ locals'.entry = locals.entry
              /\ locals'.machoBase = locals.machoBase
            BY <2>0, <3>1 DEF AtFields
        <3> QED BY <3>1, <3>2 DEF Found, Goto, input
    <2>8. CASE CopyBootArgs
        BY <2>8 DEF CopyBootArgs, Goto, input
    <2> QED BY <2>1, <2>2, <2>3, <2>4, <2>5, <2>6, <2>7, <2>8
<1>2. old' = old /\ Given' /\ KernelcacheIsHandled' = KernelcacheIsHandled
    BY <1>1, SameGiven DEF MapInv
<1>3. dt' = old' /\ locals'.number = RESERVED_FROM
    BY <1>1, <1>2 DEF MapInv
<1>4. stage' \in BehindKernelcache => Handled'
    <2>1. CASE stage \in BehindKernelcache
        BY <1>1, <1>2, <2>1 DEF MapInv, Handled
    <2>2. CASE Kernelcache
        <3>1. KernelcacheIsHandled /\ locals' = [locals EXCEPT !.entry = locals.machoBase + kc.pc - VmMin(kc)]
            BY <2>2 DEF Kernelcache, End
        <3>2. /\ locals'.entry = locals.machoBase + kc.pc - VmMin(kc)
              /\ locals'.machoBase = locals.machoBase
            BY <3>1 DEF BootInv, AtFields
        <3> QED BY <1>1, <1>2, <3>1, <3>2 DEF Handled
    <2> QED BY <1>1, <2>1, <2>2
<1>5. /\ stage' \notin {"reserve", "segments", "regs", "patch", "entered"}
      /\ stage' \notin BehindMap
    BY <1>1 DEF BeforeMap, Early, BehindMap
<1> QED BY <1>2, <1>3, <1>4, <1>5 DEF MapInv

\* When the memory map begins to be rewritten, it is as it was.
LEMMA CopyStubMap == BootInv /\ MapInv /\ CopyStub => MapInv'
<1> SUFFICES ASSUME BootInv, MapInv, CopyStub PROVE MapInv'
    OBVIOUS
<1>1. /\ stage = "copy stub" /\ stage' = "reserve" /\ turn' = 1
      /\ UNCHANGED <<kc, before, dt, locals>>
    BY DEF CopyStub, Goto, input
<1>2. /\ old' = old /\ Map' = Map /\ Given /\ Given' /\ KernelcacheIsHandled' = KernelcacheIsHandled
      /\ Rewritten(dt') => Rewritten(dt)'
    BY <1>1, SameGiven DEF MapInv
<1>3. dt = old /\ locals.number = RESERVED_FROM
    BY <1>1 DEF MapInv, BeforeMap
<1>4. LikeTree(old) /\ Whole(old)
    BY <1>2, OldIsTree
<1>5. Rewritten(dt)'
    <2>1. \A name \in OtherNames : SameNamed(old, name)
        BY DEF SameNamed
    <2> QED BY <1>1, <1>2, <1>3, <1>4, <2>1 DEF Rewritten
<1>6. stage \in BehindSepfw /\ stage \in BehindKernelcache
    BY <1>1 DEF BehindSepfw, BehindBootArgs, BehindKernelcache
<1>7. Map \in DOMAIN old
    BY <1>2, <1>6, PlacedBehindSepfw, MapIsThere DEF Map
<1>8. Reserving'
    <2>1. Len(old[Map].props) \in Nat /\ DOMAIN old[Map].props = 1 .. Len(old[Map].props)
        BY <1>2, <1>4, <1>7, LikeLengths
    <2>2. 1 \in 1 .. Len(old[Map].props) + 1
        BY <2>1
    <2>3. locals.number \in RESERVED_FROM + 1 - 1 .. RESERVED_FROM
        BY <1>3 DEF RESERVED_FROM
    <2>4. \A p \in DOMAIN old[Map].props : ~ (p < 1)
        BY <2>1
    <2> QED BY <1>1, <1>2, <2>2, <2>3, <2>4 DEF Reserving
<1>9. Handled'
    BY <1>1, <1>2, <1>6 DEF MapInv, Handled
<1> QED BY <1>1, <1>2, <1>5, <1>8, <1>9 DEF MapInv, BeforeMap, Early, BehindMap

-----------------------------------------------------------------------------
(* Rewriting the map *)

\* Its place stays the same while it is rewritten.
LEMMA RewrittenMap ==
    ASSUME Given, NEW d, Rewritten(d) PROVE MemoryMap(d) = Map
<1>1. SameNamed(d, "name")
    BY DEF Rewritten, OtherNames
<1> QED BY <1>1, SameMap DEF Rewritten, Map

\* A region that is renamed takes no other name, and had none.
LEMMA RegionRewritten ==
    ASSUME Given, NEW d, Rewritten(d), NEW e, Map \in DOMAIN old, NEW p \in DOMAIN old[Map].props,
           d[Map].props[p].name \notin OtherNames, NEW name, name \notin OtherNames,
           NEW size, NEW val, Changed(d, e, Map, p, [name |-> name, size |-> size, val |-> val])
    PROVE  Rewritten(e)
<1> DEFINE r == [name |-> name, size |-> size, val |-> val]
<1>0. r.name = name
    OBVIOUS
<1> HIDE DEF r
<1>1. /\ LikeTree(e)
      /\ \A n \in DOMAIN old :
            /\ e[n].torn = d[n].torn
            /\ n # Map => e[n] = d[n]
            /\ \A q \in DOMAIN old[n].props :
                  e[n].props[q] = IF n = Map /\ q = p THEN r ELSE d[n].props[q]
    BY DEF Changed, r
<1>2. Whole(e)
    BY <1>1 DEF Rewritten, Whole
<1>3. ASSUME NEW o \in OtherNames PROVE SameNamed(e, o)
    <2> SUFFICES ASSUME NEW n \in DOMAIN old, NEW q \in DOMAIN old[n].props,
                        e[n].props[q].name = o \/ old[n].props[q].name = o
                 PROVE  e[n].props[q] = old[n].props[q]
        BY DEF SameNamed
    <2>1. d[n].props[q].name = o \/ old[n].props[q].name = o => d[n].props[q] = old[n].props[q]
        BY DEF Rewritten, SameNamed
    <2>2. CASE n = Map /\ q = p
        <3>1. e[n].props[q].name = name
            BY <1>0, <1>1, <2>2
        <3>2. old[n].props[q].name = o
            BY <1>3, <3>1
        <3>3. d[Map].props[p].name = o
            BY <2>1, <2>2, <3>2
        <3> QED BY <1>3, <3>3
    <2>3. CASE ~ (n = Map /\ q = p)
        <3>1. e[n].props[q] = d[n].props[q]
            BY <1>1, <2>3
        <3> QED BY <2>1, <3>1
    <2> QED BY <2>2, <2>3
<1>4. \A n \in DOMAIN old : n # Map => e[n] = old[n]
    BY <1>1 DEF Rewritten
<1> QED BY <1>1, <1>2, <1>3, <1>4 DEF Rewritten

\* What the steps that rewrite the map rely on.
LEMMA MapFound ==
    ASSUME BootInv, MapInv, stage \in {"reserve", "segments", "regs"}
    PROVE  /\ Map \in DOMAIN old /\ Map # Nil /\ MemoryMap(dt) = Map /\ RegionsAreInTheMap(old)
           /\ LikeTree(dt) /\ Handled /\ Given /\ Rewritten(dt)
           /\ Len(old[Map].props) \in Nat /\ DOMAIN old[Map].props = 1 .. Len(old[Map].props)
<1>1. Given /\ Rewritten(dt) /\ LikeTree(dt)
    BY DEF MapInv, Rewritten
<1>2. stage \in BehindSepfw /\ stage \in BehindKernelcache
    BY DEF BehindSepfw, BehindBootArgs, BehindKernelcache
<1>3. Map # Nil
    BY <1>2, PlacedBehindSepfw DEF Map
<1>4. Map \in DOMAIN old /\ RegionsAreInTheMap(old)
    BY <1>1, <1>3, MapIsThere
<1>5. Len(old[Map].props) \in Nat /\ DOMAIN old[Map].props = 1 .. Len(old[Map].props)
    BY <1>1, <1>4, LikeLengths
<1>6. Handled
    BY <1>2 DEF MapInv
<1> QED BY <1>1, <1>3, <1>4, <1>5, <1>6, RewrittenMap

\* What has been handled stays so.
LEMMA SameHandled ==
    ASSUME Handled, UNCHANGED <<kc, before>>, locals'.entry = locals.entry,
           locals'.machoBase = locals.machoBase
    PROVE  Handled'
    BY SameGiven DEF Handled

\* When no region of the running kernel is left but its header's, none has the name
\* of a segment's.
LEMMA NoneIsASegment ==
    ASSUME BootInv, MapInv, stage = "reserve", NextWithPrefix("Kernel-", turn) = Nil
    PROVE  AllRight(dt, SegmentNames, SegmentRegions)
<1>1. /\ Map \in DOMAIN old /\ MemoryMap(dt) = Map /\ RegionsAreInTheMap(old)
      /\ LikeTree(dt) /\ Given /\ Rewritten(dt)
      /\ Len(old[Map].props) \in Nat /\ DOMAIN old[Map].props = 1 .. Len(old[Map].props)
    BY MapFound
<1>2. Reserving
    BY DEF MapInv
<1> SUFFICES ASSUME NEW n \in DOMAIN old, NEW q \in DOMAIN old[n].props,
                    dt[n].props[q].name \in SegmentNames
             PROVE  FALSE
    BY DEF AllRight
<1>3. PICK i \in DOMAIN kc.segments : dt[n].props[q].name = SegmentName(i)
    BY DEF SegmentNames
<1>4. StartsWith(SegmentName(i), "Kernel-") /\ SegmentName(i) # KernelName("mach_header")
    BY <1>1, NamesApart
<1>5. StartsWith(dt[n].props[q].name, "Kernel-") /\ dt[n].props[q].name # KernelName("mach_header")
    BY <1>3, <1>4
<1>6. n = Map
    <2>1. n # Map => old[n].props[q].name = dt[n].props[q].name
        BY <1>1 DEF Rewritten
    <2>2. StartsWith(old[n].props[q].name, "Kernel-") => n = Map
        BY <1>1 DEF RegionsAreInTheMap, Map
    <2> QED BY <1>5, <2>1, <2>2
<1>7. turn \in 1 .. Len(old[Map].props) + 1
    BY <1>2 DEF Reserving
<1>8. \A r \in DOMAIN old[Map].props : r >= turn => ~ StartsWith(dt[Map].props[r].name, "Kernel-")
    BY <1>1, <1>7, NextRegion
<1>9. q < turn
    BY <1>1, <1>5, <1>6, <1>7, <1>8
<1> QED BY <1>2, <1>5, <1>6, <1>9 DEF Reserving

\* The regions of the running kernel are given up, one by one.
LEMMA ReserveMap == BootInv /\ MapInv /\ Reserve => MapInv'
<1> SUFFICES ASSUME BootInv, MapInv, Reserve PROVE MapInv'
    OBVIOUS
<1> DEFINE len == Len(old[Map].props)
           p == NextWithPrefix("Kernel-", turn)
           name == ReservedName(locals.number)
<1>1. stage = "reserve" /\ UNCHANGED <<kc, before>>
    BY DEF Reserve, Goto, End, input
<1>2. /\ Map \in DOMAIN old /\ Map # Nil /\ MemoryMap(dt) = Map /\ LikeTree(dt) /\ Handled
      /\ Given /\ Rewritten(dt) /\ len \in Nat /\ DOMAIN old[Map].props = 1 .. len
    BY <1>1, MapFound
<1>3. Reserving
    BY <1>1 DEF MapInv
<1>4. /\ turn \in 1 .. len + 1 /\ locals.number \in RESERVED_FROM + 1 - turn .. RESERVED_FROM
      /\ \A q \in DOMAIN old[Map].props :
            q < turn /\ StartsWith(dt[Map].props[q].name, "Kernel-") =>
               dt[Map].props[q].name = KernelName("mach_header")
    BY <1>3 DEF Reserving
<1>5. /\ p # Nil => p \in 1 .. len /\ p >= turn /\ StartsWith(dt[Map].props[p].name, "Kernel-")
      /\ \A r \in 1 .. len : r >= turn /\ (p = Nil \/ r < p) =>
            ~ StartsWith(dt[Map].props[r].name, "Kernel-")
    BY <1>2, <1>4, NextRegion
<1>6. /\ old' = old /\ Map' = Map /\ Given'
      /\ LikeTree(dt') => LikeTree(dt)'
      /\ Rewritten(dt') => Rewritten(dt)'
    BY <1>1, <1>2, SameGiven
<1>7. AtFields
    BY DEF BootInv
<1>8. CASE End("aborted")
    BY <1>1, <1>8, MapEnd DEF End, input
<1>9. CASE /\ p = Nil /\ Goto("segments")
           /\ locals' = [locals EXCEPT !.region = NextWithPrefix("MemoryMapReserved-", 1)]
           /\ UNCHANGED <<input, dt, memory, stub>>
    <2> DEFINE first == NextWithPrefix("MemoryMapReserved-", 1)
    <2>1. /\ p = Nil /\ stage' = "segments" /\ turn' = 1 /\ dt' = dt
          /\ locals' = [locals EXCEPT !.region = first]
        BY <1>9 DEF Goto
    <2> HIDE DEF first
    <2>2. /\ locals'.region = first /\ locals'.entry = locals.entry
          /\ locals'.machoBase = locals.machoBase /\ locals'.payload = locals.payload
          /\ locals'.sepfw = locals.sepfw /\ locals'.ba = locals.ba
        BY <1>7, <2>1 DEF AtFields
    <2>3. Rewritten(dt)' /\ Handled'
        BY <1>1, <1>2, <1>6, <2>1, <2>2, SameHandled
    <2>4. AllRight(dt, SegmentNames, SegmentRegions)'
        <3>1. AllRight(dt, SegmentNames, SegmentRegions)
            BY <1>1, <2>1, NoneIsASegment
        <3> QED BY <1>1, <2>1, <2>2, <3>1, SameNewRegions
    <2>5. first # Nil => first \in 1 .. len /\ StartsWith(dt[Map].props[first].name, "MemoryMapReserved-")
        <3>1. 1 \in 1 .. len + 1
            BY <1>2
        <3> QED BY <1>2, <3>1, NextRegion DEF first
    <2>6. Taking'
        BY <1>2, <1>6, <2>1, <2>2, <2>5 DEF Taking
    <2> QED BY <1>6, <2>1, <2>3, <2>4, <2>6 DEF MapInv, BeforeMap, Early, BehindMap
<1>10. CASE /\ p # Nil /\ Regions[p].name = KernelName("mach_header")
            /\ turn' = p + 1 /\ UNCHANGED <<stage, input, dt, memory, locals, stub>>
    <2>1. dt[Map].props[p].name = KernelName("mach_header")
        BY <1>2, <1>10 DEF Regions
    <2>2. p \in 1 .. len /\ p >= turn
        BY <1>5, <1>10
    <2> HIDE DEF p, len
    <2>3. Reserving'
        <3>1. p + 1 \in 1 .. len + 1 /\ locals.number \in RESERVED_FROM + 1 - (p + 1) .. RESERVED_FROM
            BY <1>2, <1>4, <2>2 DEF RESERVED_FROM
        <3>2. ASSUME NEW q \in 1 .. len, q < p + 1, StartsWith(dt[Map].props[q].name, "Kernel-")
              PROVE  dt[Map].props[q].name = KernelName("mach_header")
            <4>1. CASE q < turn
                BY <1>2, <1>4, <3>2, <4>1
            <4>2. CASE q >= turn /\ q < p
                BY <1>5, <3>2, <4>2
            <4>3. CASE q = p
                BY <2>1, <4>3
            <4>4. q < turn \/ (q >= turn /\ q < p) \/ q = p
                BY <1>4, <2>2, <3>2, <1>2
            <4> QED BY <4>1, <4>2, <4>3, <4>4
        <3> QED BY <1>2, <1>6, <1>10, <3>1, <3>2 DEF Reserving, len
    <2>4. Rewritten(dt)' /\ Handled' /\ stage' = "reserve"
        BY <1>1, <1>2, <1>6, <1>10, SameHandled
    <2> QED BY <1>6, <2>3, <2>4 DEF MapInv, BeforeMap, Early, BehindMap
<1>11. CASE /\ p # Nil /\ dt' = SetRegion(p, name, 0, 0)
            /\ locals' = [locals EXCEPT !.number = NextNumber(locals.number)]
            /\ turn' = p + 1 /\ UNCHANGED <<stage, input, memory, stub>>
    <2>1. p \in 1 .. len /\ p >= turn /\ StartsWith(dt[Map].props[p].name, "Kernel-")
        BY <1>5, <1>11
    <2>2. /\ locals'.number = locals.number - 1 /\ locals'.entry = locals.entry
          /\ locals'.machoBase = locals.machoBase
        BY <1>7, <1>11 DEF AtFields, NextNumber
    <2> HIDE DEF p
    <2>3. Changed(dt, dt', Map, p, [name |-> name, size |-> old[Map].props[p].size,
                                    val |-> [base |-> 0, size |-> 0]])
        BY <1>2, <1>11, <2>1, RegionSet
    <2>4. StartsWith(name, "MemoryMapReserved-") /\ ~ StartsWith(name, "Kernel-")
        <3> DEFINE k == RESERVED_FROM + 1 - locals.number
        <3>1. k \in 1 .. len /\ RESERVED_FROM + 1 - k = locals.number
            BY <1>2, <1>4, <2>1, SMTT(60) DEF RESERVED_FROM
        <3> HIDE DEF k
        <3>2. k \in DOMAIN old[Map].props
            BY <1>2, <3>1
        <3>3. /\ StartsWith(ReservedName(RESERVED_FROM + 1 - k), "MemoryMapReserved-")
              /\ ~ StartsWith(ReservedName(RESERVED_FROM + 1 - k), "Kernel-")
            BY <1>2, <3>2, NamesApart
        <3> QED BY <3>1, <3>3
    <2> HIDE DEF name
    <2>5. Rewritten(dt')
        <3>1. name \notin OtherNames /\ dt[Map].props[p].name \notin OtherNames
            BY <1>2, <2>1, <2>4, NamesApart
        <3> QED BY <1>2, <2>1, <2>3, <3>1, RegionRewritten
    <2>6. Reserving'
        <3>1. /\ p + 1 \in 1 .. len + 1
              /\ locals.number - 1 \in RESERVED_FROM + 1 - (p + 1) .. RESERVED_FROM
            <4> HIDE DEF len
            <4> QED BY <1>2, <1>4, <2>1 DEF RESERVED_FROM
        <3>2. ASSUME NEW q \in 1 .. len, q < p + 1, StartsWith(dt'[Map].props[q].name, "Kernel-")
              PROVE  dt'[Map].props[q].name = KernelName("mach_header")
            <4> HIDE DEF len
            <4>1. CASE q = p
                <5>1. dt'[Map].props[q] = [name |-> name, size |-> old[Map].props[p].size,
                                           val |-> [base |-> 0, size |-> 0]]
                    BY <1>2, <2>3, <4>1 DEF Changed
                <5>2. dt'[Map].props[q].name = name
                    BY <5>1, PropertyFields
                <5> QED BY <2>4, <3>2, <5>2
            <4>2. CASE q # p
                <5>1. dt'[Map].props[q] = dt[Map].props[q]
                    BY <1>2, <2>3, <4>2 DEF Changed
                <5>2. CASE q < turn
                    BY <1>2, <1>4, <3>2, <5>1, <5>2
                <5>3. CASE q >= turn /\ q < p
                    BY <1>5, <3>2, <5>1, <5>3
                <5>4. q < turn \/ (q >= turn /\ q < p)
                    BY <1>2, <1>4, <2>1, <3>2, <4>2
                <5> QED BY <5>2, <5>3, <5>4
            <4> QED BY <4>1, <4>2
        <3>3. dt'[Map'] = dt'[Map] /\ DOMAIN old'[Map'].props = 1 .. len /\ Len(old'[Map'].props) = len
            BY <1>2, <1>6
        <3> HIDE DEF len
        <3> QED BY <1>6, <1>11, <2>2, <3>1, <3>2, <3>3 DEF Reserving
    <2>7. Rewritten(dt)' /\ Handled' /\ stage' = "reserve"
        BY <1>1, <1>2, <1>6, <1>11, <2>2, <2>5, SameHandled
    <2> QED BY <1>6, <2>6, <2>7 DEF MapInv, BeforeMap, Early, BehindMap
<1> QED BY <1>8, <1>9, <1>10, <1>11, Zenon DEF Reserve

\* A segment takes a region that was given up, and its name.
LEMMA SegmentMap == BootInv /\ MapInv /\ Segment => MapInv'
<1> SUFFICES ASSUME BootInv, MapInv, Segment PROVE MapInv'
    OBVIOUS
<1> DEFINE len == Len(old[Map].props)
           p == locals.region
           s == kc.segments[turn]
           region == NextWithPrefix("MemoryMapReserved-", p + 1)
<1>1. stage = "segments" /\ UNCHANGED <<kc, before>>
    BY DEF Segment, Goto, End, input
<1>2. /\ Map \in DOMAIN old /\ Map # Nil /\ MemoryMap(dt) = Map /\ LikeTree(dt) /\ Handled
      /\ Given /\ Rewritten(dt) /\ len \in Nat /\ DOMAIN old[Map].props = 1 .. len
    BY <1>1, MapFound
<1>3. Taking /\ AllRight(dt, SegmentNames, SegmentRegions)
    BY <1>1 DEF MapInv
<1>4. /\ old' = old /\ Map' = Map /\ Given' /\ (Rewritten(dt') => Rewritten(dt)')
    BY <1>1, <1>2, SameGiven
<1>5. AtFields
    BY DEF BootInv
<1>6. CASE End("aborted")
    BY <1>1, <1>6, MapEnd DEF End, input
<1>7. CASE Goto("regs") /\ UNCHANGED <<input, dt, memory, locals, stub>>
    <2>1. stage' = "regs" /\ UNCHANGED <<kc, before, dt, locals>>
        BY <1>1, <1>7 DEF Goto
    <2>2. Handled' /\ Rewritten(dt)'
        BY <1>1, <1>2, <1>4, <2>1, SameHandled
    <2>3. AllRight(dt, SegmentNames, SegmentRegions)'
        BY <1>3, <2>1, SameNewRegions
    <2> QED BY <1>4, <2>1, <2>2, <2>3 DEF MapInv, BeforeMap, Early, BehindMap
<1>8. CASE /\ ~ (turn > Len(kc.segments)) /\ p # Nil /\ Regions[p].size = REG_SIZE
           /\ dt' = SetRegion(p, KernelName(s.name), locals.machoBase + s.fileoff, s.filesize)
           /\ locals' = [locals EXCEPT !.region = region]
           /\ turn' = turn + 1 /\ UNCHANGED <<stage, input, memory, stub>>
    <2>1. p \in 1 .. len /\ StartsWith(dt[Map].props[p].name, "MemoryMapReserved-") /\ turn \in Nat \ {0}
        BY <1>2, <1>3, <1>8 DEF Taking
    <2>2. turn \in DOMAIN kc.segments
        <3>1. kc.segments \in Seq(Range(kc.segments))
            BY <1>2, iBootAssumption DEF Given, SegmentsAreSound
        <3>2. Len(kc.segments) \in Nat /\ DOMAIN kc.segments = 1 .. Len(kc.segments)
            BY <3>1, LenProperties
        <3> QED BY <1>8, <2>1, <3>2
    <2>3. /\ locals'.region = region /\ locals'.entry = locals.entry
          /\ locals'.machoBase = locals.machoBase /\ locals'.payload = locals.payload
          /\ locals'.sepfw = locals.sepfw /\ locals'.ba = locals.ba
        <3> HIDE DEF region
        <3> QED BY <1>5, <1>8 DEF AtFields
    <2>4. old[Map].props[p].size = REG_SIZE
        <3>1. dt[Map].props[p].size = REG_SIZE
            BY <1>2, <1>8 DEF Regions
        <3>2. dt[Map].props[p] = [name |-> dt[Map].props[p].name, size |-> old[Map].props[p].size,
                                  val |-> dt[Map].props[p].val]
            BY <1>2, <2>1 DEF LikeTree
        <3>3. dt[Map].props[p].size = old[Map].props[p].size
            BY <3>2, PropertyFields
        <3> QED BY <3>1, <3>3
    <2>5. Changed(dt, dt', Map, p, SegmentRegion(turn))
        <3>1. Changed(dt, dt', Map, p,
                 [name |-> KernelName(s.name), size |-> old[Map].props[p].size,
                  val |-> [base |-> locals.machoBase + s.fileoff, size |-> s.filesize]])
            BY <1>2, <1>8, <2>1, RegionSet
        <3> QED BY <2>4, <3>1 DEF SegmentRegion, SegmentName
    <2> HIDE DEF p
    <2>6. Rewritten(dt')
        <3>1. SegmentName(turn) \notin OtherNames /\ dt[Map].props[p].name \notin OtherNames
            BY <1>2, <2>1, <2>2, NamesApart
        <3>2. Changed(dt, dt', Map, p,
                 [name |-> SegmentName(turn), size |-> REG_SIZE,
                  val |-> [base |-> locals.machoBase + kc.segments[turn].fileoff,
                           size |-> kc.segments[turn].filesize]])
            BY <2>5 DEF SegmentRegion
        <3> QED BY <1>2, <2>1, <3>1, <3>2, RegionRewritten
    <2>7. AllRight(dt', SegmentNames, SegmentRegions)
        <3> SUFFICES ASSUME NEW n \in DOMAIN old, NEW q \in DOMAIN old[n].props,
                            dt'[n].props[q].name \in SegmentNames
                     PROVE  dt'[n].props[q] \in SegmentRegions
            BY DEF AllRight
        <3>1. dt'[n].props[q] = IF n = Map /\ q = p THEN SegmentRegion(turn) ELSE dt[n].props[q]
            BY <2>5 DEF Changed
        <3>2. SegmentRegion(turn) \in SegmentRegions
            BY <2>2 DEF SegmentRegions
        <3> QED BY <1>3, <3>1, <3>2 DEF AllRight
    <2>8. Taking'
        <3>1. p + 1 \in 1 .. len + 1
            BY <1>2, <2>1
        <3>2. region # Nil => /\ region \in DOMAIN old[Map].props /\ region >= p + 1
                              /\ StartsWith(dt[Map].props[region].name, "MemoryMapReserved-")
            <4> HIDE DEF len
            <4> QED BY <1>2, <3>1, NextRegion DEF len
        <3> HIDE DEF region
        <3>3. region # Nil => dt'[Map].props[region] = dt[Map].props[region]
            <4>1. ASSUME region # Nil PROVE region # p
                <5> HIDE DEF len
                <5>1. region \in 1 .. len /\ region >= p + 1
                    BY <1>2, <3>2, <4>1
                <5> QED BY <1>2, <2>1, <5>1
            <4> QED BY <1>2, <2>5, <3>2, <4>1 DEF Changed
        <3>4. turn' \in Nat \ {0} /\ locals'.region = region
            BY <1>8, <2>1, <2>3
        <3> QED BY <1>4, <3>2, <3>3, <3>4 DEF Taking
    <2>9. stage' = "segments" /\ Handled' /\ Rewritten(dt)'
        BY <1>1, <1>2, <1>4, <1>8, <2>3, <2>6, SameHandled
    <2>10. AllRight(dt, SegmentNames, SegmentRegions)'
        BY <1>1, <2>3, <2>7, SameNewRegions
    <2> QED BY <1>4, <2>8, <2>9, <2>10 DEF MapInv, BeforeMap, Early, BehindMap
<1> QED BY <1>6, <1>7, <1>8, Zenon DEF Segment

\* A register's address is set.
LEMMA BaseSet ==
    ASSUME Given, NEW d, LikeTree(d), NEW m \in DOMAIN old, NEW p \in DOMAIN old[m].props,
           NEW from, NEW size, d[m].props[p].val = [base |-> from, size |-> size], NEW base
    PROVE  LET e == [d EXCEPT ![m].props[p].val.base = base]
           IN Changed(d, e, m, p, [name |-> d[m].props[p].name, size |-> old[m].props[p].size,
                                   val |-> [base |-> base, size |-> size]])
<1> DEFINE val == [d[m].props[p].val EXCEPT !.base = base]
           e == [d EXCEPT ![m].props[p].val.base = base]
<1>1. e = [d EXCEPT ![m].props[p].val = val]
    OBVIOUS
<1>2. val = [base |-> base, size |-> size]
    OBVIOUS
<1> HIDE DEF val, e
<1>3. Changed(d, e, m, p, [name |-> d[m].props[p].name, size |-> old[m].props[p].size, val |-> val])
    BY <1>1, ValueSet
<1> QED BY <1>2, <1>3 DEF e

\* SEPFW and the boot arguments are where they were in the map, until they are moved.
LEMMA PartInMap ==
    ASSUME Given, Rewritten(dt), Map \in DOMAIN old, Map # Nil, NEW name \in {"SEPFW", "BootArgs"},
           HasRegister(old, name)
    PROVE  LET p == Region(old, name)
           IN /\ Region(dt, name) = p /\ p \in DOMAIN old[Map].props
              /\ dt[Map].props[p] = old[Map].props[p]
              /\ old[Map].props[p].name = name /\ old[Map].props[p].size = REG_SIZE
              /\ dt[Map].props[p].val = [base |-> Reg(old, name).base, size |-> Reg(old, name).size]
<1> DEFINE p == Region(old, name)
<1>1. LikeTree(old) /\ LikeTree(dt) /\ Whole(dt) /\ SameNamed(dt, name) /\ MemoryMap(dt) = Map
    BY OldIsTree, RewrittenMap DEF Rewritten, OtherNames
<1>2. p = PropertyNamed(old[Map], name) /\ Region(dt, name) = PropertyNamed(dt[Map], name)
    BY <1>1 DEF Region, Map
<1>3. Region(dt, name) = p
    BY <1>1, <1>2, SameRegion
<1>4. p # Nil /\ old[Map].props[p].size = REG_SIZE
    BY DEF HasRegister, IsRegister, Map
<1>5. p \in DOMAIN old[Map].props /\ old[Map].props[p].name = name
    BY <1>1, <1>2, <1>4, RegionFound
<1> HIDE DEF p
<1>6. dt[Map].props[p] = old[Map].props[p]
    BY <1>1, <1>5 DEF SameNamed
<1>7. Reg(old, name) = old[Map].props[p].val
    BY DEF Reg, Map, p
<1>8. Reg(old, name) = [base |-> Reg(old, name).base, size |-> Reg(old, name).size]
    <2>1. PICK in \in Inputs : old = in.tree
        BY DEF Given
    <2>2. FilesAreThere(in)
        BY <2>1, iBootAssumption DEF Map
    <2> QED BY <2>1, <2>2 DEF FilesAreThere, IsThere
<1>9. dt[Map].props[p].val = [base |-> Reg(old, name).base, size |-> Reg(old, name).size]
    BY <1>6, <1>7, <1>8
<1> QED BY <1>3, <1>4, <1>5, <1>6, <1>9 DEF p

\* A patch takes the names of no region of the new map.
LEMMA NewNamesApart ==
    ASSUME Given
    PROVE  NoName \notin NewNames /\ "nvram-proxy-data" \notin {"SEPFW", "BootArgs"}
<1>1. NoName \notin SegmentNames
    BY NamesApart DEF OtherNames, SegmentNames
<1>2. NoName # "SEPFW" /\ NoName # "BootArgs"
    BY Zenon DEF NoName
<1> QED BY <1>1, <1>2 DEF NewNames

\* Regions are registers, which no patch applies to.
LEMMA NewRegionsAreRegisters == \A r \in NewRegions : r.size = REG_SIZE
<1>1. \A i \in DOMAIN kc.segments : SegmentRegion(i).size = REG_SIZE
    BY DEF SegmentRegion
<1>2. SepfwRegion.size = REG_SIZE
    BY DEF SepfwRegion
<1>3. ArgsRegion.size = REG_SIZE
    BY DEF ArgsRegion
<1> QED BY <1>1, <1>2, <1>3 DEF NewRegions, SegmentRegions

\* SEPFW and the boot arguments get the places the stub will move them to.
LEMMA RegsMap == BootInv /\ MapInv /\ Regs => MapInv'
<1> SUFFICES ASSUME BootInv, MapInv, Regs PROVE MapInv'
    OBVIOUS
<1> DEFINE a == Region(old, "SEPFW")
           b == Region(old, "BootArgs")
           x == Moved(locals.sepfw)
           y == Moved(locals.ba)
           d == [dt EXCEPT ![Map].props[a].val.base = x]
           e == [d EXCEPT ![Map].props[b].val.base = y]
<1>1. stage = "regs" /\ stage' = "patch" /\ UNCHANGED <<kc, before, locals>>
    BY DEF Regs, Goto, input
<1>2. /\ Map \in DOMAIN old /\ Map # Nil /\ MemoryMap(dt) = Map /\ LikeTree(dt) /\ Handled
      /\ Given /\ Rewritten(dt) /\ RegionsAreInTheMap(old)
    BY <1>1, MapFound
<1>3. /\ old' = old /\ Given'
      /\ LikeTree(dt') => LikeTree(dt)'
      /\ SameNamed(dt', "nvram-proxy-data") => SameNamed(dt, "nvram-proxy-data")'
    BY <1>1, <1>2, SameGiven
<1>4. HasRegister(old, "SEPFW") /\ HasRegister(old, "BootArgs")
    BY <1>1, PlacedBehindSepfw DEF BehindSepfw, BehindBootArgs, BootInv, Placed
<1>5. /\ Region(dt, "SEPFW") = a /\ a \in DOMAIN old[Map].props
      /\ dt[Map].props[a] = old[Map].props[a]
      /\ old[Map].props[a].name = "SEPFW" /\ old[Map].props[a].size = REG_SIZE
      /\ dt[Map].props[a].val = [base |-> SepfwBase, size |-> SepfwSize]
    BY <1>2, <1>4, PartInMap DEF SepfwBase, SepfwSize
<1>6. /\ Region(dt, "BootArgs") = b /\ b \in DOMAIN old[Map].props
      /\ dt[Map].props[b] = old[Map].props[b]
      /\ old[Map].props[b].name = "BootArgs" /\ old[Map].props[b].size = REG_SIZE
      /\ dt[Map].props[b].val = [base |-> ArgsBase, size |-> ArgsSize]
    BY <1>2, <1>4, PartInMap DEF ArgsBase, ArgsSize
<1>7. a # b
    BY <1>5, <1>6
<1>8. dt' = e
    <2>1. dt' = [dt EXCEPT ![Map].props[a].val.base = x, ![Map].props[b].val.base = y]
        BY <1>2, <1>5, <1>6 DEF Regs
    <2> HIDE DEF a, b, x, y
    <2> QED BY <2>1, SMTT(60)
<1> HIDE DEF a, b, x, y, e
<1>9. Changed(dt, d, Map, a, SepfwRegion)
    <2>1. Changed(dt, d, Map, a, [name |-> dt[Map].props[a].name, size |-> old[Map].props[a].size,
                                  val |-> [base |-> x, size |-> SepfwSize]])
        BY <1>2, <1>5, BaseSet
    <2> HIDE DEF d
    <2> QED BY <1>5, <2>1 DEF SepfwRegion, x
<1> HIDE DEF d
<1>10. LikeTree(d) /\ d[Map].props[b] = dt[Map].props[b]
    BY <1>2, <1>6, <1>7, <1>9 DEF Changed
<1>11. Changed(d, e, Map, b, ArgsRegion)
    <2>1. d[Map].props[b].val = [base |-> ArgsBase, size |-> ArgsSize]
        BY <1>6, <1>10
    <2>2. Changed(d, e, Map, b, [name |-> d[Map].props[b].name, size |-> old[Map].props[b].size,
                                 val |-> [base |-> y, size |-> ArgsSize]])
        BY <1>2, <1>6, <1>10, <2>1, BaseSet DEF e
    <2>3. d[Map].props[b].name = "BootArgs"
        BY <1>6, <1>10
    <2> QED BY <1>6, <2>2, <2>3 DEF ArgsRegion, y
<1>12. ASSUME NEW n \in DOMAIN old, NEW q \in DOMAIN old[n].props
       PROVE  e[n].props[q] = IF n = Map /\ q = a THEN SepfwRegion
                              ELSE IF n = Map /\ q = b THEN ArgsRegion ELSE dt[n].props[q]
    <2>1. d[n].props[q] = IF n = Map /\ q = a THEN SepfwRegion ELSE dt[n].props[q]
        BY <1>9 DEF Changed
    <2>2. e[n].props[q] = IF n = Map /\ q = b THEN ArgsRegion ELSE d[n].props[q]
        BY <1>11 DEF Changed
    <2> QED BY <1>7, <2>1, <2>2
<1>13. LikeTree(e)
    BY <1>11 DEF Changed
<1>14. SepfwRegion.name = "SEPFW" /\ ArgsRegion.name = "BootArgs"
    BY DEF SepfwRegion, ArgsRegion
<1>15. SameNamed(e, "nvram-proxy-data")
    <2>1. SameNamed(dt, "nvram-proxy-data")
        BY <1>2 DEF Rewritten, OtherNames
    <2> SUFFICES ASSUME NEW n \in DOMAIN old, NEW q \in DOMAIN old[n].props,
                        e[n].props[q].name = "nvram-proxy-data" \/ old[n].props[q].name = "nvram-proxy-data"
                 PROVE  e[n].props[q] = old[n].props[q]
        BY DEF SameNamed
    <2>2. ~ (n = Map /\ q = a)
        BY <1>5, <1>12, <1>14
    <2>3. ~ (n = Map /\ q = b)
        BY <1>6, <1>12, <1>14, <2>2
    <2>4. e[n].props[q] = dt[n].props[q]
        BY <1>12, <2>2, <2>3
    <2> QED BY <2>1, <2>4 DEF SameNamed
<1>16. AllRight(e, NewNames, NewRegions)
    <2> SUFFICES ASSUME NEW n \in DOMAIN old, NEW q \in DOMAIN old[n].props,
                        e[n].props[q].name \in NewNames
                 PROVE  e[n].props[q] \in NewRegions
        BY DEF AllRight
    <2>1. CASE n = Map /\ q \in {a, b}
        BY <1>12, <2>1 DEF NewRegions
    <2>2. CASE ~ (n = Map /\ q \in {a, b})
        <3>1. e[n].props[q] = dt[n].props[q]
            BY <1>12, <2>2
        <3>2. CASE dt[n].props[q].name \in SegmentNames
            <4>1. dt[n].props[q] \in SegmentRegions
                BY <1>1, <3>2 DEF MapInv, AllRight
            <4> QED BY <3>1, <4>1 DEF NewRegions
        <3>3. CASE dt[n].props[q].name \in {"SEPFW", "BootArgs"}
            <4>1. dt[n].props[q] = old[n].props[q]
                BY <1>2, <3>3 DEF Rewritten, SameNamed, OtherNames
            <4>2. n = Map /\ q = Region(old, old[n].props[q].name)
                BY <1>2, <3>3, <4>1 DEF RegionsAreInTheMap, Map
            <4> QED BY <2>2, <3>3, <4>1, <4>2 DEF a, b
        <3> QED BY <3>1, <3>2, <3>3 DEF NewNames
    <2> QED BY <2>1, <2>2
<1>17. (LikeTree(dt) /\ SameNamed(dt, "nvram-proxy-data"))'
    BY <1>3, <1>8, <1>13, <1>15
<1>18. AllRight(dt, NewNames, NewRegions)'
    BY <1>1, <1>8, <1>16, SameNewRegions
<1>19. Handled'
    BY <1>1, <1>2, SameHandled
<1> QED BY <1>1, <1>3, <1>17, <1>18, <1>19 DEF MapInv, BeforeMap, Early, BehindMap

\* The patches leave the map as it is.
LEMMA PatchMap == BootInv /\ MapInv /\ Patch => MapInv'
<1> SUFFICES ASSUME BootInv, MapInv, Patch PROVE MapInv'
    OBVIOUS
<1>1. CASE End("aborted")
    BY <1>1, MapEnd DEF End, input
<1>2. CASE /\ dt' = AfterPatches(Patches) /\ Goto("next stage") /\ stage = "patch"
           /\ UNCHANGED <<input, memory, locals, stub>>
    <2>1. stage = "patch" /\ stage' = "next stage" /\ UNCHANGED <<kc, before, locals>>
        BY <1>2 DEF Goto, input
    <2>2. /\ Given /\ LikeTree(dt) /\ AllRight(dt, NewNames, NewRegions)
          /\ SameNamed(dt, "nvram-proxy-data") /\ Handled
        BY <2>1 DEF MapInv, BehindMap, BehindKernelcache, BehindSepfw, BehindBootArgs
    <2>3. Patches \in Seq(PatchSpecs)
        BY <2>2, PatchesType
    <2>4. NoName \notin NewNames
        BY <2>2, NewNamesApart
    <2>5. LikeTree(dt') /\ AllRight(dt', NewNames, NewRegions)
        BY <1>2, <2>2, <2>3, <2>4, NewRegionsAreRegisters, PatchesKeepRegions
    <2>6. Given' /\ LikeTree(dt)' /\ AllRight(dt, NewNames, NewRegions)' /\ Handled'
        BY <2>1, <2>2, <2>5, SameGiven, SameNewRegions, SameHandled
    <2> QED BY <2>1, <2>6 DEF MapInv, BeforeMap, Early, BehindMap
<1> QED BY <1>1, <1>2 DEF Patch

\* So does the move.
LEMMA MoveMap == BootInv /\ MapInv /\ (NextStage \/ Stub) => MapInv'
<1> SUFFICES ASSUME BootInv, MapInv, NextStage \/ Stub PROVE MapInv'
    OBVIOUS
<1>1. CASE End("runaway")
    BY <1>1, MapEnd DEF End, input
<1>2. CASE ~ End("runaway")
    <2>1. /\ stage \in {"next stage", "stub"} /\ stage' \in {"stub", "entered"}
          /\ UNCHANGED <<kc, before, dt, locals>>
        BY <1>2 DEF NextStage, Stub, Goto, input
    <2>2. /\ Given /\ LikeTree(dt) /\ AllRight(dt, NewNames, NewRegions) /\ Handled
        BY <2>1 DEF MapInv, BehindMap, BehindKernelcache, BehindSepfw, BehindBootArgs
    <2>3. Given' /\ LikeTree(dt)' /\ AllRight(dt, NewNames, NewRegions)' /\ Handled'
        BY <2>1, <2>2, SameGiven, SameNewRegions, SameHandled
    <2>4. Located
        BY <2>1, PlacedBehindSepfw DEF Located, BehindSepfw, BehindBootArgs, BootInv, Placed, Map
    <2>5. Located'
        BY <2>1, <2>4, SameGiven DEF Located
    <2> QED BY <2>1, <2>3, <2>5 DEF MapInv, BeforeMap, Early
<1> QED BY <1>1, <1>2

LEMMA MapStep == BootInv /\ MapInv /\ [Next]_vars => MapInv'
<1> SUFFICES ASSUME BootInv, MapInv, [Next]_vars PROVE MapInv'
    OBVIOUS
<1>1. CASE UNCHANGED vars
    <2>1. UNCHANGED <<kc, before, dt, stage, turn, locals>>
        BY <1>1 DEF vars
    <2>2. /\ old' = old /\ Map' = Map /\ Given'
          /\ LikeTree(dt) => LikeTree(dt)'
          /\ Rewritten(dt) => Rewritten(dt)'
          /\ SameNamed(dt, "nvram-proxy-data") => SameNamed(dt, "nvram-proxy-data")'
          /\ AllRight(dt, SegmentNames, SegmentRegions) => AllRight(dt, SegmentNames, SegmentRegions)'
          /\ AllRight(dt, NewNames, NewRegions) => AllRight(dt, NewNames, NewRegions)'
        BY <2>1, SameGiven, SameNewRegions DEF MapInv
    <2>3. (Reserving => Reserving') /\ (Taking => Taking') /\ (Located => Located') /\ (Handled => Handled')
        BY <2>1, <2>2, SameHandled DEF Reserving, Taking, Located
    <2> QED BY <2>1, <2>2, <2>3 DEF MapInv
<1>2. CASE \/ BootArgs \/ MachHeader \/ Payload \/ Kernelcache \/ Sepfw \/ CopySepfw \/ BootArgsRegion
           \/ CopyBootArgs
    BY <1>2, FindingMap
<1>3. CASE CopyStub \/ Reserve \/ Segment \/ Regs \/ Patch \/ NextStage \/ Stub
    BY <1>3, CopyStubMap, ReserveMap, SegmentMap, RegsMap, PatchMap, MoveMap, Zenon
<1> QED BY <1>1, <1>2, <1>3, Zenon DEF Next

-----------------------------------------------------------------------------
(* What the map says of the moved image *)

\* The greatest of the numbers of a sequence.
LEMMA GreatestOf ==
    ASSUME NEW n \in Nat \ {0}, NEW f, \A i \in 1 .. n : f[i] \in Nat,
           NEW T, T = {f[i] : i \in 1 .. n}
    PROVE  Max(T) \in T /\ \A y \in T : y <= Max(T)
<1> DEFINE Bounds(i, b) == \A j \in 1 .. i : f[j] <= b
           P == {i \in 0 .. n : \E b \in Nat : Bounds(i, b)}
<1>1. 0 \in P
    OBVIOUS
<1>2. ASSUME NEW i \in 1 .. n, i - 1 \in P PROVE i \in P
    <2>1. PICK b \in Nat : Bounds(i - 1, b)
        BY <1>2
    <2>2. \E c \in Nat : b <= c /\ f[i] <= c
        BY <1>2
    <2>3. PICK c \in Nat : b <= c /\ f[i] <= c
        BY <2>2
    <2>4. ASSUME NEW j \in 1 .. i PROVE f[j] <= c
        <3>1. CASE j = i
            BY <2>3, <3>1
        <3>2. CASE j # i
            <4>1. j \in 1 .. i - 1 /\ j \in 1 .. n
                BY <3>2
            <4>2. f[j] <= b /\ f[j] \in Nat
                BY <2>1, <4>1
            <4> QED BY <2>3, <4>2
        <3> QED BY <3>1, <3>2
    <2> QED BY <2>4
<1>3. n \in P
    <2> HIDE DEF P
    <2>1. 0 .. n \subseteq P
        BY <1>1, <1>2, InductionUp
    <2> QED BY <2>1
<1>4. PICK b \in Nat : Bounds(n, b)
    BY <1>3
<1>5. T \subseteq 0 .. b /\ T # {} /\ T \subseteq Nat
    BY <1>4
<1>6. \E x \in T : \A y \in T : x >= y
    BY <1>5, GreatestNumber
<1>7. Max(T) \in T /\ \A y \in T : Max(T) >= y
    BY <1>6 DEF Max
<1>8. \A y \in T : y <= Max(T)
    BY <1>5, <1>7
<1> QED BY <1>7, <1>8

\* The ranges of a kernelcache hold those of each of its segments.
LEMMA RangesHold ==
    ASSUME NEW k, SegmentsAreSound(k), NEW s \in Range(k.segments), FileMin(k) = 0
    PROVE  /\ s.fileoff + s.filesize <= FileSize(k)
           /\ VmMin(k) \in Nat /\ VmMin(k) <= s.vmaddr
           /\ s.vmaddr + s.vmsize <= VmMin(k) + VmSize(k)
<1> DEFINE segs == k.segments
           n == Len(segs)
           f == [i \in 1 .. n |-> segs[i].fileoff + segs[i].filesize]
           g == [i \in 1 .. n |-> segs[i].vmaddr + segs[i].vmsize]
           A == {t.vmaddr : t \in Range(segs)}
           F == {t.fileoff + t.filesize : t \in Range(segs)}
           G == {t.vmaddr + t.vmsize : t \in Range(segs)}
<1>1. segs \in Seq(Range(segs))
    BY DEF SegmentsAreSound
<1>2. \A t \in Range(segs) : t.vmaddr \in Nat /\ t.vmsize \in Nat /\ t.fileoff \in Nat /\ t.filesize \in Nat
    BY DEF SegmentsAreSound
<1>3. n \in Nat /\ DOMAIN segs = 1 .. n
    BY <1>1, LenProperties
<1>4. Range(segs) = {segs[i] : i \in 1 .. n}
    BY <1>3 DEF Range
<1>5. n \in Nat \ {0}
    BY <1>3, <1>4
<1>6. FileSize(k) = Max(F) - 0 /\ VmMin(k) = Min(A) /\ VmSize(k) = Max(G) - VmMin(k)
    BY DEF FileSize, VmMin, VmSize
<1>7. s \in {segs[i] : i \in 1 .. n}
    BY <1>4
<1> HIDE DEF segs, n
<1>8. F = {f[i] : i \in 1 .. n} /\ \A i \in 1 .. n : f[i] \in Nat
    BY <1>2, <1>4
<1>9. G = {g[i] : i \in 1 .. n} /\ \A i \in 1 .. n : g[i] \in Nat
    BY <1>2, <1>4
<1>10. s.fileoff + s.filesize \in F /\ s.vmaddr + s.vmsize \in G /\ s.vmaddr \in A
    BY <1>4, <1>7
<1>11. A \subseteq Nat
    BY <1>2
<1> HIDE DEF f, g, A, F, G
<1>12. Max(F) \in Nat /\ s.fileoff + s.filesize <= Max(F)
    <2>1. Max(F) \in F /\ \A y \in F : y <= Max(F)
        BY <1>5, <1>8, GreatestOf
    <2> QED BY <1>8, <1>10, <2>1
<1>13. Max(G) \in Nat /\ s.vmaddr + s.vmsize <= Max(G)
    <2>1. Max(G) \in G /\ \A y \in G : y <= Max(G)
        BY <1>5, <1>9, GreatestOf
    <2> QED BY <1>9, <1>10, <2>1
<1>14. Min(A) \in Nat /\ Min(A) <= s.vmaddr
    BY <1>10, <1>11, LeastOf
<1>15. VmMin(k) + VmSize(k) = Max(G) /\ FileSize(k) = Max(F)
    BY <1>6, <1>12, <1>13, <1>14
<1> QED BY <1>6, <1>12, <1>13, <1>14, <1>15

\* The moved image is made of the files that iBoot has loaded.
LEMMA FilesAreMoved ==
    ASSUME BootInv, ImageInv, MapInv, stage = "entered", LayoutIsSound
    PROVE  /\ IsAt(memory, locals.machoBase, "kc", VmSize(kc))
           /\ IsAt(memory, Moved(locals.sepfw), "sepfw", SepfwSize)
           /\ IsAt(memory, Moved(locals.ba), "boot args", ArgsSize)
<1>1. ImageIsMoved
    BY ImageMoved
<1>2. Located /\ Handled /\ Given
    BY DEF MapInv, BehindKernelcache
<1>3. PICK in \in Inputs : kc = in.kc /\ old = in.tree /\ before.memory = Loaded(in.files)
    BY <1>2 DEF Given
<1>4. FilesAreThere(in)
    BY <1>2, <1>3, iBootAssumption DEF Located, Map
<1>5. FileSize(kc) = VmSize(kc)
    BY <1>2 DEF Handled, KernelcacheIsHandled
<1>6. IsAt(before.memory, locals.payload, "kc", VmSize(kc))
    BY <1>2, <1>3, <1>4, <1>5 DEF FilesAreThere, IsThere, Located, PayloadRegion
<1>7. IsAt(before.memory, SepfwBase, "sepfw", SepfwSize)
    BY <1>2, <1>3, <1>4 DEF FilesAreThere, IsThere, Located, SepfwBase, SepfwSize
<1>8. IsAt(before.memory, ArgsBase, "boot args", ArgsSize)
    BY <1>2, <1>3, <1>4 DEF FilesAreThere, IsThere, Located, ArgsBase, ArgsSize
<1>9. IsAt(memory, locals.machoBase, "kc", VmSize(kc))
    BY <1>1, <1>6 DEF ImageIsMoved, IsAt
<1>10. IsAt(memory, Moved(locals.sepfw), "sepfw", SepfwSize)
    BY <1>1, <1>7 DEF ImageIsMoved, IsAt, SepfwBase, SepfwSize, old
<1>11. IsAt(memory, Moved(locals.ba), "boot args", ArgsSize)
    BY <1>1, <1>8 DEF ImageIsMoved, IsAt, ArgsBase, ArgsSize, old
<1> QED BY <1>9, <1>10, <1>11

\* A region that is found has been given the place of what its name says.
LEMMA RegionIsNew ==
    ASSUME MapInv, stage = "entered", MemoryMap(dt) > 0, NEW name \in NewNames, Region(dt, name) # Nil
    PROVE  \E r \in NewRegions : r.name = name /\ Reg(dt, name) = r.val
<1> DEFINE m == MemoryMap(dt)
           p == Region(dt, name)
<1>1. Given /\ LikeTree(dt) /\ AllRight(dt, NewNames, NewRegions)
    BY DEF MapInv, BehindMap
<1>2. m \in DOMAIN old
    BY <1>1, MapPlace DEF Nil, Undefined
<1>3. p = PropertyNamed(dt[m], name) /\ p # Nil /\ Reg(dt, name) = dt[m].props[p].val
    BY DEF Region, Reg
<1> HIDE DEF m, p
<1>4. p \in DOMAIN old[m].props /\ dt[m].props[p].name = name
    BY <1>1, <1>2, <1>3, RegionFound
<1>5. dt[m].props[p] \in NewRegions
    BY <1>1, <1>2, <1>4 DEF AllRight
<1> QED BY <1>3, <1>4, <1>5

\* When the kernel is entered, the regions of the memory map are where the parts of
\* the image are, whatever the kernelcache's segments are, wherever iBoot has put the
\* parts and whatever the patches have done to the tree, and the entry is in the new
\* kernel (load_and_prep_xnu_kernelcache, xnu_jump_stub).
THEOREM AlwaysMapIsTrue == Spec => []MapIsTrue
<1>1. ASSUME BootInv, ImageInv, MapInv PROVE MapIsTrue
    <2> SUFFICES ASSUME stage = "entered", LayoutIsSound
                 PROVE  /\ ImageIsMoved
                        /\ MemoryMap(dt) > 0 =>
                              /\ \A s \in Range(kc.segments) : Holds(KernelName(s.name), "kc", s.fileoff)
                              /\ Holds("SEPFW", "sepfw", 0) /\ Holds("BootArgs", "boot args", 0)
                        /\ memory[locals.entry] = <<"kc", kc.pc - VmMin(kc)>>
        BY <1>1, Zenon DEF MapIsTrue
    <2> DEFINE vm == VmSize(kc)
               base == locals.machoBase
    <2>1. Given /\ Handled
        BY <1>1 DEF MapInv, BehindKernelcache
    <2>2. FileMin(kc) = 0 /\ FileSize(kc) = vm /\ locals.entry = base + kc.pc - VmMin(kc)
        BY <2>1 DEF Handled, KernelcacheIsHandled
    <2>3. SegmentsAreSound(kc)
        BY <2>1, iBootAssumption DEF Given
    <2>4. base \in Nat /\ vm \in Nat /\ SepfwSize \in Nat /\ ArgsSize \in Nat
        BY <1>1 DEF ImageInv, ImageParts, Extended, PartsAreFound
    <2>5. /\ IsAt(memory, base, "kc", vm)
          /\ IsAt(memory, Moved(locals.sepfw), "sepfw", SepfwSize)
          /\ IsAt(memory, Moved(locals.ba), "boot args", ArgsSize)
        BY <1>1, FilesAreMoved
    <2> HIDE DEF vm, base
    <2>6. ImageIsMoved
        BY <1>1, ImageMoved
    <2>7. memory[locals.entry] = <<"kc", kc.pc - VmMin(kc)>>
        <3>1. PICK s \in Range(kc.segments) : kc.pc \in s.vmaddr .. s.vmaddr + s.vmsize - 1
            BY <2>3 DEF SegmentsAreSound
        <3>2. s.vmaddr \in Nat /\ s.vmsize \in Nat
            BY <2>3 DEF SegmentsAreSound
        <3>3. /\ VmMin(kc) \in Nat /\ VmMin(kc) <= s.vmaddr
              /\ s.vmaddr + s.vmsize <= VmMin(kc) + vm
            BY <2>2, <2>3, RangesHold DEF vm
        <3> DEFINE k == kc.pc - VmMin(kc)
        <3>4. k \in 0 .. vm - 1 /\ locals.entry = base + k
            BY <2>2, <2>4, <3>1, <3>2, <3>3
        <3> HIDE DEF k
        <3>5. memory[base + k] = <<"kc", k>>
            BY <2>5, <3>4 DEF IsAt
        <3> QED BY <3>4, <3>5 DEF k
    <2>8. ASSUME MemoryMap(dt) > 0, NEW s \in Range(kc.segments)
          PROVE  Holds(KernelName(s.name), "kc", s.fileoff)
        <3>1. PICK i \in DOMAIN kc.segments : s = kc.segments[i]
            BY DEF Range
        <3> DEFINE name == SegmentName(i)
        <3>2. name = KernelName(s.name) /\ name \in SegmentNames /\ name \in NewNames
            BY <3>1 DEF SegmentName, SegmentNames, NewNames
        <3> SUFFICES ASSUME Region(dt, name) # Nil, NEW k \in 0 .. Reg(dt, name).size - 1
                     PROVE  memory[Reg(dt, name).base + k] = <<"kc", s.fileoff + k>>
            BY <3>2 DEF Holds
        <3>3. PICK r \in NewRegions : r.name = name /\ Reg(dt, name) = r.val
            BY <1>1, <2>8, <3>2, RegionIsNew
        <3>4. StartsWith(name, "Kernel-") /\ ~ StartsWith("SEPFW", "Kernel-")
              /\ ~ StartsWith("BootArgs", "Kernel-")
            BY <2>1, NamesApart DEF OtherNames
        <3>5. SepfwRegion.name = "SEPFW" /\ ArgsRegion.name = "BootArgs"
            BY DEF SepfwRegion, ArgsRegion
        <3>6. PICK j \in DOMAIN kc.segments : r = SegmentRegion(j)
            BY <3>3, <3>4, <3>5 DEF NewRegions, SegmentRegions
        <3>7. j = i
            <4>1. r.name = SegmentName(j)
                BY <3>6 DEF SegmentRegion
            <4> QED BY <2>1, <3>3, <4>1, NamesApart
        <3>8. Reg(dt, name) = [base |-> base + s.fileoff, size |-> s.filesize]
            BY <3>1, <3>3, <3>6, <3>7 DEF SegmentRegion, base
        <3>9. s.fileoff \in Nat /\ s.filesize \in Nat
            BY <2>3 DEF SegmentsAreSound
        <3>10. s.fileoff + s.filesize <= vm
            BY <2>2, <2>3, RangesHold
        <3> HIDE DEF name
        <3>11. k \in 0 .. s.filesize - 1 /\ Reg(dt, name).base = base + s.fileoff
            BY <3>8
        <3>12. s.fileoff + k \in 0 .. vm - 1 /\ (base + s.fileoff) + k = base + (s.fileoff + k)
            BY <2>4, <3>9, <3>10, <3>11
        <3>13. memory[base + (s.fileoff + k)] = <<"kc", s.fileoff + k>>
            BY <2>5, <3>12 DEF IsAt
        <3> QED BY <3>11, <3>12, <3>13
    <2>9. ASSUME MemoryMap(dt) > 0, NEW name \in {"SEPFW", "BootArgs"}, NEW r, NEW what,
                 r = IF name = "SEPFW" THEN SepfwRegion ELSE ArgsRegion,
                 IsAt(memory, r.val.base, what, r.val.size)
          PROVE  Holds(name, what, 0)
        <3> SUFFICES ASSUME Region(dt, name) # Nil, NEW k \in 0 .. Reg(dt, name).size - 1
                     PROVE  memory[Reg(dt, name).base + k] = <<what, 0 + k>>
            BY DEF Holds
        <3>1. PICK q \in NewRegions : q.name = name /\ Reg(dt, name) = q.val
            BY <1>1, <2>9, RegionIsNew DEF NewNames
        <3>2. \A i \in DOMAIN kc.segments : SegmentRegion(i).name = SegmentName(i)
            BY DEF SegmentRegion
        <3>3. q \notin SegmentRegions
            <4>1. \A i \in DOMAIN kc.segments : SegmentName(i) # name
                BY <2>1, NamesApart DEF OtherNames
            <4> QED BY <3>1, <3>2, <4>1 DEF SegmentRegions
        <3>4. SepfwRegion.name = "SEPFW" /\ ArgsRegion.name = "BootArgs"
            BY DEF SepfwRegion, ArgsRegion
        <3>5. q = r
            BY <2>9, <3>1, <3>3, <3>4 DEF NewRegions
        <3>6. memory[Reg(dt, name).base + k] = <<what, k>>
            BY <2>9, <3>1, <3>5 DEF IsAt
        <3>7. 0 + k = k
            OBVIOUS
        <3> QED BY <3>6, <3>7
    <2>10. ASSUME MemoryMap(dt) > 0 PROVE Holds("SEPFW", "sepfw", 0) /\ Holds("BootArgs", "boot args", 0)
        <3>1. SepfwRegion.val.base = Moved(locals.sepfw) /\ SepfwRegion.val.size = SepfwSize
            BY DEF SepfwRegion
        <3>2. ArgsRegion.val.base = Moved(locals.ba) /\ ArgsRegion.val.size = ArgsSize
            BY DEF ArgsRegion
        <3>3. IsAt(memory, SepfwRegion.val.base, "sepfw", SepfwRegion.val.size)
            BY <2>5, <3>1, Zenon
        <3>4. IsAt(memory, ArgsRegion.val.base, "boot args", ArgsRegion.val.size)
            BY <2>5, <3>2, Zenon
        <3>5. Holds("SEPFW", "sepfw", 0)
            BY <2>9, <2>10, <3>3
        <3>6. Holds("BootArgs", "boot args", 0)
            BY <2>9, <2>10, <3>4
        <3> QED BY <3>5, <3>6
    <2> QED BY <2>6, <2>7, <2>8, <2>10
<1>2. Init => BootInv /\ ImageInv /\ MapInv
    BY BootInit, ImageInit, MapInit
<1>3. BootInv /\ ImageInv /\ MapInv /\ [Next]_vars => (BootInv /\ ImageInv /\ MapInv)'
    BY BootStep, ImageStep, MapStep
<1> QED BY <1>1, <1>2, <1>3, PTL DEF Spec
=============================================================================
