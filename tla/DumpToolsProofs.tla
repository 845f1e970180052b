---------------------------- MODULE DumpToolsProofs ----------------------------
(***************************************************************************)
(* The programs that read the NVRAM: a device tree under patches, for every *)
(* tree and every list of patches, the numbers that patches take from texts *)
(* and what the next lookup finds of them, the escape coding, for all data, *)
(* and what is read of the proxy data, for all partitions.                  *)
(***************************************************************************)
EXTENDS DumpTools, BasicLemmas, SequenceTheorems

-----------------------------------------------------------------------------
(* What is true of every reachable state of jev-dtree-dump *)

Size(n, p) == tree[n].props[p].size

\* A tree made of the same nodes and properties as the one that was read.
IsImage(d) ==
    /\ d = [n \in DOMAIN tree |-> d[n]]
    /\ \A n \in DOMAIN tree :
          /\ d[n] = [props |-> d[n].props, nchildren |-> tree[n].nchildren, torn |-> d[n].torn]
          /\ d[n].torn \in BOOLEAN
          /\ d[n].props = [p \in DOMAIN tree[n].props |-> d[n].props[p]]
          /\ \A p \in DOMAIN tree[n].props :
                d[n].props[p] = [name |-> d[n].props[p].name, size |-> Size(n, p),
                                 val |-> d[n].props[p].val]

\* The tree in memory is one; a name in it is what it was, or lost.
Shape ==
    /\ tree \in Trees
    /\ IsImage(dt)
    /\ \A n \in DOMAIN tree : \A p \in DOMAIN tree[n].props :
          dt[n].props[p].name \in {tree[n].props[p].name, ""}

\* Only properties that hold an integer are ever patched.
WrittenAreIntegers ==
    \A w \in written :
        \E n \in DOMAIN tree : \E p \in DOMAIN tree[n].props :
            w = <<n, p>> /\ Size(n, p) \in {4, 8}

\* DamageIsBehindPatch, of torn nodes too.
Damage ==
    \A n \in DOMAIN tree :
        /\ dt[n].torn => /\ n > 1
                         /\ <<n - 1, Len(tree[n - 1].props)>> \in written
                         /\ Size(n - 1, Len(tree[n - 1].props)) = 4
        /\ \A p \in DOMAIN tree[n].props :
              /\ dt[n].props[p].name # tree[n].props[p].name =>
                    <<n, p - 1>> \in written /\ Size(n, p - 1) = 4
              /\ dt[n].props[p].val # tree[n].props[p].val =>
                    <<n, p>> \in written \/ tree[n].props[p].name = "internal-use-only-unit"

Untouched == phase = "dump" => dt = tree /\ written = {}

TreeShape == Shape /\ WrittenAreIntegers /\ Damage /\ Untouched

\* The group of patches is one of specifications, and what is done of it.
GroupInv ==
    /\ group \in Seq(PatchSpecs) /\ results \in Seq(BOOLEAN)
    /\ Len(results) <= Len(group)
    /\ GoodMeansAll

TreeInv == TreeShape /\ GroupInv

-----------------------------------------------------------------------------
(* Trees, and looking things up in them *)

\* The first index with a property, if there is one.
LEMMA FirstIndex ==
    ASSUME NEW I, I \subseteq Nat, I # {}
    PROVE  Min(I) \in I /\ \A y \in I : Min(I) <= y
    BY LeastNumber DEF Min

LEMMA TreesAreTrees ==
    ASSUME Shape
    PROVE  /\ IsTree(tree) /\ HasProxyData(tree)
           /\ Len(tree) \in Nat \ {0} /\ DOMAIN tree = 1 .. Len(tree)
           /\ \A n \in DOMAIN tree :
                 /\ Len(tree[n].props) \in Nat
                 /\ DOMAIN tree[n].props = 1 .. Len(tree[n].props)
<1>1. IsTree(tree) /\ HasProxyData(tree)
    BY DTreeDumpAssumption DEF Shape
<1>2. tree \in Seq(Range(tree)) /\ tree # <<>>
    BY <1>1 DEF IsTree
<1>3. Len(tree) \in Nat \ {0} /\ DOMAIN tree = 1 .. Len(tree)
    BY <1>2, LenProperties, EmptySeq
<1>4. ASSUME NEW n \in DOMAIN tree
      PROVE  /\ Len(tree[n].props) \in Nat
             /\ DOMAIN tree[n].props = 1 .. Len(tree[n].props)
    <2>1. tree[n].props \in Seq(Range(tree[n].props))
        BY <1>1 DEF IsTree
    <2> QED BY <2>1, LenProperties
<1> QED BY <1>1, <1>3, <1>4

LEMMA TreeInMemory ==
    ASSUME Shape
    PROVE  /\ dt \in Seq(Range(dt)) /\ Len(dt) = Len(tree)
           /\ \A n \in DOMAIN tree :
                 /\ dt[n].props \in Seq(Range(dt[n].props))
                 /\ Len(dt[n].props) = Len(tree[n].props)
<1>1. dt = [n \in 1 .. Len(tree) |-> dt[n]] /\ Len(tree) \in Nat
    BY TreesAreTrees DEF Shape, IsImage
<1>2. dt \in [1 .. Len(tree) -> Range(dt)]
    BY <1>1 DEF Range
<1>3. dt \in Seq(Range(dt)) /\ Len(dt) = Len(tree)
    <2>1. dt \in Seq(Range(dt))
        BY <1>1, <1>2, SeqDef
    <2>2. DOMAIN dt = 1 .. Len(dt) /\ DOMAIN dt = 1 .. Len(tree) /\ Len(dt) \in Nat
        BY <1>2, <2>1, LenProperties
    <2> QED BY <1>1, <2>1, <2>2
<1>4. ASSUME NEW n \in DOMAIN tree
      PROVE  /\ dt[n].props \in Seq(Range(dt[n].props))
             /\ Len(dt[n].props) = Len(tree[n].props)
    <2> DEFINE s == dt[n].props
               m == Len(tree[n].props)
    <2>1. s = [p \in 1 .. m |-> s[p]] /\ m \in Nat
        BY TreesAreTrees DEF Shape, IsImage
    <2> HIDE DEF s, m
    <2>2. s \in [1 .. m -> Range(s)]
        BY <2>1 DEF Range
    <2>3. s \in Seq(Range(s))
        BY <2>1, <2>2, SeqDef
    <2>4. DOMAIN s = 1 .. Len(s) /\ DOMAIN s = 1 .. m /\ Len(s) \in Nat
        BY <2>2, <2>3, LenProperties
    <2>5. Len(s) = m
        BY <2>1, <2>4
    <2> QED BY <2>3, <2>5 DEF s, m
<1> QED BY <1>3, <1>4

\* A property that is found is there, has that name, and is in a whole node.
LEMMA FoundProperty ==
    ASSUME Shape, NEW n \in DOMAIN tree, NEW name
    PROVE  LET p == PropertyNamed(dt[n], name)
           IN /\ p \in 0 .. Len(tree[n].props)
              /\ p # Nil => /\ p \in DOMAIN tree[n].props
                            /\ dt[n].props[p].name = name
                            /\ ~dt[n].torn
<1> DEFINE ps == properties(dt[n])
           I == {i \in 1 .. Len(ps) : ps[i].name = name}
           p == PropertyNamed(dt[n], name)
<1>1. p = IF I # {} THEN Min(I) ELSE 0
    BY DEF PropertyNamed, SelectInSeq
<1>2. I # {} => Min(I) \in I
    <2>1. Len(ps) \in Nat
        BY TreeInMemory, TreesAreTrees DEF properties
    <2>2. I \subseteq Nat
        BY <2>1
    <2> HIDE DEF I
    <2> QED BY <2>2, FirstIndex
<1>3. CASE I = {}
    BY <1>1, <1>3, TreesAreTrees DEF Nil
<1>4. CASE I # {}
    <2>1. p \in 1 .. Len(ps) /\ ps[p].name = name
        BY <1>1, <1>2, <1>4
    <2>2. ~dt[n].torn /\ ps = dt[n].props
        BY <2>1 DEF properties
    <2>3. Len(ps) = Len(tree[n].props)
        BY <2>2, TreeInMemory
    <2> HIDE DEF ps, p
    <2> QED BY <2>1, <2>2, <2>3, TreesAreTrees DEF Nil, p
<1> QED BY <1>3, <1>4

\* What a lookup of a node leads to.
Places == DOMAIN tree \cup {Nil, Undefined}

LEMMA ChildType ==
    ASSUME Shape, NEW n \in DOMAIN tree, NEW name
    PROVE  ChildNamed(dt, n, name) \in Places
<1> DEFINE cs == Children(dt, n)
           I == {i \in 1 .. Len(cs) : IsNamed(cs[i], name)}
           found == SelectInSeq(cs, LAMBDA c : IsNamed(c, name))
<1>1. found = IF I # {} THEN Min(I) ELSE 0
    BY DEF SelectInSeq
<1>2. Len(cs) = tree[n].nchildren /\ tree[n].nchildren \in Nat
    <2>1. dt[n].nchildren = tree[n].nchildren
        <3>1. dt[n] = [props |-> dt[n].props, nchildren |-> tree[n].nchildren, torn |-> dt[n].torn]
            BY DEF Shape, IsImage
        <3> QED BY ONLY <3>1
    <2>2. tree[n].nchildren \in Nat /\ n + tree[n].nchildren <= Len(tree) /\ n \in Int
        BY TreesAreTrees DEF IsTree
    <2>3. \A i \in n + 1 .. n + tree[n].nchildren : dt[i] \in Range(dt)
        <3>1. n \in 1 .. Len(tree) /\ Len(tree) \in Nat
            BY TreesAreTrees
        <3>2. dt \in Seq(Range(dt)) /\ Len(dt) = Len(tree)
            BY TreeInMemory
        <3> QED BY <2>2, <3>1, <3>2, ElementOfSeq
    <2>4. n + 1 \in Int /\ n + tree[n].nchildren \in Int
        BY <2>2
    <2>5. Len(SubSeq(dt, n + 1, n + tree[n].nchildren)) = tree[n].nchildren
        BY <2>2, <2>3, <2>4, SubSeqProperties
    <2> QED BY <2>1, <2>2, <2>5 DEF Children
<1>3. I # {} => Min(I) \in 1 .. tree[n].nchildren
    <2>1. I \subseteq 1 .. tree[n].nchildren /\ I \subseteq Nat
        BY <1>2
    <2> HIDE DEF I
    <2> QED BY <2>1, FirstIndex
<1>4. found = Nil \/ found \in 1 .. tree[n].nchildren
    <2> HIDE DEF I, found
    <2> QED BY <1>1, <1>3 DEF Nil
<1>5. found # Nil => n + found \in DOMAIN tree
    <2>1. n + tree[n].nchildren <= Len(tree) /\ n \in 1 .. Len(tree) /\ Len(tree) \in Nat
        BY TreesAreTrees DEF IsTree
    <2> HIDE DEF found
    <2> QED BY <1>2, <1>4, <2>1, TreesAreTrees
<1> HIDE DEF found, cs
<1> QED BY <1>5 DEF ChildNamed, Places, found, cs

\* The places that a lookup passes: I is a set 1 .. k of components.
Passed(d, n, path) ==
    CHOOSE f : f = [I \in SUBSET (DOMAIN path) |->
                      IF I = {} THEN n
                      ELSE IF f[I \ {Max(I)}] \in {Nil, Undefined} THEN f[I \ {Max(I)}]
                      ELSE ChildNamed(d, n, path[Max(I)])]

\* The lookup goes on from one of them to the next.
LEMMA LookupPasses ==
    ASSUME NEW d, NEW n, NEW S, NEW path \in Seq(S)
    PROVE  \E w : /\ w[0] = n /\ w[Len(path)] = LookupNode(d, n, path)
                  /\ \A k \in 1 .. Len(path) :
                        w[k] = IF w[k - 1] \in {Nil, Undefined} THEN w[k - 1]
                               ELSE ChildNamed(d, n, path[k])
<1> DEFINE m == Len(path)
           Q == {n, Nil, Undefined} \cup {ChildNamed(d, n, path[i]) : i \in 1 .. m}
           next == [x \in Q \X (1 .. m) |->
                      IF x[1] \in {Nil, Undefined} THEN x[1] ELSE ChildNamed(d, n, path[x[2]])]
           Body(f) == [I \in SUBSET (1 .. m) |->
                         IF I = {} THEN n
                         ELSE IF f[I \ {Max(I)}] \in {Nil, Undefined} THEN f[I \ {Max(I)}]
                         ELSE ChildNamed(d, n, path[Max(I)])]
           g == Passed(d, n, path)
           w == [k \in 0 .. m |-> g[1 .. k]]
<1>1. m \in Nat /\ DOMAIN path = 1 .. m
    BY LenProperties
<1>2. n \in Q
    OBVIOUS
<1>3. next \in [Q \X (1 .. m) -> Q]
    OBVIOUS
<1>4. PICK f \in [SUBSET (1 .. m) -> Q] : IsFold(f, n, m, next)
    <2> HIDE DEF next, m, Q
    <2> QED BY <1>1, <1>2, <1>3, FoldExists
<1>5. \A I \in SUBSET (1 .. m) : I # {} => Max(I) \in I /\ (\A y \in I : Max(I) >= y)
    <2> SUFFICES ASSUME NEW I \in SUBSET (1 .. m), I # {}
                 PROVE  Max(I) \in I /\ \A y \in I : Max(I) >= y
        OBVIOUS
    <2>1. I \subseteq 0 .. m
        OBVIOUS
    <2> HIDE DEF m
    <2> QED BY <1>1, <2>1, GreatestNumber DEF Max
<1>6. f = Body(f)
    <2>1. ASSUME NEW I \in SUBSET (1 .. m), I # {}
          PROVE  f[I] = IF f[I \ {Max(I)}] \in {Nil, Undefined} THEN f[I \ {Max(I)}]
                        ELSE ChildNamed(d, n, path[Max(I)])
        <3>1. f[I] = next[<<f[I \ {Max(I)}], Max(I)>>]
            BY <1>4, <1>5, <2>1 DEF IsFold
        <3>2. I \ {Max(I)} \in SUBSET (1 .. m) /\ Max(I) \in 1 .. m
            BY <1>5, <2>1
        <3>3. f[I \ {Max(I)}] \in Q
            <4> HIDE DEF Q, m
            <4> QED BY <3>2
        <3> HIDE DEF Q, m
        <3> QED BY <3>1, <3>2, <3>3
    <2> HIDE DEF m, Q
    <2> QED BY <1>4, <2>1 DEF IsFold
<1>7. g = Body(g)
    <2> HIDE DEF Q
    <2> QED BY <1>1, <1>6 DEF Passed
<1>8. LookupNode(d, n, path) = g[DOMAIN path]
    BY Zenon DEF LookupNode, FoldLeft, MapThenFoldSet, Passed, g
<1> HIDE DEF g, Q
<1>9. g[{}] = n
    BY <1>7
<1>10. ASSUME NEW k \in 1 .. m
       PROVE  g[1 .. k] = IF g[1 .. k - 1] \in {Nil, Undefined} THEN g[1 .. k - 1]
                          ELSE ChildNamed(d, n, path[k])
    <2>1. 1 .. k \in SUBSET (1 .. m) /\ 1 .. k # {}
        BY <1>1
    <2>2. Max(1 .. k) = k
        <3>1. Max(1 .. k) \in 1 .. k /\ Max(1 .. k) >= k
            <4> k \in 1 .. k
                BY <1>1
            <4> HIDE DEF m
            <4> QED BY <1>5, <2>1
        <3> QED BY <3>1
    <2>3. (1 .. k) \ {k} = 1 .. k - 1
        BY <1>1
    <2> HIDE DEF m
    <2> QED BY <1>7, <2>1, <2>2, <2>3
<1> HIDE DEF m
<1>11. w[0] = n /\ w[m] = LookupNode(d, n, path)
    <2>1. 1 .. 0 = {} /\ 0 \in 0 .. m /\ m \in 0 .. m
        BY <1>1
    <2> QED BY <1>1, <1>8, <1>9, <2>1
<1>12. ASSUME NEW k \in 1 .. m
       PROVE  w[k] = IF w[k - 1] \in {Nil, Undefined} THEN w[k - 1]
                     ELSE ChildNamed(d, n, path[k])
    <2>1. k \in 0 .. m /\ k - 1 \in 0 .. m
        BY <1>1
    <2> QED BY <1>10, <2>1
<1> HIDE DEF w
<1> QED BY <1>11, <1>12 DEF m

LEMMA NodeType ==
    ASSUME Shape, NEW n \in DOMAIN tree, NEW S, NEW path \in Seq(S)
    PROVE  LookupNode(dt, n, path) \in Places
<1> DEFINE m == Len(path)
<1>1. PICK w : /\ w[0] = n /\ w[m] = LookupNode(dt, n, path)
               /\ \A k \in 1 .. m : w[k] = IF w[k - 1] \in {Nil, Undefined} THEN w[k - 1]
                                           ELSE ChildNamed(dt, n, path[k])
    BY LookupPasses
<1>2. m \in Nat
    BY LenProperties
<1> HIDE DEF m
<1> DEFINE P == {k \in Nat : k <= m => w[k] \in Places}
<1>3. 0 \in P
    BY <1>1 DEF Places
<1>4. ASSUME NEW k \in Nat, k \in P PROVE k + 1 \in P
    <2> SUFFICES ASSUME k + 1 <= m PROVE w[k + 1] \in Places
        OBVIOUS
    <2>1. w[k] \in Places
        BY <1>2, <1>4
    <2>2. w[k + 1] = IF w[k] \in {Nil, Undefined} THEN w[k] ELSE ChildNamed(dt, n, path[k + 1])
        <3>1. k + 1 \in 1 .. m /\ (k + 1) - 1 = k
            BY <1>2
        <3> QED BY <1>1, <3>1
    <2> QED BY <2>1, <2>2, ChildType
<1>5. Nat \subseteq P
    <2> HIDE DEF P
    <2> QED BY <1>3, <1>4, Induction
<1> QED BY <1>1, <1>2, <1>5

\* A property that is found below the root is there, in a whole node.
FoundAt(t, name) ==
    \E n \in DOMAIN tree : \E p \in DOMAIN tree[n].props :
        t = <<n, p>> /\ dt[n].props[p].name = name /\ ~dt[n].torn

LEMMA PropertyFound ==
    ASSUME Shape, NEW S, NEW path \in Seq(S), NEW name,
           LookupProperty(dt, Root, path, name)[2] # Nil
    PROVE  FoundAt(LookupProperty(dt, Root, path, name), name)
<1> DEFINE n == LookupNode(dt, Root, path)
           t == LookupProperty(dt, Root, path, name)
<1>1. Root \in DOMAIN tree
    BY TreesAreTrees DEF Root
<1>2. n \in Places
    BY <1>1, NodeType
<1>3. t = IF n \in {Nil, Undefined} THEN <<n, Nil>> ELSE <<n, PropertyNamed(dt[n], name)>>
    BY DEF LookupProperty
<1> HIDE DEF n, t
<1>4. n \notin {Nil, Undefined}
    BY <1>3 DEF t
<1>5. n \in DOMAIN tree /\ t = <<n, PropertyNamed(dt[n], name)>>
    BY <1>2, <1>3, <1>4 DEF Places
<1>6. PropertyNamed(dt[n], name) # Nil
    BY <1>5 DEF t
<1> QED BY <1>5, <1>6, FoundProperty DEF t, FoundAt

-----------------------------------------------------------------------------
(* Patching *)

\* The tree with another property, and with a torn node.
Replaced(d, n, p, prop) ==
    [d EXCEPT ![n] = [d[n] EXCEPT !.props = [d[n].props EXCEPT ![p] = prop]]]
Torn(d, n) == [d EXCEPT ![n].torn = TRUE]

\* What it means to replace a property by another one of the same size.
LEMMA PropertyReplaced ==
    ASSUME NEW d, IsImage(d), NEW n \in DOMAIN tree, NEW p \in DOMAIN tree[n].props,
           NEW prop, prop = [name |-> prop.name, size |-> Size(n, p), val |-> prop.val],
           NEW e, e = Replaced(d, n, p, prop)
    PROVE  /\ IsImage(e)
           /\ \A m \in DOMAIN tree :
                 /\ e[m].torn = d[m].torn
                 /\ \A q \in DOMAIN tree[m].props :
                       e[m].props[q] = IF m = n /\ q = p THEN prop ELSE d[m].props[q]
<1> DEFINE props == [d[n].props EXCEPT ![p] = prop]
           node == [d[n] EXCEPT !.props = props]
<1>1. /\ props = [q \in DOMAIN tree[n].props |-> props[q]]
      /\ \A q \in DOMAIN tree[n].props : props[q] = IF q = p THEN prop ELSE d[n].props[q]
    <2>1. d[n].props = [q \in DOMAIN tree[n].props |-> d[n].props[q]]
        BY DEF IsImage
    <2> QED BY ONLY <2>1, p \in DOMAIN tree[n].props
<1>2. /\ node = [props |-> props, nchildren |-> tree[n].nchildren, torn |-> d[n].torn]
      /\ node.props = props /\ node.torn = d[n].torn
    <2> HIDE DEF props
    <2>1. d[n] = [props |-> d[n].props, nchildren |-> tree[n].nchildren, torn |-> d[n].torn]
        BY DEF IsImage
    <2> QED BY ONLY <2>1
<1>3. /\ e = [m \in DOMAIN tree |-> e[m]]
      /\ \A m \in DOMAIN tree : e[m] = IF m = n THEN node ELSE d[m]
    <2>1. d = [m \in DOMAIN tree |-> d[m]]
        BY DEF IsImage
    <2>2. e = [d EXCEPT ![n] = node]
        BY DEF Replaced
    <2> HIDE DEF node
    <2> QED BY ONLY <2>1, <2>2, n \in DOMAIN tree
<1> HIDE DEF props, node
<1>4. ASSUME NEW m \in DOMAIN tree
      PROVE  /\ e[m] = [props |-> e[m].props, nchildren |-> tree[m].nchildren, torn |-> e[m].torn]
             /\ e[m].torn \in BOOLEAN
             /\ e[m].torn = d[m].torn
             /\ e[m].props = [q \in DOMAIN tree[m].props |-> e[m].props[q]]
             /\ \A q \in DOMAIN tree[m].props :
                   /\ e[m].props[q] = [name |-> e[m].props[q].name, size |-> Size(m, q),
                                       val |-> e[m].props[q].val]
                   /\ e[m].props[q] = IF m = n /\ q = p THEN prop ELSE d[m].props[q]
    <2>1. CASE m # n
        <3>1. e[m] = d[m]
            BY <1>3, <2>1
        <3>2. /\ d[m] = [props |-> d[m].props, nchildren |-> tree[m].nchildren, torn |-> d[m].torn]
              /\ d[m].torn \in BOOLEAN
              /\ d[m].props = [q \in DOMAIN tree[m].props |-> d[m].props[q]]
              /\ \A q \in DOMAIN tree[m].props :
                    d[m].props[q] = [name |-> d[m].props[q].name, size |-> Size(m, q),
                                     val |-> d[m].props[q].val]
            BY DEF IsImage
        <3> QED BY ONLY <2>1, <3>1, <3>2
    <2>2. CASE m = n
        <3>1. e[m] = node
            BY <1>3, <2>2
        <3>2. /\ e[m] = [props |-> e[m].props, nchildren |-> tree[m].nchildren, torn |-> e[m].torn]
              /\ e[m].props = props /\ e[m].torn = d[m].torn
            BY ONLY <1>2, <2>2, <3>1
        <3>3. e[m].torn \in BOOLEAN
            BY <3>2 DEF IsImage
        <3>4. e[m].props = [q \in DOMAIN tree[m].props |-> e[m].props[q]]
            BY ONLY <1>1, <2>2, <3>2
        <3>5. ASSUME NEW q \in DOMAIN tree[m].props
              PROVE  /\ e[m].props[q] = [name |-> e[m].props[q].name, size |-> Size(m, q),
                                         val |-> e[m].props[q].val]
                     /\ e[m].props[q] = IF m = n /\ q = p THEN prop ELSE d[m].props[q]
            <4>1. e[m].props[q] = IF m = n /\ q = p THEN prop ELSE d[m].props[q]
                BY <1>1, <2>2, <3>2
            <4>2. d[m].props[q] = [name |-> d[m].props[q].name, size |-> Size(m, q),
                                   val |-> d[m].props[q].val]
                BY DEF IsImage
            <4>3. CASE q = p
                BY <2>2, <4>1, <4>3
            <4>4. CASE q # p
                BY <2>2, <4>1, <4>2, <4>4
            <4> QED BY <4>1, <4>3, <4>4
        <3> QED BY <3>2, <3>3, <3>4, <3>5
    <2> QED BY <2>1, <2>2
<1>5. IsImage(e)
    BY ONLY <1>3, <1>4 DEF IsImage
<1> QED BY <1>4, <1>5

\* What it means to tear a node.
LEMMA NodeTorn ==
    ASSUME NEW d, IsImage(d), NEW n \in DOMAIN tree,
           NEW e, e = Torn(d, n)
    PROVE  /\ IsImage(e)
           /\ \A m \in DOMAIN tree :
                 /\ e[m].torn = (d[m].torn \/ m = n)
                 /\ e[m].props = d[m].props
<1> DEFINE node == [d[n] EXCEPT !.torn = TRUE]
<1>1. node = [props |-> d[n].props, nchildren |-> tree[n].nchildren, torn |-> TRUE]
    <2>1. d[n] = [props |-> d[n].props, nchildren |-> tree[n].nchildren, torn |-> d[n].torn]
        BY DEF IsImage
    <2> DEFINE v == TRUE
    <2>2. [d[n] EXCEPT !.torn = v] = [props |-> d[n].props, nchildren |-> tree[n].nchildren, torn |-> v]
        <3> HIDE DEF v
        <3> QED BY ONLY <2>1
    <2> QED BY ONLY <2>2, Zenon DEF v
<1>2. /\ e = [m \in DOMAIN tree |-> e[m]]
      /\ \A m \in DOMAIN tree : e[m] = IF m = n THEN node ELSE d[m]
    <2>1. d = [m \in DOMAIN tree |-> d[m]]
        BY DEF IsImage
    <2>2. e = [d EXCEPT ![n] = node]
        BY DEF Torn
    <2> HIDE DEF node
    <2> QED BY ONLY <2>1, <2>2, n \in DOMAIN tree
<1> HIDE DEF node
<1>3. ASSUME NEW m \in DOMAIN tree
      PROVE  /\ e[m] = [props |-> e[m].props, nchildren |-> tree[m].nchildren, torn |-> e[m].torn]
             /\ e[m].torn \in BOOLEAN
             /\ e[m].torn = (d[m].torn \/ m = n)
             /\ e[m].props = d[m].props
    <2>1. d[m] = [props |-> d[m].props, nchildren |-> tree[m].nchildren, torn |-> d[m].torn]
        BY DEF IsImage
    <2>2. d[m].torn \in BOOLEAN
        BY DEF IsImage
    <2>3. CASE m = n
        <3>1. e[m] = [props |-> d[m].props, nchildren |-> tree[m].nchildren, torn |-> TRUE]
            BY <1>1, <1>2, <2>3
        <3>2. e[m].props = d[m].props /\ e[m].torn = TRUE
            BY ONLY <3>1
        <3> QED BY <2>2, <2>3, <3>1, <3>2
    <2>4. CASE m # n
        <3>1. e[m] = d[m]
            BY <1>2, <2>4
        <3>2. d[m].torn = (d[m].torn \/ m = n)
            BY <2>2, <2>4
        <3>3. e[m].torn = (d[m].torn \/ m = n)
            BY <3>1, <3>2, Zenon
        <3>4. e[m].torn \in BOOLEAN /\ e[m].props = d[m].props
            BY <2>2, <3>1, Zenon
        <3>5. e[m] = [props |-> e[m].props, nchildren |-> tree[m].nchildren, torn |-> e[m].torn]
            BY <2>1, <3>1, Zenon
        <3> QED BY <3>3, <3>4, <3>5, Zenon
    <2> QED BY <2>3, <2>4
<1>4. IsImage(e)
    <2>1. ASSUME NEW m \in DOMAIN tree
          PROVE  /\ e[m].props = [p \in DOMAIN tree[m].props |-> e[m].props[p]]
                 /\ \A p \in DOMAIN tree[m].props :
                       e[m].props[p] = [name |-> e[m].props[p].name, size |-> Size(m, p),
                                        val |-> e[m].props[p].val]
        <3>1. e[m].props = d[m].props
            BY <1>3
        <3>2. /\ d[m].props = [p \in DOMAIN tree[m].props |-> d[m].props[p]]
              /\ \A p \in DOMAIN tree[m].props :
                    d[m].props[p] = [name |-> d[m].props[p].name, size |-> Size(m, p),
                                     val |-> d[m].props[p].val]
            BY DEF IsImage
        <3> QED BY ONLY <3>1, <3>2
    <2> QED BY ONLY <1>2, <1>3, <2>1 DEF IsImage
<1> QED BY <1>3, <1>4


\* What it means to take a property's name.
Nameless(d, n, p) == [d EXCEPT ![n].props[p].name = ""]

NamelessAt(d, e, n, p) ==
    /\ IsImage(e)
    /\ \A m \in DOMAIN tree :
          /\ e[m].torn = d[m].torn
          /\ \A q \in DOMAIN tree[m].props :
                /\ e[m].props[q].val = d[m].props[q].val
                /\ e[m].props[q].name = IF m = n /\ q = p THEN "" ELSE d[m].props[q].name

LEMMA NameLost ==
    ASSUME NEW d, IsImage(d), NEW n \in DOMAIN tree, NEW p \in DOMAIN tree[n].props
    PROVE  NamelessAt(d, Nameless(d, n, p), n, p)
<1> DEFINE was == d[n].props[p]
           prop == [was EXCEPT !.name = ""]
           e == Nameless(d, n, p)
<1>1. was = [name |-> was.name, size |-> Size(n, p), val |-> was.val]
    BY DEF IsImage
<1>2. prop = [name |-> "", size |-> Size(n, p), val |-> was.val]
    <2> DEFINE none == ""
    <2>1. [was EXCEPT !.name = none] = [name |-> none, size |-> Size(n, p), val |-> was.val]
        <3> HIDE DEF none, was
        <3> QED BY ONLY <1>1
    <2> QED BY ONLY <2>1, Zenon DEF none, prop
<1>3. prop = [name |-> prop.name, size |-> Size(n, p), val |-> prop.val]
      /\ prop.name = "" /\ prop.val = was.val
    <2> HIDE DEF prop
    <2> QED BY ONLY <1>2
<1>4. e = Replaced(d, n, p, prop)
    BY DEF Nameless, Replaced
<1> HIDE DEF prop, e
<1>5. /\ IsImage(e)
      /\ \A m \in DOMAIN tree :
            /\ e[m].torn = d[m].torn
            /\ \A q \in DOMAIN tree[m].props :
                  e[m].props[q] = IF m = n /\ q = p THEN prop ELSE d[m].props[q]
    <2>1. prop = [name |-> prop.name, size |-> Size(n, p), val |-> prop.val]
        BY <1>3
    <2> QED BY ONLY <1>4, <2>1, IsImage(d), n \in DOMAIN tree, p \in DOMAIN tree[n].props,
                    PropertyReplaced
<1>6. \A m \in DOMAIN tree : \A q \in DOMAIN tree[m].props :
         /\ e[m].props[q].val = d[m].props[q].val
         /\ e[m].props[q].name = IF m = n /\ q = p THEN "" ELSE d[m].props[q].name
    BY <1>3, <1>5
<1> QED BY <1>5, <1>6 DEF NamelessAt, e

LEMMA ImageLength ==
    ASSUME Shape, NEW d, IsImage(d), NEW n \in DOMAIN tree
    PROVE  Len(d[n].props) = Len(tree[n].props)
<1> DEFINE s == d[n].props
           m == Len(tree[n].props)
<1>1. s = [p \in 1 .. m |-> s[p]] /\ m \in Nat
    BY TreesAreTrees DEF IsImage
<1> HIDE DEF s, m
<1>2. s \in [1 .. m -> Range(s)]
    BY <1>1 DEF Range
<1>3. s \in Seq(Range(s))
    BY <1>1, <1>2, SeqDef
<1>4. DOMAIN s = 1 .. Len(s) /\ DOMAIN s = 1 .. m /\ Len(s) \in Nat
    BY <1>2, <1>3, LenProperties
<1>5. Len(s) = m
    BY <1>1, <1>4
<1> QED BY <1>5 DEF s, m

\* What a patch does: it sets the value, and takes the name of the next property
\* or the property count of the next node when the value has four bytes.
SetAt(e, n, p, word) ==
    /\ IsImage(e)
    /\ \A m \in DOMAIN tree :
          /\ e[m].torn => \/ dt[m].torn
                          \/ Size(n, p) = 4 /\ p = Len(tree[n].props) /\ m = n + 1
          /\ \A q \in DOMAIN tree[m].props :
                /\ e[m].props[q].val = IF m = n /\ q = p THEN word ELSE dt[m].props[q].val
                /\ \/ e[m].props[q].name = dt[m].props[q].name
                   \/ /\ e[m].props[q].name = ""
                      /\ Size(n, p) = 4 /\ m = n /\ q = p + 1

LEMMA PatchSets ==
    ASSUME Shape, NEW n \in DOMAIN tree, NEW p \in DOMAIN tree[n].props, NEW word
    PROVE  SetAt(SetProperty(dt, n, p, word), n, p, word)
<1> DEFINE e == SetProperty(dt, n, p, word)
<1> DEFINE Tears(m) == Size(n, p) = 4 /\ p = Len(tree[n].props) /\ m = n + 1
           Loses(m, q) == Size(n, p) = 4 /\ m = n /\ q = p + 1
           Effect ==
              /\ \A m \in DOMAIN tree : e[m].torn => dt[m].torn \/ Tears(m)
              /\ \A m \in DOMAIN tree : \A q \in DOMAIN tree[m].props :
                    e[m].props[q].val = IF m = n /\ q = p THEN word ELSE dt[m].props[q].val
              /\ \A m \in DOMAIN tree : \A q \in DOMAIN tree[m].props :
                    \/ e[m].props[q].name = dt[m].props[q].name
                    \/ e[m].props[q].name = "" /\ Loses(m, q)
<1> SUFFICES IsImage(e) /\ Effect
    <2> HIDE DEF Tears, Loses
    <2> HIDE DEF e
    <2> QED BY DEF Tears, Loses, SetAt, e
<1> DEFINE set == [dt EXCEPT ![n].props[p].val = word]
           was == dt[n].props[p]
           prop == [was EXCEPT !.val = word]
<1>0. IsImage(dt) /\ was = [name |-> was.name, size |-> Size(n, p), val |-> was.val]
    BY DEF Shape, IsImage
<1>1. prop = [name |-> was.name, size |-> Size(n, p), val |-> word]
    <2> HIDE DEF was
    <2> QED BY ONLY <1>0
<1>2. prop = [name |-> prop.name, size |-> Size(n, p), val |-> prop.val]
      /\ prop.name = was.name /\ prop.val = word
    <2> HIDE DEF prop
    <2> QED BY ONLY <1>1
<1>3. set = Replaced(dt, n, p, prop)
    BY DEF Replaced
<1>4. was.size = Size(n, p)
    <2> HIDE DEF was
    <2> QED BY ONLY <1>0
<1>5. e = IF Size(n, p) = 4 THEN ZeroBehind(set, n, p) ELSE set
    BY <1>4 DEF SetProperty
<1> HIDE DEF set, prop, e
<1>6. /\ IsImage(set)
      /\ \A m \in DOMAIN tree :
            /\ set[m].torn = dt[m].torn
            /\ \A q \in DOMAIN tree[m].props :
                  set[m].props[q] = IF m = n /\ q = p THEN prop ELSE dt[m].props[q]
    BY <1>0, <1>2, <1>3, PropertyReplaced
<1>7. \A m \in DOMAIN tree : \A q \in DOMAIN tree[m].props :
         /\ set[m].props[q].val = IF m = n /\ q = p THEN word ELSE dt[m].props[q].val
         /\ set[m].props[q].name = dt[m].props[q].name
    BY <1>2, <1>6
<1>8. CASE Size(n, p) # 4
    <2>1. e = set
        BY <1>5, <1>8
    <2>2. IsImage(e) /\ \A m \in DOMAIN tree : e[m].torn => dt[m].torn
        BY <1>6, <2>1
    <2> QED BY <1>7, <2>1, <2>2
<1>9. CASE Size(n, p) = 4 /\ p < Len(tree[n].props)
    <2> DEFINE r == p + 1
    <2>1. r \in DOMAIN tree[n].props /\ Len(set[n].props) = Len(tree[n].props)
        BY <1>6, <1>9, ImageLength, TreesAreTrees
    <2>2. e = Nameless(set, n, r)
        BY <1>5, <1>9, <2>1 DEF ZeroBehind, Nameless
    <2> HIDE DEF r
    <2>3. /\ IsImage(e)
          /\ \A m \in DOMAIN tree :
                /\ e[m].torn = set[m].torn
                /\ \A q \in DOMAIN tree[m].props :
                      /\ e[m].props[q].val = set[m].props[q].val
                      /\ e[m].props[q].name = IF m = n /\ q = r THEN "" ELSE set[m].props[q].name
        <3>1. IsImage(set) /\ r \in DOMAIN tree[n].props
            BY <1>6, <2>1
        <3>2. NamelessAt(set, e, n, r)
            BY ONLY <2>2, <3>1, n \in DOMAIN tree, NameLost
        <3> QED BY ONLY <3>2 DEF NamelessAt
    <2>4. \A m \in DOMAIN tree : e[m].torn => dt[m].torn
        BY ONLY <1>6, <2>3
    <2>5. ASSUME NEW m \in DOMAIN tree, NEW q \in DOMAIN tree[m].props
          PROVE  /\ e[m].props[q].val = IF m = n /\ q = p THEN word ELSE dt[m].props[q].val
                 /\ \/ e[m].props[q].name = dt[m].props[q].name
                    \/ e[m].props[q].name = "" /\ Loses(m, q)
        <3>1. /\ e[m].props[q].val = set[m].props[q].val
              /\ e[m].props[q].name = IF m = n /\ q = r THEN "" ELSE set[m].props[q].name
            BY ONLY <2>3, m \in DOMAIN tree, q \in DOMAIN tree[m].props
        <3>2. /\ set[m].props[q].val = IF m = n /\ q = p THEN word ELSE dt[m].props[q].val
              /\ set[m].props[q].name = dt[m].props[q].name
            BY ONLY <1>7, m \in DOMAIN tree, q \in DOMAIN tree[m].props
        <3>3. m = n /\ q = r => Loses(m, q)
            BY <1>9 DEF r
        <3> HIDE DEF Loses
        <3> QED BY ONLY <3>1, <3>2, <3>3
    <2> HIDE DEF Loses, Tears
    <2> QED BY ONLY <2>3, <2>4, <2>5
<1>10. CASE Size(n, p) = 4 /\ p >= Len(tree[n].props)
    <2>1. p = Len(tree[n].props) /\ Len(set[n].props) = Len(tree[n].props) /\ ~(p < Len(tree[n].props))
        BY <1>6, <1>10, ImageLength, TreesAreTrees
    <2>2. n + 1 \in DOMAIN tree
        <3>1. n # Len(tree)
            <4>1. tree[Len(tree)].props = <<>>
                BY TreesAreTrees DEF IsTree
            <4>2. DOMAIN tree[n].props # {}
                OBVIOUS
            <4> QED BY <4>1, <4>2
        <3> QED BY <3>1, TreesAreTrees
    <2>3. e = Torn(set, n + 1)
        BY <1>5, <1>10, <2>1 DEF ZeroBehind, Torn
    <2>4. /\ IsImage(e)
          /\ \A m \in DOMAIN tree :
                /\ e[m].torn = (set[m].torn \/ m = n + 1)
                /\ e[m].props = set[m].props
        BY <1>6, <2>2, <2>3, NodeTorn
    <2>5. \A m \in DOMAIN tree : e[m].torn => dt[m].torn \/ Tears(m)
        BY <1>6, <1>10, <2>1, <2>4
    <2>6. \A m \in DOMAIN tree : \A q \in DOMAIN tree[m].props :
             /\ e[m].props[q].val = IF m = n /\ q = p THEN word ELSE dt[m].props[q].val
             /\ e[m].props[q].name = dt[m].props[q].name
        BY <1>7, <2>4
    <2> QED BY <2>4, <2>5, <2>6
<1>11. p \in Int /\ Len(tree[n].props) \in Int
    BY TreesAreTrees
<1>12. p < Len(tree[n].props) \/ p >= Len(tree[n].props)
    BY ONLY <1>11
<1> HIDE DEF Effect
<1> QED BY <1>8, <1>9, <1>10, <1>12

\* The damage that a patch does lies behind it.
LEMMA PatchDamagesBehind ==
    ASSUME Shape, WrittenAreIntegers, Damage,
           NEW n \in DOMAIN tree, NEW p \in DOMAIN tree[n].props, Size(n, p) \in {4, 8}, NEW word,
           dt' = SetProperty(dt, n, p, word), written' = written \cup {<<n, p>>}, tree' = tree
    PROVE  Shape' /\ WrittenAreIntegers' /\ Damage'
<1>1. /\ IsImage(dt')
      /\ \A m \in DOMAIN tree :
            /\ dt'[m].torn => \/ dt[m].torn
                              \/ Size(n, p) = 4 /\ p = Len(tree[n].props) /\ m = n + 1
            /\ \A q \in DOMAIN tree[m].props :
                  /\ dt'[m].props[q].val = IF m = n /\ q = p THEN word ELSE dt[m].props[q].val
                  /\ \/ dt'[m].props[q].name = dt[m].props[q].name
                     \/ /\ dt'[m].props[q].name = ""
                        /\ Size(n, p) = 4 /\ m = n /\ q = p + 1
    <2>1. SetAt(dt', n, p, word)
        BY PatchSets
    <2> QED BY <2>1 DEF SetAt
<1>2. Shape'
    <2>1. IsImage(dt)'
        BY <1>1 DEF IsImage, Size
    <2>2. ASSUME NEW m \in DOMAIN tree, NEW q \in DOMAIN tree[m].props
          PROVE  dt'[m].props[q].name \in {tree[m].props[q].name, ""}
        <3>1. dt[m].props[q].name \in {tree[m].props[q].name, ""}
            BY DEF Shape
        <3>2. \/ dt'[m].props[q].name = dt[m].props[q].name
              \/ dt'[m].props[q].name = ""
            BY <1>1
        <3> QED BY ONLY <3>1, <3>2
    <2>3. tree' \in Trees
        BY DEF Shape
    <2> QED BY <2>1, <2>2, <2>3 DEF Shape
<1>3. WrittenAreIntegers'
    BY DEF WrittenAreIntegers, Size
<1>4. Damage'
    <2>0. p \in Int /\ Len(tree[n].props) \in Int /\ n \in Nat \ {0}
        BY TreesAreTrees
    <2>1. ASSUME NEW m \in DOMAIN tree, dt'[m].torn
          PROVE  /\ m > 1
                 /\ <<m - 1, Len(tree[m - 1].props)>> \in written'
                 /\ Size(m - 1, Len(tree[m - 1].props)) = 4
        <3>1. CASE dt[m].torn
            <4>1. /\ m > 1
                  /\ <<m - 1, Len(tree[m - 1].props)>> \in written
                  /\ Size(m - 1, Len(tree[m - 1].props)) = 4
                BY <3>1 DEF Damage
            <4> QED BY <4>1
        <3>2. CASE Size(n, p) = 4 /\ p = Len(tree[n].props) /\ m = n + 1
            <4>1. m - 1 = n /\ m > 1
                BY <2>0, <3>2
            <4> QED BY <3>2, <4>1
        <3> QED BY <1>1, <2>1, <3>1, <3>2
    <2>2. ASSUME NEW m \in DOMAIN tree, NEW q \in DOMAIN tree[m].props
          PROVE  /\ dt'[m].props[q].name # tree[m].props[q].name =>
                       <<m, q - 1>> \in written' /\ Size(m, q - 1) = 4
                 /\ dt'[m].props[q].val # tree[m].props[q].val =>
                       <<m, q>> \in written' \/ tree[m].props[q].name = "internal-use-only-unit"
        <3>1. /\ dt[m].props[q].name # tree[m].props[q].name =>
                    <<m, q - 1>> \in written /\ Size(m, q - 1) = 4
              /\ dt[m].props[q].val # tree[m].props[q].val =>
                    <<m, q>> \in written \/ tree[m].props[q].name = "internal-use-only-unit"
            BY DEF Damage
        <3>2. CASE dt'[m].props[q].name = dt[m].props[q].name
            <4>1. dt'[m].props[q].name # tree[m].props[q].name =>
                     <<m, q - 1>> \in written' /\ Size(m, q - 1) = 4
                BY <3>1, <3>2
            <4>2. dt'[m].props[q].val = IF m = n /\ q = p THEN word ELSE dt[m].props[q].val
                BY <1>1
            <4> QED BY <3>1, <4>1, <4>2
        <3>3. CASE Size(n, p) = 4 /\ m = n /\ q = p + 1
            <4>1. q - 1 = p
                BY <2>0, <3>3
            <4>2. <<m, q - 1>> \in written' /\ Size(m, q - 1) = 4
                BY <3>3, <4>1
            <4>3. dt'[m].props[q].val = IF m = n /\ q = p THEN word ELSE dt[m].props[q].val
                BY <1>1
            <4> QED BY <3>1, <4>2, <4>3
        <3> QED BY <1>1, <3>2, <3>3
    <2> QED BY <2>1, <2>2 DEF Damage, Size
<1> QED BY <1>2, <1>3, <1>4

\* What the whole program keeps when it leaves the tree alone.
LEMMA TreeUnchanged ==
    TreeShape /\ UNCHANGED <<dt, tree, written>> /\ phase' # "dump" => TreeShape'
<1> SUFFICES ASSUME TreeShape, UNCHANGED <<dt, tree, written>>, phase' # "dump"
             PROVE  TreeShape'
    OBVIOUS
<1>1. Shape'
    BY DEF TreeShape, Shape, IsImage, Size
<1>2. WrittenAreIntegers'
    BY DEF TreeShape, WrittenAreIntegers, Size
<1>3. Damage'
    BY DEF TreeShape, Damage, Size
<1>4. Untouched'
    BY DEF Untouched
<1> QED BY <1>1, <1>2, <1>3, <1>4 DEF TreeShape

-----------------------------------------------------------------------------
(* The steps of jev-dtree-dump *)

LEMMA ListsType == Lists \subseteq Seq(PatchSpecs)
<1> SUFFICES ASSUME NEW s \in Lists PROVE s \in Seq(PatchSpecs)
    OBVIOUS
<1>1. PICK m \in 0 .. MaxPatches : s \in [1 .. m -> Specs]
    BY DEF Lists, BoundedSeq, SeqOf
<1>2. m \in Nat /\ Specs \subseteq PatchSpecs
    BY DTreeDumpAssumption
<1>3. s \in [1 .. m -> PatchSpecs]
    BY <1>1, <1>2
<1> QED BY <1>2, <1>3, SeqDef

\* The proxy data that are found are the tree's own: no patch reaches them.
LEMMA ProxyDataAreKept ==
    ASSUME TreeShape, ProxyData(dt)[2] # Nil
    PROVE  LET t == ProxyData(tree)
               data == DataAt(tree, t)
           IN /\ t[2] # Nil
              /\ DataAt(dt, ProxyData(dt)) = data
              /\ IsProxyData(data)
              /\ PatchesVar(data) # NoVar => varValue(data, PatchesVar(data)) \in Seq(PatchSpecs)
<1> USE DEF TreeShape
<1> DEFINE t == ProxyData(dt)
<1>1. <<"chosen">> \in Seq({"chosen"})
    OBVIOUS
<1>2. LookupProperty(dt, Root, <<"chosen">>, "nvram-proxy-data")[2] # Nil
    BY DEF ProxyData
<1>3. FoundAt(t, "nvram-proxy-data")
    BY <1>1, <1>2, PropertyFound DEF ProxyData
<1> HIDE DEF t
<1>4. PICK n \in DOMAIN tree : \E p \in DOMAIN tree[n].props :
         t = <<n, p>> /\ dt[n].props[p].name = "nvram-proxy-data"
    BY <1>3 DEF FoundAt
<1>5. PICK p \in DOMAIN tree[n].props :
         t = <<n, p>> /\ dt[n].props[p].name = "nvram-proxy-data"
    BY <1>4
<1>6. tree[n].props[p].name = "nvram-proxy-data"
    <2>1. dt[n].props[p].name \in {tree[n].props[p].name, ""}
        BY DEF Shape
    <2> QED BY <1>5, <2>1
<1> DEFINE val == tree[n].props[p].val
<1>7. /\ <<n, p>> = ProxyData(tree)
      /\ Size(n, p) \notin {4, 8} /\ IsProxyData(val)
      /\ PatchesVar(val) # NoVar => varValue(val, PatchesVar(val)) \in Seq(PatchSpecs)
    BY <1>6, TreesAreTrees DEF HasProxyData, Size
<1>8. <<n, p>> \notin written
    <2> SUFFICES ASSUME <<n, p>> \in written PROVE FALSE
        OBVIOUS
    <2>1. PICK m \in DOMAIN tree : \E q \in DOMAIN tree[m].props :
             <<n, p>> = <<m, q>> /\ Size(m, q) \in {4, 8}
        BY DEF WrittenAreIntegers
    <2>2. PICK q \in DOMAIN tree[m].props : <<n, p>> = <<m, q>> /\ Size(m, q) \in {4, 8}
        BY <2>1
    <2>3. m = n /\ q = p
        BY <2>2
    <2> QED BY <1>7, <2>2, <2>3
<1>9. dt[n].props[p].val = val
    BY <1>6, <1>8 DEF Damage
<1>10. t[1] = n /\ t[2] = p /\ ProxyData(tree)[1] = n /\ ProxyData(tree)[2] = p
    BY <1>5, <1>7
<1>11. DataAt(dt, t) = val /\ DataAt(tree, ProxyData(tree)) = val
    BY <1>9, <1>10 DEF DataAt
<1>12. t[2] # Nil
    BY DEF t
<1> HIDE DEF val
<1> QED BY <1>7, <1>10, <1>11, <1>12 DEF t

\* The patches in the NVRAM are specifications.
LEMMA NvramPatchesType ==
    ASSUME TreeShape
    PROVE  NvramPatches(dt) \in Seq(PatchSpecs)
<1>1. CASE ProxyData(dt)[2] = Nil
    BY <1>1, EmptySeq DEF NvramPatches
<1>2. CASE ProxyData(dt)[2] # Nil
    <2> DEFINE val == DataAt(tree, ProxyData(tree))
    <2>1. /\ DataAt(dt, ProxyData(dt)) = val
          /\ PatchesVar(val) # NoVar => varValue(val, PatchesVar(val)) \in Seq(PatchSpecs)
        BY <1>2, ProxyDataAreKept
    <2>2. NvramPatches(dt) = IF PatchesVar(val) = NoVar THEN <<>> ELSE varValue(val, PatchesVar(val))
        BY <1>2, <2>1 DEF NvramPatches
    <2> HIDE DEF val
    <2> QED BY <2>1, <2>2, EmptySeq
<1> QED BY <1>1, <1>2

LEMMA TreeInitInv == TreeInit => TreeInv
<1> SUFFICES ASSUME TreeInit PROVE TreeInv
    OBVIOUS
<1> USE DEF TreeInit
<1>1. IsTree(tree)
    BY DTreeDumpAssumption
<1>2. Shape
    <2>1. tree = [n \in DOMAIN tree |-> tree[n]]
        <3>1. tree \in Seq(Range(tree))
            BY <1>1 DEF IsTree
        <3> QED BY <3>1
    <2>2. ASSUME NEW n \in DOMAIN tree
          PROVE  /\ tree[n] = [props |-> tree[n].props, nchildren |-> tree[n].nchildren,
                               torn |-> tree[n].torn]
                 /\ tree[n].torn = FALSE
                 /\ tree[n].props = [p \in DOMAIN tree[n].props |-> tree[n].props[p]]
                 /\ \A p \in DOMAIN tree[n].props :
                       tree[n].props[p] = [name |-> tree[n].props[p].name, size |-> Size(n, p),
                                           val |-> tree[n].props[p].val]
        <3>1. /\ tree[n] = [props |-> tree[n].props, nchildren |-> tree[n].nchildren, torn |-> FALSE]
              /\ tree[n].props \in Seq(Range(tree[n].props))
              /\ \A p \in DOMAIN tree[n].props :
                    tree[n].props[p] = [name |-> tree[n].props[p].name, size |-> Size(n, p),
                                        val |-> tree[n].props[p].val]
            BY <1>1 DEF IsTree, Size
        <3>2. tree[n].torn = FALSE
            BY <3>1
        <3>3. tree[n] = [props |-> tree[n].props, nchildren |-> tree[n].nchildren,
                         torn |-> tree[n].torn]
            BY <3>1, <3>2
        <3>4. tree[n].props = [p \in DOMAIN tree[n].props |-> tree[n].props[p]]
            BY <3>1
        <3> QED BY <3>1, <3>2, <3>3, <3>4
    <2>3. IsImage(tree)
        BY <2>1, <2>2 DEF IsImage
    <2> QED BY <2>3 DEF Shape
<1>3. Damage
    <2>1. \A n \in DOMAIN tree : tree[n].torn = FALSE
        BY <1>1 DEF IsTree
    <2> QED BY <2>1 DEF Damage
<1>4. WrittenAreIntegers /\ Untouched
    BY DEF WrittenAreIntegers, Untouched
<1>5. GroupInv
    BY EmptySeq DEF GroupInv, GoodMeansAll
<1> QED BY <1>2, <1>3, <1>4, <1>5 DEF TreeInv, TreeShape

LEMMA BeginInv ==
    ASSUME NEW next, NEW specs \in Seq(PatchSpecs), next = "done" => specs = <<>>, Begin(next, specs)
    PROVE  GroupInv'
<1>1. results' = <<>> /\ good' = TRUE /\ group' = specs /\ phase' = next
    BY DEF Begin
<1>2. group' \in Seq(PatchSpecs) /\ results' \in Seq(BOOLEAN) /\ Len(results') <= Len(group')
    BY <1>1, EmptySeq, LenProperties
<1>3. GoodMeansAll'
    BY <1>1 DEF GoodMeansAll
<1> QED BY <1>2, <1>3 DEF GroupInv

LEMMA DumpInv == TreeInv /\ Dump => TreeInv'
<1> SUFFICES ASSUME TreeInv, Dump PROVE TreeInv'
    OBVIOUS
<1> USE DEF TreeInv, TreeShape
<1> DEFINE t == LookupProperty(dt, Root, <<"chosen">>, "internal-use-only-unit")
           size == dt[t[1]].props[t[2]].size
<1>0. dt = tree /\ written = {} /\ phase = "dump"
    BY DEF Dump, Untouched
<1>1. CASE t[2] # Nil /\ size # 4 /\ Abort
    <2>1. UNCHANGED <<dt, tree, written, phase, group, results, good>>
        BY <1>1 DEF Abort
    <2>2. Shape' /\ WrittenAreIntegers' /\ Damage' /\ Untouched'
        <3>1. Shape'
            BY <2>1 DEF Shape, IsImage, Size
        <3>2. WrittenAreIntegers' /\ Untouched'
            BY <2>1 DEF WrittenAreIntegers, Size, Untouched
        <3>3. Damage'
            BY <2>1 DEF Damage, Size
        <3> QED BY <3>1, <3>2, <3>3
    <2>3. GroupInv'
        BY <2>1 DEF GroupInv, GoodMeansAll
    <2> QED BY <2>2, <2>3
<1>2. CASE /\ t[2] # Nil => size = 4
           /\ dt' = IF t[2] = Nil THEN dt ELSE [dt EXCEPT ![t[1]].props[t[2]].val = 1]
           /\ \E specs \in Lists : Begin("patch", specs)
    <2>1. PICK specs \in Lists : Begin("patch", specs)
        BY <1>2
    <2>2. GroupInv'
        BY <2>1, BeginInv, ListsType
    <2>3. phase' = "patch" /\ tree' = tree /\ written' = written
        BY <2>1 DEF Begin
    <2>4. CASE t[2] = Nil
        <3>1. dt' = dt
            BY <1>2, <2>4
        <3>2. TreeShape'
            BY <2>3, <3>1, TreeUnchanged
        <3> QED BY <2>2, <3>2
    <2>5. CASE t[2] # Nil
        <3>1. <<"chosen">> \in Seq({"chosen"})
            OBVIOUS
        <3>2. FoundAt(t, "internal-use-only-unit")
            BY <2>5, <3>1, PropertyFound
        <3>3. dt' = [dt EXCEPT ![t[1]].props[t[2]].val = 1]
            BY <1>2, <2>5
        <3> HIDE DEF t
        <3>4. PICK n \in DOMAIN tree : \E p \in DOMAIN tree[n].props :
                 t = <<n, p>> /\ dt[n].props[p].name = "internal-use-only-unit"
            BY <3>2 DEF FoundAt
        <3>5. PICK p \in DOMAIN tree[n].props :
                 t = <<n, p>> /\ dt[n].props[p].name = "internal-use-only-unit"
            BY <3>4
        <3> DEFINE was == dt[n].props[p]
                   prop == [was EXCEPT !.val = 1]
        <3>6. dt' = Replaced(dt, n, p, prop)
            <4>1. t[1] = n /\ t[2] = p
                BY <3>5
            <4> QED BY <3>3, <4>1 DEF Replaced
        <3>7. IsImage(dt) /\ was = [name |-> was.name, size |-> Size(n, p), val |-> was.val]
            BY DEF Shape, IsImage
        <3>8. prop = [name |-> was.name, size |-> Size(n, p), val |-> 1]
            <4> HIDE DEF was
            <4> QED BY ONLY <3>7
        <3>9. prop = [name |-> prop.name, size |-> Size(n, p), val |-> prop.val]
              /\ prop.name = was.name
            <4> HIDE DEF prop, was
            <4> QED BY ONLY <3>8
        <3> HIDE DEF prop
        <3>10. /\ IsImage(dt')
               /\ \A m \in DOMAIN tree :
                     /\ dt'[m].torn = dt[m].torn
                     /\ \A q \in DOMAIN tree[m].props :
                           dt'[m].props[q] = IF m = n /\ q = p THEN prop ELSE dt[m].props[q]
            BY <3>6, <3>7, <3>9, PropertyReplaced
        <3>11. Shape'
            <4>1. IsImage(dt)'
                BY <2>3, <3>10 DEF IsImage, Size
            <4>2. \A m \in DOMAIN tree : \A q \in DOMAIN tree[m].props :
                     dt'[m].props[q].name = dt[m].props[q].name
                BY <3>9, <3>10
            <4>3. tree \in Trees /\ \A m \in DOMAIN tree : \A q \in DOMAIN tree[m].props :
                     dt[m].props[q].name \in {tree[m].props[q].name, ""}
                BY DEF Shape
            <4>4. \A m \in DOMAIN tree : \A q \in DOMAIN tree[m].props :
                     dt'[m].props[q].name \in {tree[m].props[q].name, ""}
                BY ONLY <4>2, <4>3
            <4> QED BY <2>3, <4>1, <4>3, <4>4 DEF Shape
        <3>12. Damage'
            <4>1. \A m \in DOMAIN tree : ~dt'[m].torn
                <5>1. \A m \in DOMAIN tree : ~dt[m].torn
                    BY <1>0 DEF Damage
                <5> QED BY <3>10, <5>1
            <4>2. ASSUME NEW m \in DOMAIN tree, NEW q \in DOMAIN tree[m].props
                  PROVE  /\ dt'[m].props[q].name = tree[m].props[q].name
                         /\ dt'[m].props[q].val # tree[m].props[q].val =>
                               tree[m].props[q].name = "internal-use-only-unit"
                <5>1. dt'[m].props[q] = IF m = n /\ q = p THEN prop ELSE tree[m].props[q]
                    BY <1>0, <3>10
                <5>2. prop.name = tree[n].props[p].name /\ prop.name = "internal-use-only-unit"
                    BY <1>0, <3>5, <3>9
                <5> QED BY <5>1, <5>2
            <4> QED BY <2>3, <4>1, <4>2 DEF Damage
        <3>13. WrittenAreIntegers' /\ Untouched'
            BY <2>3 DEF WrittenAreIntegers, Size, Untouched
        <3> QED BY <2>2, <3>11, <3>12, <3>13
    <2> QED BY <2>4, <2>5
<1>3. \/ t[2] # Nil /\ size # 4 /\ Abort
      \/ /\ t[2] # Nil => size = 4
         /\ dt' = IF t[2] = Nil THEN dt ELSE [dt EXCEPT ![t[1]].props[t[2]].val = 1]
         /\ \E specs \in Lists : Begin("patch", specs)
    BY Zenon DEF Dump
<1> QED BY <1>1, <1>2, <1>3

LEMMA PatchNextInv == TreeInv /\ PatchNext => TreeInv'
<1> SUFFICES ASSUME TreeInv, PatchNext PROVE TreeInv'
    OBVIOUS
<1> USE DEF TreeInv, TreeShape
<1> DEFINE i == Len(results) + 1
           spec == group[i]
           ok == Applies(dt, spec)
           t == Target(dt, spec)
           size == dt[t[1]].props[t[2]].size
<1>1. phase \in {"patch", "multipatch", "nvram"} /\ Len(results) < Len(group)
    BY DEF PatchNext
<1>2. /\ group \in Seq(PatchSpecs) /\ results \in Seq(BOOLEAN)
      /\ Len(group) \in Nat /\ Len(results) \in Nat
    BY LenProperties DEF GroupInv
<1>3. spec \in PatchSpecs
    <2>1. i \in 1 .. Len(group)
        BY <1>1, <1>2
    <2> HIDE DEF i
    <2> QED BY <1>2, <2>1, ElementOfSeq
<1>4. CASE spec # Malformed /\ t[1] = Undefined /\ Abort
    <2>1. UNCHANGED <<dt, tree, written, phase, group, results, good>>
        BY <1>4 DEF Abort
    <2>2. TreeShape'
        BY <1>1, <2>1, TreeUnchanged
    <2>3. GroupInv'
        BY <2>1 DEF GroupInv, GoodMeansAll
    <2> QED BY <2>2, <2>3
<1>5. CASE /\ results' = Append(results, ok)
           /\ good' = IF phase = "patch" THEN good ELSE Accumulate(good, ok)
           /\ dt' = IF ok THEN Patched(dt, spec) ELSE dt
           /\ written' = IF ok THEN written \cup {t} ELSE written
           /\ UNCHANGED <<tree, phase, group>>
    <2>1. ok \in BOOLEAN
        <3>1. ok = (/\ spec # Malformed
                    /\ t[2] # Nil /\ Parsed(spec, size) # NoInt)
            BY DEF Applies
        <3> HIDE DEF ok, t, size, spec
        <3> QED BY <3>1
    <2>2. GroupInv'
        <3> HIDE DEF ok, spec, t, size
        <3>1. /\ results' \in Seq(BOOLEAN) /\ Len(results') = Len(results) + 1
              /\ \A j \in 1 .. Len(results) : results'[j] = results[j]
              /\ results'[Len(results) + 1] = ok
            BY <1>2, <1>5, <2>1, AppendProperties
        <3>2. Len(results') <= Len(group')
            BY <1>1, <1>2, <1>5, <3>1
        <3>3. GoodMeansAll'
            <4>1. CASE phase = "patch"
                BY <1>5, <4>1 DEF GoodMeansAll
            <4>2. CASE phase # "patch"
                <5>1. good = \A j \in DOMAIN results : results[j]
                    BY <1>1, <4>2 DEF GroupInv, GoodMeansAll
                <5>2. good' = (good /\ ok)
                    BY <1>5, <4>2 DEF Accumulate
                <5>3. DOMAIN results = 1 .. Len(results) /\ DOMAIN results' = 1 .. Len(results) + 1
                    BY <1>2, <3>1, LenProperties
                <5>4. (\A j \in DOMAIN results' : results'[j])
                        = ((\A j \in DOMAIN results : results[j]) /\ ok)
                    <6>1. DOMAIN results' = DOMAIN results \cup {Len(results) + 1}
                        BY <1>2, <5>3
                    <6>2. \A j \in DOMAIN results : results'[j] = results[j]
                        BY <3>1, <5>3
                    <6>3. results'[Len(results) + 1] = ok
                        BY <3>1
                    <6> HIDE DEF i
                    <6> QED BY ONLY <6>1, <6>2, <6>3, Zenon
                <5>5. good' = \A j \in DOMAIN results' : results'[j]
                    BY ONLY <5>1, <5>2, <5>4, Zenon
                <5>6. phase' # "done"
                    BY <1>1, <1>5
                <5> QED BY ONLY <5>5, <5>6, Zenon DEF GoodMeansAll
            <4> QED BY <4>1, <4>2
        <3> QED BY <1>2, <1>5, <3>1, <3>2, <3>3 DEF GroupInv
    <2>3. CASE ~ok
        <3>1. UNCHANGED <<dt, tree, written>> /\ phase' # "dump"
            <4> HIDE DEF ok
            <4> QED BY <1>1, <1>5, <2>3
        <3> QED BY <2>2, <3>1, TreeUnchanged
    <2>4. CASE ok
        <3>1. t[2] # Nil /\ Parsed(spec, size) # NoInt
            BY ONLY <2>4, SMTT(60) DEF Applies
        <3>2. size \in {4, 8}
            BY <3>1 DEF Parsed
        <3>3. spec.path \in Seq(STRING)
            <4> HIDE DEF spec
            <4> QED BY <1>3 DEF PatchSpecs
        <3>4. FoundAt(t, spec.name)
            <4> HIDE DEF spec
            <4> QED BY <3>1, <3>3, PropertyFound DEF Target
        <3> DEFINE word == Parsed(spec, size)
        <3>5. dt' = SetProperty(dt, t[1], t[2], word) /\ written' = written \cup {t}
            BY <1>5, <2>4 DEF Patched
        <3> HIDE DEF word, t
        <3>6. PICK n \in DOMAIN tree : \E p \in DOMAIN tree[n].props : t = <<n, p>>
            BY <3>4 DEF FoundAt
        <3>7. PICK p \in DOMAIN tree[n].props : t = <<n, p>>
            BY <3>6
        <3>8. t[1] = n /\ t[2] = p
            BY <3>7
        <3>9. Size(n, p) \in {4, 8}
            <4>1. dt[n].props[p] = [name |-> dt[n].props[p].name, size |-> Size(n, p),
                                    val |-> dt[n].props[p].val]
                BY DEF Shape, IsImage
            <4>2. dt[n].props[p].size = Size(n, p)
                BY ONLY <4>1
            <4> QED BY <3>2, <3>8, <4>2
        <3>10. dt' = SetProperty(dt, n, p, word) /\ written' = written \cup {<<n, p>>} /\ tree' = tree
            BY <1>5, <3>5, <3>7, <3>8
        <3>11. Shape' /\ WrittenAreIntegers' /\ Damage'
            BY <3>9, <3>10, PatchDamagesBehind
        <3>12. Untouched'
            BY <1>1, <1>5 DEF Untouched
        <3> QED BY <2>2, <3>11, <3>12
    <2> QED BY <2>3, <2>4
<1> QED BY <1>4, <1>5, Zenon DEF PatchNext

\* The steps from one group of patches to the next leave the tree alone.
LEMMA NextGroupInv == TreeInv /\ (Multipatch \/ NvramPatch \/ Done) => TreeInv'
<1> SUFFICES ASSUME TreeInv, Multipatch \/ NvramPatch \/ Done PROVE TreeInv'
    OBVIOUS
<1> USE DEF TreeInv
<1>0. <<>> \in Seq(PatchSpecs)
    BY EmptySeq
<1>1. CASE Multipatch
    <2>1. PICK specs \in Lists : Begin("multipatch", specs)
        BY <1>1 DEF Multipatch
    <2>2. GroupInv'
        BY <2>1, BeginInv, ListsType
    <2>3. UNCHANGED <<dt, tree, written>> /\ phase' # "dump"
        BY <1>1, <2>1 DEF Multipatch, Through, Begin
    <2> QED BY <2>2, <2>3, TreeUnchanged
<1>2. CASE NvramPatch
    <2> DEFINE t == ProxyData(dt)
    <2>0. Through("multipatch")
        BY <1>2 DEF NvramPatch
    <2>1. CASE Abort
        <3>1. UNCHANGED <<dt, tree, written, phase, group, results, good>>
            BY <2>1 DEF Abort
        <3>2. phase' # "dump"
            BY <2>0, <3>1 DEF Through
        <3>3. GroupInv'
            BY <3>1 DEF GroupInv, GoodMeansAll
        <3> QED BY <3>1, <3>2, <3>3, TreeUnchanged
    <2>2. CASE Begin("nvram", NvramPatches(dt))
        <3>1. GroupInv'
            BY <2>2, BeginInv, NvramPatchesType
        <3>2. UNCHANGED <<dt, tree, written>> /\ phase' # "dump"
            BY <2>0, <2>2 DEF Through, Begin
        <3> QED BY <3>1, <3>2, TreeUnchanged
    <2>3. CASE /\ phase' = "done" /\ group' = <<>> /\ results' = <<>> /\ good' = FALSE
               /\ UNCHANGED <<tree, written, status>>
        <3>1. GroupInv'
            <4>1. GoodMeansAll'
                BY <2>3 DEF GoodMeansAll
            <4>2. /\ group' \in Seq(PatchSpecs) /\ results' \in Seq(BOOLEAN)
                  /\ Len(results') <= Len(group')
                BY <2>3, EmptySeq
            <4> QED BY <4>1, <4>2 DEF GroupInv
        <3>2. UNCHANGED <<dt, tree, written>> /\ phase' # "dump"
            BY <2>0, <2>3 DEF Through
        <3> QED BY <3>1, <3>2, TreeUnchanged
    <2> HIDE DEF t
    <2>4. \/ t[1] = Undefined /\ Abort
          \/ t[2] # Nil /\ Begin("nvram", NvramPatches(dt))
          \/ /\ t[2] = Nil
             /\ phase' = "done" /\ group' = <<>> /\ results' = <<>> /\ good' = FALSE
             /\ UNCHANGED <<tree, written, status>>
        BY <1>2, Zenon DEF NvramPatch, t
    <2> QED BY <2>1, <2>2, <2>3, <2>4
<1>3. CASE Done
    <2>1. CASE Through("multipatch") /\ Begin("done", <<>>)
        <3>1. GroupInv'
            BY <1>0, <2>1, BeginInv
        <3>2. UNCHANGED <<dt, tree, written>> /\ phase' # "dump"
            BY <2>1 DEF Through, Begin
        <3> QED BY <3>1, <3>2, TreeUnchanged
    <2>2. CASE /\ Through("nvram") /\ phase' = "done"
               /\ UNCHANGED <<tree, group, results, good, written, status>>
        <3>1. phase = "nvram" /\ Len(results) = Len(group)
            BY <2>2 DEF Through
        <3>2. GoodMeansAll'
            <4>1. good = \A j \in DOMAIN results : results[j]
                BY <3>1 DEF GroupInv, GoodMeansAll
            <4> QED BY <2>2, <3>1, <4>1 DEF GoodMeansAll
        <3>3. GroupInv'
            BY <2>2, <3>2 DEF GroupInv
        <3>4. UNCHANGED <<dt, tree, written>> /\ phase' # "dump"
            BY <2>2 DEF Through
        <3> QED BY <3>3, <3>4, TreeUnchanged
    <2> QED BY <1>3, <2>1, <2>2 DEF Done
<1> QED BY <1>1, <1>2, <1>3

LEMMA TreeStep == TreeInv /\ [Next]_vars => TreeInv'
<1> SUFFICES ASSUME TreeInv, [Next]_vars PROVE TreeInv'
    OBVIOUS
<1>1. CASE UNCHANGED treeVars
    <2>1. UNCHANGED <<dt, tree, written, phase, group, results, good>>
        BY <1>1 DEF treeVars
    <2>2. Shape'
        BY <2>1 DEF TreeInv, TreeShape, Shape, IsImage, Size
    <2>3. WrittenAreIntegers' /\ Untouched'
        BY <2>1 DEF TreeInv, TreeShape, WrittenAreIntegers, Size, Untouched
    <2>4. Damage'
        BY <2>1 DEF TreeInv, TreeShape, Damage, Size
    <2>5. GroupInv'
        BY <2>1 DEF TreeInv, GroupInv, GoodMeansAll
    <2> QED BY <2>2, <2>3, <2>4, <2>5 DEF TreeInv, TreeShape
<1>2. CASE TreeNext
    BY <1>2, DumpInv, PatchNextInv, NextGroupInv DEF TreeNext
<1>3. Next \/ UNCHANGED vars
    OBVIOUS
<1> QED BY <1>1, <1>2, <1>3 DEF Next, vars

\* The tree is what was read but for the damage of patches, whatever the tree and
\* the patches (dump_dtree, processPatch).
THEOREM TreeInvariant == Spec => []TreeInv
<1>1. Init => TreeInv
    BY TreeInitInv DEF Init
<1> QED BY <1>1, TreeStep, PTL DEF Spec

\* A list of patches is good when all of them were, and all are tried
\* (processPatches).
THEOREM AlwaysGoodMeansAll == Spec => []GoodMeansAll
<1>1. TreeInv => GoodMeansAll
    BY DEF TreeInv, GroupInv
<1> QED BY <1>1, TreeInvariant, PTL

\* A patch damages at most what lies right behind a property of four bytes, and
\* only values that were patched change (processPatch).
THEOREM AlwaysDamageIsBehindPatch == Spec => []DamageIsBehindPatch
<1>1. TreeInv => DamageIsBehindPatch
    <2> SUFFICES ASSUME TreeInv PROVE DamageIsBehindPatch
        OBVIOUS
    <2>1. Damage
        BY DEF TreeInv, TreeShape
    <2> QED BY <2>1 DEF Damage, DamageIsBehindPatch, FourBytes, Size
<1> QED BY <1>1, TreeInvariant, PTL

-----------------------------------------------------------------------------
(* Numbers from texts *)

LEMMA Integers256Type ==
    ASSUME NEW size \in Nat PROVE Integers256(size) \in Nat \ {0}
<1> DEFINE Pos == Nat \ {0}
           step == [x \in Pos \X (1 .. size) |-> 256 * x[1]]
           Body(f) == [k \in 0 .. size |-> IF k = 0 THEN 1 ELSE 256 * f[k - 1]]
           g == CHOOSE f : f = Body(f)
<1>1. step \in [Pos \X (1 .. size) -> Pos] /\ 1 \in Pos
    OBVIOUS
<1>2. PICK f \in [0 .. size -> Pos] : IsRecursion(f, 1, size, step)
    <2> HIDE DEF Pos, step
    <2> QED BY <1>1, RecursionExists
<1>3. f[0] = 1 /\ \A k \in 1 .. size : f[k] = 256 * f[k - 1]
    <2>1. ASSUME NEW k \in 1 .. size PROVE f[k] = 256 * f[k - 1]
        <3>1. k - 1 \in 0 .. size /\ f[k - 1] \in Pos
            BY <1>2
        <3>2. f[k] = step[<<f[k - 1], k>>]
            BY <1>2 DEF IsRecursion
        <3> HIDE DEF Pos
        <3> QED BY <3>1, <3>2
    <2> QED BY <1>2, <2>1 DEF IsRecursion
<1>4. f = Body(f)
    BY <1>2, <1>3
<1>5. g = Body(g)
    <2> HIDE DEF Body
    <2> QED BY <1>4
<1>6. Integers256(size) = g[size]
    BY DEF Integers256
<1> HIDE DEF g
<1>7. g[0] = f[0] /\ \A k \in 1 .. size : g[k - 1] = f[k - 1] => g[k] = f[k]
    BY <1>3, <1>5, SMTT(60)
<1>8. \A k \in 0 .. size : g[k] = f[k]
    <2> DEFINE P == {k \in 0 .. size : g[k] = f[k]}
    <2>1. 0 \in P /\ \A k \in 1 .. size : k - 1 \in P => k \in P
        BY <1>7
    <2> HIDE DEF P
    <2>2. size \in Nat
        OBVIOUS
    <2>3. 0 .. size \subseteq P
        BY <2>1, <2>2, InductionUp
    <2> QED BY <2>3 DEF P
<1>9. g[size] = f[size] /\ f[size] \in Pos
    BY <1>2, <1>8
<1> QED BY <1>6, <1>9

\* The numbers that the first digits of a text denote.
Upto(g, base, digits) ==
    /\ g \in [0 .. Len(digits) -> Nat] /\ g[0] = 0
    /\ \A i \in 1 .. Len(digits) : g[i] = base * g[i - 1] + digits[i]

Texts == [hex : BOOLEAN, digits : Seq(Nat)]

LEMMA DenotesUpto ==
    ASSUME NEW text \in Texts
    PROVE  \E g : /\ Upto(g, IF text.hex THEN 16 ELSE 10, text.digits)
                  /\ Denotes(text) = g[Len(text.digits)]
<1> DEFINE digits == text.digits
           base == IF text.hex THEN 16 ELSE 10
           n == Len(digits)
           step == [x \in Nat \X (1 .. n) |-> base * x[1] + digits[x[2]]]
           Body(f) == [i \in 0 .. n |-> IF i = 0 THEN 0 ELSE base * f[i - 1] + digits[i]]
           g == CHOOSE f : f = Body(f)
<1>1. base \in Nat /\ digits \in Seq(Nat) /\ n \in Nat /\ \A i \in 1 .. n : digits[i] \in Nat
    <2>1. digits \in Seq(Nat) /\ base \in Nat
        BY DEF Texts
    <2> QED BY <2>1
<1>2. Denotes(text) = g[n]
    BY DEF Denotes
<1> HIDE DEF base, digits, n
<1>3. step \in [Nat \X (1 .. n) -> Nat]
    <2>1. ASSUME NEW x \in Nat \X (1 .. n) PROVE base * x[1] + digits[x[2]] \in Nat
        <3>1. x[1] \in Nat /\ digits[x[2]] \in Nat
            BY <1>1
        <3>2. base * x[1] \in Nat
            BY <1>1, <3>1
        <3> QED BY <3>1, <3>2
    <2> QED BY <2>1
<1>4. PICK f \in [0 .. n -> Nat] : IsRecursion(f, 0, n, step)
    <2>1. 0 \in Nat
        OBVIOUS
    <2> HIDE DEF step
    <2> QED BY <1>1, <1>3, <2>1, RecursionExists
<1>5. f[0] = 0 /\ \A i \in 1 .. n : f[i] = base * f[i - 1] + digits[i]
    <2>1. ASSUME NEW i \in 1 .. n PROVE f[i] = base * f[i - 1] + digits[i]
        <3>1. i - 1 \in 0 .. n /\ f[i - 1] \in Nat
            BY <1>1, <1>4
        <3>2. f[i] = step[<<f[i - 1], i>>]
            BY <1>4 DEF IsRecursion
        <3> QED BY <3>1, <3>2
    <2> QED BY <1>4, <2>1 DEF IsRecursion
<1>6. f = Body(f)
    BY <1>4, <1>5
<1>7. g = Body(g)
    <2> HIDE DEF Body
    <2> QED BY <1>6
<1> HIDE DEF g
<1>8. g[0] = f[0] /\ \A i \in 1 .. n : g[i - 1] = f[i - 1] => g[i] = f[i]
    BY <1>1, <1>5, <1>7, SMTT(60)
<1>9. \A i \in 0 .. n : g[i] = f[i]
    <2> DEFINE P == {i \in 0 .. n : g[i] = f[i]}
    <2>1. 0 \in P /\ \A i \in 1 .. n : i - 1 \in P => i \in P
        BY <1>1, <1>8
    <2> HIDE DEF P
    <2>2. n \in Nat
        BY <1>1
    <2>3. 0 .. n \subseteq P
        BY <2>1, <2>2, InductionUp
    <2> QED BY <2>3 DEF P
<1>10. g[n] = f[n]
    BY <1>1, <1>9
<1>11. Upto(f, base, digits)
    BY <1>4, <1>5 DEF Upto, n
<1> QED BY <1>2, <1>10, <1>11 DEF base, digits, n

\* An integer that wraps at every digit is what is left when it wraps at the end.
LEMMA AccumulatedWraps ==
    ASSUME NEW digits \in Seq(Nat), NEW size \in Nat, NEW g, Upto(g, 10, digits)
    PROVE  Accumulated(digits, size) = g[Len(digits)] % Integers256(size)
<1> DEFINE n == Len(digits)
           m == Integers256(size)
           Body(f) == [i \in 0 .. n |-> IF i = 0 THEN 0 ELSE (10 * f[i - 1] + digits[i]) % m]
           r == CHOOSE f : f = Body(f)
           h == [i \in 0 .. n |-> g[i] % m]
<1>1. Accumulated(digits, size) = r[n]
    BY DEF Accumulated
<1>2. n \in Nat /\ m \in Nat \ {0} /\ \A i \in 1 .. n : digits[i] \in Nat
    <2>1. m \in Nat \ {0}
        BY Integers256Type
    <2>2. n \in Nat /\ \A i \in 1 .. n : digits[i] \in Nat
        OBVIOUS
    <2> QED BY <2>1, <2>2
<1>3. /\ g \in [0 .. n -> Nat] /\ g[0] = 0
      /\ \A i \in 1 .. n : g[i] = 10 * g[i - 1] + digits[i]
    BY DEF Upto
<1> HIDE DEF n, m
<1>4. h[0] = 0
    BY <1>2, <1>3, SmallRemainder
<1>5. ASSUME NEW i \in 1 .. n PROVE h[i] = (10 * h[i - 1] + digits[i]) % m
    <2> DEFINE a == g[i - 1]
               q == a \div m
               s == a % m
               d == digits[i]
    <2>1. a \in Nat /\ d \in Nat /\ i \in 0 .. n /\ i - 1 \in 0 .. n
        BY <1>2, <1>3
    <2>2. s \in 0 .. m - 1 /\ q \in Int /\ a = m * q + s
        BY <1>2, <2>1, DivMod
    <2>3. h[i] = (10 * a + d) % m /\ h[i - 1] = s
        BY <1>3, <2>1
    <2> HIDE DEF a, q, s, d
    <2>4. q \in Nat
        <3> SUFFICES ASSUME q <= -1 PROVE FALSE
            BY <2>2
        <3>1. m * q <= -m
            BY <1>2, <2>2
        <3>2. m * q \in Int
            BY <1>2, <2>2
        <3> QED BY <1>2, <2>1, <2>2, <3>1, <3>2
    <2>5. 10 * a + d = (10 * s + d) + m * (10 * q)
        <3>1. m * (10 * q) = 10 * (m * q) /\ m * q \in Int
            BY <1>2, <2>4
        <3> QED BY <1>2, <2>1, <2>2, <3>1
    <2>6. 10 * s + d \in Nat /\ 10 * q \in Nat
        BY <1>2, <2>1, <2>2, <2>4
    <2>7. ((10 * s + d) + m * (10 * q)) % m = (10 * s + d) % m
        BY <1>2, <2>6, RemainderBesideMultiple
    <2> QED BY <2>3, <2>5, <2>7 DEF d
<1> HIDE DEF h
<1>6. \E f : f = Body(f)
    <2>1. h = [i \in 0 .. n |-> h[i]]
        BY DEF h
    <2>2. \A i \in 0 .. n : i = 0 \/ i \in 1 .. n
        BY <1>2
    <2>3. h = Body(h)
        BY ONLY <1>4, <1>5, <2>1, <2>2
    <2> HIDE DEF Body
    <2> QED BY <2>3
<1>7. r = Body(r)
    <2> HIDE DEF Body
    <2> QED BY <1>6
<1> HIDE DEF r
<1>8. r[0] = h[0] /\ \A i \in 1 .. n : r[i - 1] = h[i - 1] => r[i] = h[i]
    BY <1>2, <1>4, <1>5, <1>7
<1>9. \A i \in 0 .. n : r[i] = h[i]
    <2> DEFINE P == {i \in 0 .. n : r[i] = h[i]}
    <2>1. 0 \in P /\ \A i \in 1 .. n : i - 1 \in P => i \in P
        BY <1>2, <1>8
    <2> HIDE DEF P
    <2>2. n \in Nat
        BY <1>2
    <2>3. 0 .. n \subseteq P
        BY <2>1, <2>2, InductionUp
    <2> QED BY <2>3 DEF P
<1>10. r[n] = g[n] % m
    BY <1>2, <1>9 DEF h
<1> QED BY <1>1, <1>10 DEF n, m

\* Digit j of a text from its end, which is 0 before its begin; the bytes that hold
\* those before digit i, two in each.
FromEnd(digits, j) == IF j < Len(digits) THEN digits[Len(digits) - j] ELSE 0
Nibble(digits, i, j) == IF j < i THEN FromEnd(digits, j) ELSE 0
Bytewise(digits, size, i) ==
    [k \in 1 .. size |-> Nibble(digits, i, 2 * k - 2) + 16 * Nibble(digits, i, 2 * k - 1)]

\* One round of sv2int_hex_helper adds a digit.
LEMMA NibblePut ==
    ASSUME NEW digits \in Seq(Nat), NEW size \in Nat, NEW i \in 1 .. Len(digits),
           Len(digits) <= 2 * size
    PROVE  PutNibble(Bytewise(digits, size, i - 1), i - 1, digits[Len(digits) + 1 - i])
             = Bytewise(digits, size, i)
<1> DEFINE n == Len(digits)
           j == i - 1
           q == j \div 2
           odd == j % 2
           d == digits[n + 1 - i]
           old == Bytewise(digits, size, j)
           new == Bytewise(digits, size, i)
           byte == old[q + 1] + 16 * d
           put == IF odd = 0 THEN byte \div 16 ELSE byte
<1>1. n \in Nat /\ i \in 1 .. n /\ \A k \in 1 .. n : digits[k] \in Nat
    OBVIOUS
<1>2. j \in Nat /\ j < n /\ i = j + 1 /\ n + 1 - i = n - j /\ n - j \in 1 .. n
    BY <1>1
<1>3. odd \in 0 .. 1 /\ q \in Int /\ j = 2 * q + odd
    <2>1. 2 \in Nat \ {0} /\ j \in Nat
        BY <1>2
    <2>2. odd \in 0 .. 2 - 1 /\ q \in Int /\ j = 2 * q + odd
        BY <2>1, DivMod
    <2> QED BY <2>2
<1>4. d = FromEnd(digits, j) /\ d \in Nat
    BY <1>1, <1>2 DEF FromEnd
<1>5. \A k \in Nat : FromEnd(digits, k) \in Nat
    <2> SUFFICES ASSUME NEW k \in Nat PROVE FromEnd(digits, k) \in Nat
        OBVIOUS
    <2>1. CASE k < n
        <3>1. n - k \in 1 .. n
            BY <1>1, <2>1
        <3> QED BY <1>1, <2>1, <3>1 DEF FromEnd
    <2> QED BY <2>1 DEF FromEnd
<1> HIDE DEF n, j, q, odd, d
<1>6. q + 1 \in 1 .. size
    BY <1>1, <1>2, <1>3 DEF n
<1>7. \A k \in 1 .. size :
         /\ old[k] = Nibble(digits, j, 2 * k - 2) + 16 * Nibble(digits, j, 2 * k - 1)
         /\ new[k] = Nibble(digits, i, 2 * k - 2) + 16 * Nibble(digits, i, 2 * k - 1)
    BY DEF Bytewise
<1>8. \A k \in 1 .. size : k # q + 1 => new[k] = old[k]
    <2> SUFFICES ASSUME NEW k \in 1 .. size, k # q + 1 PROVE new[k] = old[k]
        OBVIOUS
    <2>1. 2 * k - 2 # j /\ 2 * k - 1 # j
        BY <1>2, <1>3
    <2>2. \A m \in Int : m # j => Nibble(digits, i, m) = Nibble(digits, j, m)
        BY <1>2 DEF Nibble
    <2>3. 2 * k - 2 \in Int /\ 2 * k - 1 \in Int
        OBVIOUS
    <2> QED BY <1>7, <2>1, <2>2, <2>3
<1>9. put = new[q + 1]
    <2>1. CASE odd = 0
        <3>1. 2 * (q + 1) - 2 = j /\ 2 * (q + 1) - 1 = j + 1
            BY <1>2, <1>3, <2>1
        <3>2. /\ Nibble(digits, j, j) = 0 /\ Nibble(digits, j, j + 1) = 0
              /\ Nibble(digits, i, j) = d /\ Nibble(digits, i, j + 1) = 0
            BY <1>2, <1>4 DEF Nibble
        <3>3. old[q + 1] = 0 /\ new[q + 1] = d
            BY <1>4, <1>6, <1>7, <3>1, <3>2
        <3>4. byte = 16 * d
            BY <1>4, <3>3
        <3>5. (16 * d) \div 16 = d
            BY <1>4
        <3> QED BY <2>1, <3>3, <3>4, <3>5
    <2>2. CASE odd = 1
        <3>1. 2 * (q + 1) - 2 = j - 1 /\ 2 * (q + 1) - 1 = j /\ j - 1 \in Nat
            BY <1>2, <1>3, <2>2
        <3>2. /\ Nibble(digits, j, j - 1) = FromEnd(digits, j - 1) /\ Nibble(digits, j, j) = 0
              /\ Nibble(digits, i, j - 1) = FromEnd(digits, j - 1) /\ Nibble(digits, i, j) = d
            BY <1>2, <1>4 DEF Nibble
        <3>3. FromEnd(digits, j - 1) \in Nat
            BY <1>5, <3>1
        <3>4. /\ old[q + 1] = FromEnd(digits, j - 1) + 16 * 0
              /\ new[q + 1] = FromEnd(digits, j - 1) + 16 * d
            BY <1>6, <1>7, <3>1, <3>2
        <3> QED BY <1>4, <2>2, <3>3, <3>4
    <2> QED BY <1>3, <2>1, <2>2
<1>10. PutNibble(old, j, d) = [old EXCEPT ![q + 1] = put]
    BY DEF PutNibble, q, odd
<1> HIDE DEF put
<1>11. [old EXCEPT ![q + 1] = put] = new
    <2>1. old = [k \in 1 .. size |-> old[k]] /\ new = [k \in 1 .. size |-> new[k]]
        BY DEF Bytewise
    <2> HIDE DEF old, new
    <2> QED BY <1>6, <1>8, <1>9, <2>1
<1> QED BY <1>10, <1>11 DEF j, d, n

LEMMA HelperBytes ==
    ASSUME NEW digits \in Seq(Nat), NEW size \in Nat, sv2int_hex_helper(digits, size) # <<>>
    PROVE  /\ Len(digits) <= 2 * size
           /\ sv2int_hex_helper(digits, size) = Bytewise(digits, size, Len(digits))
<1> DEFINE n == Len(digits)
           zeros == [k \in 1 .. size |-> 0]
           Body(f) == [i \in 0 .. n |->
                         IF i = 0 THEN zeros ELSE PutNibble(f[i - 1], i - 1, digits[n + 1 - i])]
           b == CHOOSE f : f = Body(f)
           h == [i \in 0 .. n |-> Bytewise(digits, size, i)]
           refused == n > 2 * size \/ \E i \in DOMAIN digits : ~is_hex_digit(digits[i])
<1>1. sv2int_hex_helper(digits, size) = IF refused THEN <<>> ELSE b[n]
    BY Zenon DEF sv2int_hex_helper
<1>2. ~refused
    BY <1>1
<1>3. n \in Nat /\ n <= 2 * size
    <2>1. n \in Nat
        OBVIOUS
    <2>2. ~(n > 2 * size)
        BY <1>2
    <2> QED BY <2>1, <2>2
<1>4. sv2int_hex_helper(digits, size) = b[n]
    BY <1>1, <1>2
<1> HIDE DEF refused, b
<1>5. h[0] = zeros
    <2>1. Bytewise(digits, size, 0) = zeros
        <3>1. ASSUME NEW k \in 1 .. size
              PROVE  Nibble(digits, 0, 2 * k - 2) + 16 * Nibble(digits, 0, 2 * k - 1) = 0
            <4>1. Nibble(digits, 0, 2 * k - 2) = 0 /\ Nibble(digits, 0, 2 * k - 1) = 0
                BY DEF Nibble
            <4> QED BY <4>1
        <3> QED BY <3>1 DEF Bytewise
    <2> QED BY <1>3, <2>1
<1>6. ASSUME NEW i \in 1 .. n PROVE h[i] = PutNibble(h[i - 1], i - 1, digits[n + 1 - i])
    <2>1. i - 1 \in 0 .. n /\ i \in 0 .. n
        BY <1>3
    <2>2. h[i - 1] = Bytewise(digits, size, i - 1) /\ h[i] = Bytewise(digits, size, i)
        BY <2>1
    <2> HIDE DEF h
    <2> QED BY <1>3, <2>2, NibblePut
<1>7. \E f : f = Body(f)
    <2>1. h = [i \in 0 .. n |-> h[i]]
        OBVIOUS
    <2>2. \A i \in 0 .. n : i = 0 \/ i \in 1 .. n
        BY <1>3
    <2> HIDE DEF h, zeros
    <2>3. h = Body(h)
        BY ONLY <1>5, <1>6, <2>1, <2>2
    <2> HIDE DEF Body
    <2> QED BY <2>3
<1>8. b = Body(b)
    <2> HIDE DEF Body
    <2> QED BY <1>7 DEF b
<1> HIDE DEF h, zeros
<1>9. \A i \in 0 .. n : b[i] = h[i]
    <2> DEFINE P == {i \in 0 .. n : b[i] = h[i]}
    <2>1. 0 \in P
        BY <1>3, <1>5, <1>8
    <2>2. \A i \in 1 .. n : i - 1 \in P => i \in P
        <3> SUFFICES ASSUME NEW i \in 1 .. n, b[i - 1] = h[i - 1] PROVE b[i] = h[i]
            BY <1>3
        <3>1. i \in 0 .. n /\ i # 0
            BY <1>3
        <3>2. b[i] = PutNibble(b[i - 1], i - 1, digits[n + 1 - i])
            BY <1>8, <3>1
        <3> QED BY <1>6, <3>2
    <2> HIDE DEF P
    <2>3. 0 .. n \subseteq P
        BY <1>3, <2>1, <2>2, InductionUp
    <2> QED BY <2>3 DEF P
<1>10. b[n] = Bytewise(digits, size, n)
    BY <1>3, <1>9 DEF h
<1> QED BY <1>3, <1>4, <1>10

\* The bytes that hold all digits are those of the number that the digits denote.
LEMMA BytesDenote ==
    ASSUME NEW digits \in Seq(Nat), NEW size \in Nat, Len(digits) <= 2 * size,
           NEW g, Upto(g, 16, digits)
    PROVE  LittleEndian(Bytewise(digits, size, Len(digits))) = g[Len(digits)]
<1> DEFINE n == Len(digits)
           bytes == Bytewise(digits, size, n)
           Body(f) == [k \in 1 .. Len(bytes) + 1 |->
                         IF k > Len(bytes) THEN 0 ELSE bytes[k] + 256 * f[k + 1]]
           v == CHOOSE f : f = Body(f)
           D(k) == n + 2 - 2 * k
           h == [k \in 1 .. size + 1 |-> IF D(k) <= 0 THEN 0 ELSE g[D(k)]]
<1>1. n \in Nat /\ n <= 2 * size /\ \A k \in 1 .. n : digits[k] \in Nat
    OBVIOUS
<1>2. /\ g \in [0 .. n -> Nat] /\ g[0] = 0
      /\ \A i \in 1 .. n : g[i] = 16 * g[i - 1] + digits[i]
    BY DEF Upto
<1>3. Len(bytes) = size
    <2> DEFINE S == {bytes[k] : k \in 1 .. size}
    <2>1. bytes \in [1 .. size -> S]
        BY DEF Bytewise
    <2>2. DOMAIN bytes = 1 .. size
        BY DEF Bytewise
    <2> HIDE DEF bytes, S
    <2>3. bytes \in Seq(S)
        BY <2>1, SeqDef
    <2>4. DOMAIN bytes = 1 .. Len(bytes) /\ Len(bytes) \in Nat
        BY <2>3, LenProperties
    <2> QED BY <2>2, <2>4
<1>4. LittleEndian(bytes) = v[1]
    BY Zenon DEF LittleEndian
<1>5. \A k \in 1 .. size :
         bytes[k] = Nibble(digits, n, 2 * k - 2) + 16 * Nibble(digits, n, 2 * k - 1)
    BY DEF Bytewise
<1> HIDE DEF n, bytes, v
<1>6. h[size + 1] = 0
    BY <1>1
<1>7. ASSUME NEW k \in 1 .. size PROVE h[k] = bytes[k] + 256 * h[k + 1]
    <2>1. /\ k \in 1 .. size + 1 /\ k + 1 \in 1 .. size + 1 /\ D(k) \in Int /\ D(k + 1) = D(k) - 2
          /\ 2 * k - 2 = n - D(k) /\ 2 * k - 1 = n - (D(k) - 1)
          /\ 2 * k - 2 \in Nat /\ 2 * k - 1 \in Nat /\ D(k) <= n
        BY <1>1
    <2>2. /\ h[k] = (IF D(k) <= 0 THEN 0 ELSE g[D(k)])
          /\ h[k + 1] = (IF D(k + 1) <= 0 THEN 0 ELSE g[D(k + 1)])
        BY <2>1
    <2> DEFINE m == D(k)
    <2>3. /\ m \in Int /\ m <= n /\ D(k + 1) = m - 2
          /\ 2 * k - 2 = n - m /\ 2 * k - 1 = n - (m - 1)
        BY <2>1
    <2> HIDE DEF m, h
    <2>4. /\ h[k] = (IF m <= 0 THEN 0 ELSE g[m])
          /\ h[k + 1] = (IF m - 2 <= 0 THEN 0 ELSE g[m - 2])
        BY <2>2, <2>3 DEF m
    <2> HIDE DEF D
    <2>5. bytes[k] = Nibble(digits, n, n - m) + 16 * Nibble(digits, n, n - (m - 1))
        BY <1>5, <2>3
    <2>6. CASE m <= 0
        <3>1. Nibble(digits, n, n - m) = 0 /\ Nibble(digits, n, n - (m - 1)) = 0
            BY <1>1, <2>3, <2>6 DEF Nibble
        <3> QED BY <2>3, <2>4, <2>5, <2>6, <3>1
    <2>7. CASE m = 1
        <3>1. n - 1 < n /\ n - (n - 1) = 1 /\ ~(n - (1 - 1) < n) /\ 1 \in 1 .. n
            BY <1>1, <2>3, <2>7
        <3>2. Nibble(digits, n, n - m) = digits[1] /\ Nibble(digits, n, n - (m - 1)) = 0
            BY <2>7, <3>1 DEF Nibble, FromEnd, n
        <3>3. g[1] = 16 * g[0] + digits[1] /\ digits[1] \in Nat
            BY <1>1, <1>2, <3>1
        <3>4. h[k] = g[1] /\ h[k + 1] = 0
            BY <2>4, <2>7
        <3> QED BY <1>2, <2>5, <3>2, <3>3, <3>4
    <2>8. CASE m >= 2
        <3>1. /\ n - m < n /\ n - (n - m) = m /\ n - (m - 1) < n /\ n - (n - (m - 1)) = m - 1
              /\ m \in 1 .. n /\ m - 1 \in 1 .. n /\ m - 2 \in 0 .. n /\ (m - 1) - 1 = m - 2
            BY <1>1, <2>3, <2>8
        <3>2. Nibble(digits, n, n - m) = digits[m] /\ Nibble(digits, n, n - (m - 1)) = digits[m - 1]
            BY <3>1 DEF Nibble, FromEnd, n
        <3>3. /\ g[m] = 16 * g[m - 1] + digits[m] /\ g[m - 1] = 16 * g[m - 2] + digits[m - 1]
              /\ digits[m] \in Nat /\ digits[m - 1] \in Nat /\ g[m - 2] \in Nat
            BY <1>1, <1>2, <3>1
        <3>4. h[k] = g[m] /\ h[k + 1] = g[m - 2]
            <4>1. CASE m = 2
                BY <1>2, <2>4, <4>1
            <4>2. CASE m # 2
                <5>1. ~(m <= 0) /\ ~(m - 2 <= 0)
                    BY <2>3, <2>8, <4>2
                <5> QED BY <2>4, <5>1
            <4> QED BY <4>1, <4>2
        <3>5. bytes[k] = digits[m] + 16 * digits[m - 1]
            BY <2>5, <3>2
        <3> DEFINE a == g[m - 2]
                   b == digits[m - 1]
                   c == digits[m]
        <3>6. /\ a \in Nat /\ b \in Nat /\ c \in Nat
              /\ g[m - 1] = 16 * a + b /\ g[m] = 16 * g[m - 1] + c
              /\ h[k + 1] = a /\ bytes[k] = c + 16 * b /\ h[k] = g[m]
            BY <3>3, <3>4, <3>5
        <3> HIDE DEF a, b, c
        <3>7. h[k] = 16 * (16 * a + b) + c
            BY <3>6
        <3>8. 16 * (16 * a + b) + c = (c + 16 * b) + 256 * a
            BY <3>6
        <3> QED BY <3>6, <3>7, <3>8
    <2> QED BY <2>3, <2>6, <2>7, <2>8
<1>8. h = [k \in 1 .. size + 1 |-> h[k]]
    OBVIOUS
<1> HIDE DEF h
<1>9. \E f : f = Body(f)
    <2>1. \A k \in 1 .. size + 1 : IF k > size THEN k = size + 1 ELSE k \in 1 .. size
        OBVIOUS
    <2>2. h = Body(h)
        BY <1>3, <1>6, <1>7, <1>8, <2>1, ZenonT(60)
    <2> HIDE DEF Body
    <2> QED BY <2>2
<1>10. v = Body(v)
    <2> HIDE DEF Body
    <2> QED BY <1>9 DEF v
<1>11. \A k \in 1 .. size + 1 : v[k] = h[k]
    <2> DEFINE P == {k \in 1 .. size + 1 : v[k] = h[k]}
    <2>1. size + 1 \in P
        BY <1>3, <1>6, <1>10
    <2>2. \A k \in 1 .. size : k + 1 \in P => k \in P
        <3> SUFFICES ASSUME NEW k \in 1 .. size, v[k + 1] = h[k + 1] PROVE v[k] = h[k]
            OBVIOUS
        <3>1. k \in 1 .. size + 1 /\ ~(k > size)
            OBVIOUS
        <3>2. v[k] = bytes[k] + 256 * v[k + 1]
            BY <1>3, <1>10, <3>1
        <3> QED BY <1>7, <3>2
    <2> HIDE DEF P
    <2>3. 1 .. size + 1 \subseteq P
        BY <2>1, <2>2, InductionDown
    <2> QED BY <2>3 DEF P
<1>12. h[1] = g[n]
    BY <1>1, <1>2 DEF h
<1> QED BY <1>4, <1>11, <1>12 DEF bytes, n

\* An integer is read from a text as the number that the text denotes; decimal digits
\* too many for it wrap, hexadecimal ones are refused (sv2int).
THEOREM Sv2intDenotes ==
    ASSUME NEW text \in Texts, NEW size \in Nat, sv2int(text, size) # NoInt
    PROVE  sv2int(text, size) = IF text.hex THEN Denotes(text)
                                ELSE Denotes(text) % Integers256(size)
<1> DEFINE digits == text.digits
<1>1. digits \in Seq(Nat)
    BY DEF Texts
<1>2. PICK g : /\ Upto(g, IF text.hex THEN 16 ELSE 10, digits)
               /\ Denotes(text) = g[Len(digits)]
    BY DenotesUpto
<1>3. CASE text.hex
    <2> DEFINE bytes == sv2int_hex_helper(digits, size)
    <2>1. bytes # <<>> /\ sv2int(text, size) = LittleEndian(bytes)
        BY <1>3 DEF sv2int
    <2> HIDE DEF digits
    <2>2. Len(digits) <= 2 * size /\ bytes = Bytewise(digits, size, Len(digits))
        BY <1>1, <2>1, HelperBytes
    <2>3. Upto(g, 16, digits)
        BY <1>2, <1>3
    <2>4. LittleEndian(bytes) = g[Len(digits)]
        BY <1>1, <2>2, <2>3, BytesDenote
    <2> QED BY <1>2, <1>3, <2>1, <2>4
<1>4. CASE ~text.hex
    <2>1. sv2int(text, size) = Accumulated(digits, size)
        BY <1>4 DEF sv2int
    <2> HIDE DEF digits
    <2>2. Upto(g, 10, digits)
        BY <1>2, <1>4
    <2>3. Accumulated(digits, size) = g[Len(digits)] % Integers256(size)
        BY <1>1, <2>2, AccumulatedWraps
    <2> QED BY <1>2, <1>4, <2>1, <2>3
<1> QED BY <1>3, <1>4

-----------------------------------------------------------------------------
(* The way to a property *)

LEMMA ImageIsSequence ==
    ASSUME Shape, NEW d, IsImage(d)
    PROVE  /\ d \in Seq(Range(d)) /\ Len(d) = Len(tree)
           /\ \A i \in 1 .. Len(tree) : d[i] \in Range(d)
<1> DEFINE m == Len(tree)
<1>1. d = [i \in 1 .. m |-> d[i]] /\ m \in Nat
    BY TreesAreTrees DEF IsImage
<1> HIDE DEF m
<1>2. d \in [1 .. m -> Range(d)]
    BY <1>1 DEF Range
<1>3. d \in Seq(Range(d))
    BY <1>1, <1>2, SeqDef
<1>4. DOMAIN d = 1 .. Len(d) /\ DOMAIN d = 1 .. m /\ Len(d) \in Nat
    BY <1>2, <1>3, LenProperties
<1>5. Len(d) = m
    BY <1>1, <1>4
<1>6. \A i \in 1 .. m : d[i] \in Range(d)
    BY <1>2
<1> QED BY <1>3, <1>5, <1>6 DEF m

Walked == tree[Root].nchildren

LEMMA ImageSize ==
    ASSUME NEW d, IsImage(d), NEW n \in DOMAIN tree, NEW p \in DOMAIN tree[n].props
    PROVE  d[n].props[p].size = Size(n, p)
<1>1. d[n].props[p] = [name |-> d[n].props[p].name, size |-> Size(n, p),
                       val |-> d[n].props[p].val]
    BY DEF IsImage
<1> QED BY ONLY <1>1

\* The nodes that are taken for the root's children.
LEMMA RootsChildren ==
    ASSUME Shape, NEW d, IsImage(d)
    PROVE  /\ Walked \in Nat /\ Walked + 1 <= Len(tree) /\ Len(Children(d, Root)) = Walked
           /\ \A i \in 1 .. Walked : Children(d, Root)[i] = d[i + 1]
<1> DEFINE S == Range(d)
<1>1. Root \in DOMAIN tree /\ Len(tree) \in Nat /\ DOMAIN tree = 1 .. Len(tree)
    BY TreesAreTrees DEF Root
<1>2. Walked \in Nat /\ 1 + Walked <= Len(tree)
    BY <1>1, TreesAreTrees DEF IsTree, Walked, Root
<1>3. d[Root].nchildren = Walked
    <2>1. d[Root] = [props |-> d[Root].props, nchildren |-> Walked, torn |-> d[Root].torn]
        BY <1>1 DEF IsImage, Walked
    <2> QED BY ONLY <2>1
<1>4. d \in Seq(S) /\ Len(d) = Len(tree) /\ \A i \in 1 .. Len(tree) : d[i] \in S
    BY ImageIsSequence
<1> HIDE DEF S
<1>5. Children(d, Root) = SubSeq(d, 2, 1 + Walked)
    BY <1>3 DEF Children, Root
<1>6. \A i \in 2 .. 1 + Walked : d[i] \in S
    BY <1>1, <1>2, <1>4
<1>7. /\ Len(SubSeq(d, 2, 1 + Walked)) = Walked
      /\ \A i \in 1 .. Walked : SubSeq(d, 2, 1 + Walked)[i] = d[i + 1]
    <2> DEFINE b == 1 + Walked
    <2>1. b \in Int /\ 2 \in Int /\ 2 <= b + 1 /\ b - 2 + 1 = Walked
        BY <1>2
    <2>2. \A i \in 2 .. b : d[i] \in S
        BY <1>6
    <2> HIDE DEF b
    <2>3. /\ Len(SubSeq(d, 2, b)) = IF 2 <= b THEN b - 2 + 1 ELSE 0
          /\ \A i \in 1 .. b - 2 + 1 : SubSeq(d, 2, b)[i] = d[2 + i - 1]
        BY <2>1, <2>2, SubSeqProperties
    <2>4. Len(SubSeq(d, 2, b)) = Walked
        BY <1>2, <2>1, <2>3
    <2>5. \A i \in 1 .. Walked : 2 + i - 1 = i + 1
        BY <1>2
    <2> QED BY <2>1, <2>3, <2>4, <2>5 DEF b
<1> QED BY <1>2, <1>5, <1>7

\* Property p is the first of node n that has the name.
IsFirst(d, n, name, p) ==
    /\ ~d[n].torn /\ p \in DOMAIN tree[n].props /\ d[n].props[p].name = name
    /\ \A q \in DOMAIN tree[n].props : q < p => d[n].props[q].name # name

LEMMA PropertyIsFirst ==
    ASSUME Shape, NEW d, IsImage(d), NEW n \in DOMAIN tree, NEW name
    PROVE  /\ PropertyNamed(d[n], name) # Nil => IsFirst(d, n, name, PropertyNamed(d[n], name))
           /\ \A p : IsFirst(d, n, name, p) => PropertyNamed(d[n], name) = p
           /\ PropertyNamed(d[n], name) = Nil /\ ~d[n].torn =>
                 \A p \in DOMAIN tree[n].props : d[n].props[p].name # name
<1> DEFINE ps == properties(d[n])
           I == {i \in 1 .. Len(ps) : ps[i].name = name}
           m == Len(tree[n].props)
<1>1. PropertyNamed(d[n], name) = IF I # {} THEN Min(I) ELSE 0
    BY DEF PropertyNamed, SelectInSeq
<1>2. m \in Nat /\ DOMAIN tree[n].props = 1 .. m
    BY TreesAreTrees
<1>3. I = IF d[n].torn THEN {} ELSE {i \in 1 .. m : d[n].props[i].name = name}
    <2>1. Len(d[n].props) = m
        BY ImageLength
    <2>2. CASE d[n].torn
        <3>1. Len(ps) = 0
            BY <2>2 DEF properties
        <3> HIDE DEF ps
        <3> QED BY <2>2, <3>1
    <2>3. CASE ~d[n].torn
        <3>1. ps = d[n].props
            BY <2>3 DEF properties
        <3> HIDE DEF ps, m
        <3> QED BY <2>1, <2>3, <3>1
    <2> QED BY <2>2, <2>3
<1> HIDE DEF I, m
<1>4. I \subseteq Nat
    BY <1>2, <1>3
<1>5. PropertyNamed(d[n], name) # Nil => IsFirst(d, n, name, PropertyNamed(d[n], name))
    <2> SUFFICES ASSUME PropertyNamed(d[n], name) # Nil
                 PROVE  IsFirst(d, n, name, PropertyNamed(d[n], name))
        OBVIOUS
    <2> DEFINE p == PropertyNamed(d[n], name)
    <2>1. I # {} /\ p = Min(I)
        BY <1>1 DEF Nil
    <2>2. p \in I /\ \A y \in I : p <= y
        BY <1>4, <2>1, FirstIndex
    <2> HIDE DEF p
    <2>3. ~d[n].torn /\ I = {i \in 1 .. m : d[n].props[i].name = name}
        BY <1>3, <2>1
    <2>4. p \in 1 .. m /\ d[n].props[p].name = name
        BY <2>2, <2>3
    <2>5. ASSUME NEW q \in 1 .. m, q < p PROVE d[n].props[q].name # name
        <3>1. q \notin I
            BY <1>2, <2>2, <2>4, <2>5
        <3> QED BY <2>3, <3>1
    <2>6. IsFirst(d, n, name, p)
        BY <1>2, <2>3, <2>4, <2>5 DEF IsFirst
    <2> QED BY <2>6 DEF p
<1>6. ASSUME NEW p, IsFirst(d, n, name, p) PROVE PropertyNamed(d[n], name) = p
    <2>1. /\ ~d[n].torn /\ p \in 1 .. m /\ d[n].props[p].name = name
          /\ \A q \in 1 .. m : q < p => d[n].props[q].name # name
        BY <1>2, <1>6 DEF IsFirst
    <2>2. p \in I /\ \A y \in I : y \in 1 .. m /\ ~(y < p)
        BY <1>3, <2>1
    <2>3. Min(I) \in I /\ Min(I) <= p
        BY <1>4, <2>2, FirstIndex
    <2>5. I # {}
        BY <2>2
    <2> HIDE DEF I
    <2>6. Min(I) \in 1 .. m /\ ~(Min(I) < p) /\ Min(I) <= p
        BY <2>2, <2>3
    <2>4. Min(I) = p
        BY <1>2, <2>1, <2>6
    <2> QED BY <1>1, <2>4, <2>5
<1>7. ASSUME PropertyNamed(d[n], name) = Nil, ~d[n].torn, NEW p \in 1 .. m
      PROVE  d[n].props[p].name # name
    <2>1. I # {} => Min(I) \in 1 .. m
        BY <1>3, <1>4, FirstIndex
    <2>2. 0 \notin 1 .. m
        OBVIOUS
    <2>3. I = {}
        BY <1>1, <1>7, <2>1, <2>2 DEF Nil
    <2> QED BY <1>3, <1>7, <2>3
<1> QED BY <1>2, <1>5, <1>6, <1>7

\* The walk from the root reaches node m by a component.
Leads(d, m, component) ==
    /\ m \in 2 .. 1 + Walked
    /\ IsNamed(d[m], component)
    /\ \A k \in 2 .. m - 1 : ~IsNamed(d[k], component)
    /\ \A k \in 2 .. m : ~d[k].torn

LEMMA ChildLeads ==
    ASSUME Shape, NEW d, IsImage(d), NEW c
    PROVE  /\ ChildNamed(d, Root, c) \notin {Nil, Undefined} => Leads(d, ChildNamed(d, Root, c), c)
           /\ \A m : Leads(d, m, c) => ChildNamed(d, Root, c) = m
<1> DEFINE cs == Children(d, Root)
           I == {i \in 1 .. Len(cs) : IsNamed(cs[i], c)}
           T == {i \in 1 .. Len(cs) : cs[i].torn}
           found == SelectInSeq(cs, LAMBDA x : IsNamed(x, c))
           tear == SelectInSeq(cs, LAMBDA x : x.torn)
           child == ChildNamed(d, Root, c)
           w == Walked
<1>1. found = (IF I # {} THEN Min(I) ELSE 0) /\ tear = (IF T # {} THEN Min(T) ELSE 0)
    BY DEF SelectInSeq
<1>2. child = IF found # Nil /\ (tear = Nil \/ found < tear) THEN Root + found
              ELSE IF tear # Nil /\ tear < Len(cs) THEN Undefined ELSE Nil
    BY DEF ChildNamed
<1>3. w \in Nat /\ Len(cs) = w /\ \A i \in 1 .. w : cs[i] = d[i + 1]
    BY RootsChildren
<1> HIDE DEF found, tear, child, cs, w
<1>4. I = {i \in 1 .. w : IsNamed(d[i + 1], c)} /\ T = {i \in 1 .. w : d[i + 1].torn}
    BY <1>3
<1>5. I \subseteq Nat /\ T \subseteq Nat
    BY <1>3, <1>4
<1>6. I # {} => Min(I) \in I /\ \A y \in I : Min(I) <= y
    <2> HIDE DEF I
    <2> QED BY <1>5, FirstIndex
<1>7. T # {} => Min(T) \in T /\ \A y \in T : Min(T) <= y
    <2> HIDE DEF T
    <2> QED BY <1>5, FirstIndex
<1> HIDE DEF I, T
<1>8. ASSUME child \notin {Nil, Undefined} PROVE Leads(d, child, c)
    <2>1. child = 1 + found /\ found # Nil /\ (tear = Nil \/ found < tear)
        BY <1>2, <1>8 DEF Root
    <2>2. I # {} /\ found = Min(I)
        BY <1>1, <2>1 DEF Nil
    <2>3. found \in I /\ \A y \in I : found <= y
        BY <1>6, <2>2
    <2>4. found \in 1 .. w /\ IsNamed(d[found + 1], c)
        BY <1>4, <2>3
    <2>5. ASSUME NEW k \in 2 .. child - 1 PROVE ~IsNamed(d[k], c)
        <3>1. k - 1 \in 1 .. w /\ k - 1 < found /\ (k - 1) + 1 = k
            BY <1>3, <2>1, <2>4, <2>5
        <3>2. k - 1 \notin I
            BY <2>3, <2>4, <3>1
        <3> QED BY <1>4, <3>1, <3>2
    <2>6. ASSUME NEW k \in 2 .. child PROVE ~d[k].torn
        <3>1. k - 1 \in 1 .. w /\ k - 1 <= found /\ (k - 1) + 1 = k
            BY <1>3, <2>1, <2>4, <2>6
        <3>2. k - 1 \notin T
            <4> SUFFICES ASSUME k - 1 \in T PROVE FALSE
                OBVIOUS
            <4>1. tear = Min(T) /\ tear \in T /\ tear <= k - 1
                BY <1>1, <1>7
            <4>2. tear \in Nat \ {0}
                BY <1>3, <1>4, <4>1
            <4> QED BY <2>1, <2>4, <3>1, <4>1, <4>2 DEF Nil
        <3> QED BY <1>4, <3>1, <3>2
    <2>7. child \in 2 .. 1 + w /\ child = found + 1
        BY <1>3, <2>1, <2>4
    <2> QED BY <2>4, <2>5, <2>6, <2>7 DEF Leads, w
<1>9. ASSUME NEW m, Leads(d, m, c) PROVE child = m
    <2>1. /\ m \in 2 .. 1 + w /\ IsNamed(d[m], c)
          /\ \A k \in 2 .. m - 1 : ~IsNamed(d[k], c)
          /\ \A k \in 2 .. m : ~d[k].torn
        BY <1>9 DEF Leads, w
    <2>2. m - 1 \in 1 .. w /\ (m - 1) + 1 = m
        BY <1>3, <2>1
    <2>3. m - 1 \in I
        BY <1>4, <2>1, <2>2
    <2>4. found \in I /\ found <= m - 1 /\ found = Min(I)
        BY <1>1, <1>6, <2>3
    <2>5. found \in 1 .. w /\ IsNamed(d[found + 1], c)
        BY <1>4, <2>4
    <2>6. ~(found < m - 1)
        <3> SUFFICES ASSUME found < m - 1 PROVE FALSE
            OBVIOUS
        <3>1. found + 1 \in 2 .. m - 1
            BY <1>3, <2>1, <2>5
        <3> QED BY <2>1, <2>5, <3>1
    <2>7. found = m - 1
        BY <1>3, <2>1, <2>4, <2>5, <2>6
    <2>8. tear = Nil \/ found < tear
        <3>1. CASE T = {}
            BY <1>1, <3>1 DEF Nil
        <3>2. CASE T # {}
            <4>1. tear \in T
                BY <1>1, <1>7, <3>2
            <4>2. tear \in 1 .. w /\ d[tear + 1].torn
                BY <1>4, <4>1
            <4>3. tear + 1 \notin 2 .. m
                BY <2>1, <4>2
            <4> QED BY <1>3, <2>1, <2>7, <4>2, <4>3
        <3> QED BY <3>1, <3>2
    <2>9. found # Nil /\ Root + found = m
        BY <2>1, <2>5, <2>7 DEF Nil, Root
    <2> QED BY <1>2, <2>8, <2>9
<1> QED BY <1>8, <1>9 DEF child

\* Every component of a path leads from node n to a child.
Goes(d, n, path) == \A i \in 1 .. Len(path) : ChildNamed(d, n, path[i]) \notin {Nil, Undefined}

LEMMA LookupGoes ==
    ASSUME NEW d, NEW n, n \notin {Nil, Undefined}, NEW S, NEW path \in Seq(S)
    PROVE  /\ LookupNode(d, n, path) \notin {Nil, Undefined} <=> Goes(d, n, path)
           /\ Goes(d, n, path) =>
                 LookupNode(d, n, path) = IF path = <<>> THEN n
                                          ELSE ChildNamed(d, n, path[Len(path)])
<1> DEFINE m == Len(path)
           End == {Nil, Undefined}
           C(k) == ChildNamed(d, n, path[k])
<1>1. PICK w : /\ w[0] = n /\ w[m] = LookupNode(d, n, path)
               /\ \A k \in 1 .. m : w[k] = IF w[k - 1] \in End THEN w[k - 1] ELSE C(k)
    BY LookupPasses
<1>2. m \in Nat /\ (path = <<>> <=> m = 0)
    BY LenProperties, EmptySeq
<1>3. Goes(d, n, path) <=> \A i \in 1 .. m : C(i) \notin End
    BY DEF Goes
<1> HIDE DEF m, C, End
<1> DEFINE P == {k \in Nat : k <= m =>
                    /\ w[k] \notin End <=> \A i \in 1 .. k : C(i) \notin End
                    /\ w[k] \notin End => w[k] = IF k = 0 THEN n ELSE C(k)}
<1>4. 0 \in P
    BY <1>1 DEF End
<1>5. ASSUME NEW k \in Nat, k \in P PROVE k + 1 \in P
    <2> SUFFICES ASSUME k + 1 <= m
                 PROVE  /\ w[k + 1] \notin End <=> \A i \in 1 .. k + 1 : C(i) \notin End
                        /\ w[k + 1] \notin End => w[k + 1] = C(k + 1)
        OBVIOUS
    <2>1. w[k] \notin End <=> \A i \in 1 .. k : C(i) \notin End
        BY <1>2, <1>5
    <2>2. w[k + 1] = IF w[k] \in End THEN w[k] ELSE C(k + 1)
        <3>1. k + 1 \in 1 .. m /\ (k + 1) - 1 = k
            BY <1>2
        <3> QED BY <1>1, <3>1
    <2>3. 1 .. k + 1 = (1 .. k) \cup {k + 1}
        OBVIOUS
    <2> QED BY <2>1, <2>2, <2>3
<1>6. m \in P
    <2> HIDE DEF P
    <2> QED BY <1>2, <1>4, <1>5, Induction
<1> QED BY <1>1, <1>2, <1>3, <1>6 DEF m, C, End

\* Two trees in memory give node k the same name.
LEMMA SameName ==
    ASSUME Shape, NEW d, IsImage(d), NEW e, IsImage(e), NEW k \in DOMAIN tree,
           ~d[k].torn, ~e[k].torn,
           LET f == PropertyNamed(d[k], "name")
           IN f # Nil => /\ e[k].props[f].name = "name"
                         /\ e[k].props[f].val = d[k].props[f].val,
           \A q \in DOMAIN tree[k].props :
               e[k].props[q].name = "name" => d[k].props[q].name = "name"
    PROVE  \A c : IsNamed(e[k], c) <=> IsNamed(d[k], c)
<1> DEFINE f == PropertyNamed(d[k], "name")
           g == PropertyNamed(e[k], "name")
<1>1. CASE f # Nil
    <2>1. IsFirst(d, k, "name", f)
        BY <1>1, PropertyIsFirst
    <2>2. IsFirst(e, k, "name", f)
        BY <1>1, <2>1 DEF IsFirst
    <2>3. g = f
        BY <2>2, PropertyIsFirst
    <2> QED BY <1>1, <2>3 DEF IsNamed
<1>2. CASE f = Nil
    <2>1. \A q \in DOMAIN tree[k].props : d[k].props[q].name # "name"
        BY <1>2, PropertyIsFirst
    <2>2. g # Nil => IsFirst(e, k, "name", g)
        BY PropertyIsFirst
    <2>3. g = Nil
        BY <2>1, <2>2 DEF IsFirst
    <2> QED BY <1>2, <2>3 DEF IsNamed
<1> QED BY <1>1, <1>2

\* SetAt, said of one node.
LEMMA SetKeeps ==
    ASSUME NEW e, NEW n, NEW p, NEW word, SetAt(e, n, p, word), NEW m \in DOMAIN tree
    PROVE  /\ e[m].torn => dt[m].torn \/ (Size(n, p) = 4 /\ p = Len(tree[n].props) /\ m = n + 1)
           /\ \A q \in DOMAIN tree[m].props :
                 /\ ~(m = n /\ q = p) => e[m].props[q].val = dt[m].props[q].val
                 /\ ~(Size(n, p) = 4 /\ m = n /\ q = p + 1) =>
                       e[m].props[q].name = dt[m].props[q].name
                 /\ e[m].props[q].name = "name" => dt[m].props[q].name = "name"
<1>1. e[m].torn => dt[m].torn \/ (Size(n, p) = 4 /\ p = Len(tree[n].props) /\ m = n + 1)
    BY DEF SetAt
<1>2. ASSUME NEW q \in DOMAIN tree[m].props
      PROVE  /\ ~(m = n /\ q = p) => e[m].props[q].val = dt[m].props[q].val
             /\ ~(Size(n, p) = 4 /\ m = n /\ q = p + 1) =>
                   e[m].props[q].name = dt[m].props[q].name
             /\ e[m].props[q].name = "name" => dt[m].props[q].name = "name"
    <2>1. e[m].props[q].val = IF m = n /\ q = p THEN word ELSE dt[m].props[q].val
        BY DEF SetAt
    <2>2. \/ e[m].props[q].name = dt[m].props[q].name
          \/ /\ e[m].props[q].name = ""
             /\ Size(n, p) = 4 /\ m = n /\ q = p + 1
        BY Zenon DEF SetAt
    <2>3. "name" # ""
        OBVIOUS
    <2>4. e[m].props[q].name = "name" => dt[m].props[q].name = "name"
        BY ONLY <2>2, <2>3
    <2> QED BY ONLY <2>1, <2>2, <2>4
<1> QED BY ONLY <1>1, <1>2

\* What a patch has set is found again where it was found, unless that cuts the path.
LEMMA PatchIsFound ==
    ASSUME Shape, NEW S, NEW path \in Seq(S), NEW name, NEW n, NEW p, p # Nil,
           LookupProperty(dt, Root, path, name) = <<n, p>>,
           NEW e, NEW word, SetAt(e, n, p, word), ~CutsPath(dt, path, n, p)
    PROVE  LookupProperty(e, Root, path, name) = <<n, p>>
<1> DEFINE c(i) == ChildNamed(dt, Root, path[i])
           f == PropertyNamed(dt[n], "name")
<1>1. Root \in DOMAIN tree /\ Root \notin {Nil, Undefined} /\ Root = 1
    BY TreesAreTrees DEF Root, Nil, Undefined
<1>2. IsImage(dt) /\ IsImage(e)
    BY DEF Shape, SetAt
<1>3. /\ n \in DOMAIN tree /\ p \in DOMAIN tree[n].props
      /\ dt[n].props[p].name = name /\ ~dt[n].torn
    <2>1. FoundAt(<<n, p>>, name)
        BY PropertyFound
    <2> QED BY <2>1 DEF FoundAt
<1>4. /\ LookupNode(dt, Root, path) = n /\ n \notin {Nil, Undefined}
      /\ PropertyNamed(dt[n], name) = p
    BY DEF LookupProperty
<1>5. /\ Goes(dt, Root, path)
      /\ n = IF path = <<>> THEN Root ELSE ChildNamed(dt, Root, path[Len(path)])
    BY <1>1, <1>4, LookupGoes
<1>6. n \in Nat /\ n # n + 1 /\ p \in Nat /\ p # p + 1 /\ Len(tree) \in Nat /\ DOMAIN tree = 1 .. Len(tree)
    BY <1>3, TreesAreTrees
<1>7. dt[n].props[p].size = Size(n, p) /\ Len(dt[n].props) = Len(tree[n].props)
    BY <1>2, <1>3, ImageLength, ImageSize
<1>8. ASSUME NEW i \in 1 .. Len(path) PROVE ChildNamed(e, Root, path[i]) = c(i)
    <2>1. Leads(dt, c(i), path[i])
        BY <1>2, <1>5, ChildLeads DEF Goes
    <2>2. path # <<>> /\ path[i] \in Range(path)
        <3>1. i \in DOMAIN path
            BY LenProperties
        <3> QED BY <3>1 DEF Range
    <2>3. /\ p # f /\ ~(Size(n, p) = 4 /\ p + 1 = f)
          /\ ~(Size(n, p) = 4 /\ p = Len(tree[n].props) /\ c(i) > n)
        BY <1>7, <2>2 DEF CutsPath, FourBytes
    <2> HIDE DEF c, f
    <2>4. /\ c(i) \in 2 .. 1 + Walked /\ IsNamed(dt[c(i)], path[i])
          /\ \A k \in 2 .. c(i) - 1 : ~IsNamed(dt[k], path[i])
          /\ \A k \in 2 .. c(i) : ~dt[k].torn
        BY <2>1 DEF Leads
    <2>5. Walked \in Nat /\ 1 + Walked <= Len(tree)
        BY <1>2, RootsChildren
    <2>6. ASSUME NEW k \in 2 .. c(i)
          PROVE  ~e[k].torn /\ (IsNamed(e[k], path[i]) <=> IsNamed(dt[k], path[i]))
        <3>1. k \in DOMAIN tree /\ k <= c(i)
            BY <1>6, <2>4, <2>5
        <3>2. ~dt[k].torn
            BY <2>4
        <3>3. ~e[k].torn
            <4>1. k = n + 1 => c(i) > n
                BY <1>6, <2>4, <2>5, <3>1
            <4> QED BY <2>3, <3>1, <3>2, <4>1, SetKeeps
        <3>4. ASSUME PropertyNamed(dt[k], "name") # Nil
              PROVE  /\ e[k].props[PropertyNamed(dt[k], "name")].name = "name"
                     /\ e[k].props[PropertyNamed(dt[k], "name")].val
                           = dt[k].props[PropertyNamed(dt[k], "name")].val
            <4> DEFINE g == PropertyNamed(dt[k], "name")
            <4>1. g \in DOMAIN tree[k].props /\ dt[k].props[g].name = "name"
                BY <3>1, <3>4, FoundProperty
            <4>2. k = n => g = f
                BY DEF f
            <4> HIDE DEF g
            <4>3. ~(k = n /\ g = p) /\ ~(Size(n, p) = 4 /\ k = n /\ g = p + 1)
                BY <2>3, <4>2
            <4>4. e[k].props[g].name = dt[k].props[g].name /\ e[k].props[g].val = dt[k].props[g].val
                BY <3>1, <4>1, <4>3, SetKeeps
            <4> QED BY <4>1, <4>4 DEF g
        <3>5. \A q \in DOMAIN tree[k].props :
                 e[k].props[q].name = "name" => dt[k].props[q].name = "name"
            BY <3>1, SetKeeps
        <3>6. \A x : IsNamed(e[k], x) <=> IsNamed(dt[k], x)
            BY <1>2, <3>1, <3>2, <3>3, <3>4, <3>5, SameName
        <3> QED BY <3>3, <3>6
    <2>7. c(i) \in 2 .. c(i) /\ \A k \in 2 .. c(i) - 1 : k \in 2 .. c(i)
        BY <2>4, <2>5
    <2>8. Leads(e, c(i), path[i])
        BY <2>4, <2>6, <2>7 DEF Leads
    <2> QED BY <1>2, <2>8, ChildLeads
<1>9. LookupNode(e, Root, path) = n
    <2>1. Goes(e, Root, path)
        BY <1>5, <1>8 DEF Goes
    <2>2. path # <<>> => Len(path) \in 1 .. Len(path)
        BY LenProperties, EmptySeq
    <2>3. LookupNode(e, Root, path) = IF path = <<>> THEN Root
                                      ELSE ChildNamed(e, Root, path[Len(path)])
        BY <1>1, <2>1, LookupGoes
    <2> QED BY <1>5, <1>8, <2>2, <2>3
<1>10. PropertyNamed(e[n], name) = p
    <2>1. ~e[n].torn
        BY <1>3, <1>6, SetKeeps
    <2>2. IsFirst(dt, n, name, p)
        BY <1>2, <1>3, <1>4, PropertyIsFirst
    <2>3. e[n].props[p].name = name
        BY <1>3, <1>6, SetKeeps
    <2>4. ASSUME NEW q \in DOMAIN tree[n].props, q < p PROVE e[n].props[q].name # name
        <3>1. dt[n].props[q].name # name
            BY <2>2, <2>4 DEF IsFirst
        <3>2. q # p + 1
            BY <1>6, <2>4
        <3> QED BY <1>3, <3>1, <3>2, SetKeeps
    <2>5. IsFirst(e, n, name, p)
        BY <1>3, <2>1, <2>3, <2>4 DEF IsFirst
    <2> QED BY <1>2, <1>3, <2>5, PropertyIsFirst
<1> QED BY <1>4, <1>9, <1>10 DEF LookupProperty

LEMMA PatchIsEffective == TreeInv /\ PatchNext => TakesEffect
<1> SUFFICES ASSUME TreeInv, PatchNext,
                    Len(results') > Len(results), results'[Len(results')],
                    ~CutsPath(dt, group[Len(results')].path,
                              Target(dt, group[Len(results')])[1],
                              Target(dt, group[Len(results')])[2])
             PROVE  LET spec == group[Len(results')]
                        t == Target(dt, spec)
                    IN Target(dt', spec) = t /\ Same(spec.value, dt'[t[1]].props[t[2]])
    BY DEF TakesEffect
<1> DEFINE i == Len(results) + 1
           spec == group[i]
           t == Target(dt, spec)
           n == t[1]
           p == t[2]
           size == dt[n].props[p].size
           room == (size \div 4) * Word4
           word == sv2int(spec.value, room)
<1>1. /\ group \in Seq(PatchSpecs) /\ results \in Seq(BOOLEAN)
      /\ Len(group) \in Nat /\ Len(results) \in Nat /\ Len(results) < Len(group)
    BY LenProperties DEF TreeInv, GroupInv, PatchNext
<1>2. /\ results' = Append(results, Applies(dt, spec))
      /\ dt' = IF Applies(dt, spec) THEN Patched(dt, spec) ELSE dt
    <2>1. results' # results
        BY <1>1
    <2> QED BY <2>1, Zenon DEF PatchNext, Abort, printed
<1>3. Len(results') = i /\ results'[i] = Applies(dt, spec)
    <2>1. Applies(dt, spec) \in BOOLEAN
        BY DEF Applies
    <2> HIDE DEF spec
    <2> QED BY <1>1, <1>2, <2>1, AppendProperties
<1>4. Applies(dt, spec) /\ dt' = Patched(dt, spec) /\ ~CutsPath(dt, spec.path, n, p)
    BY <1>2, <1>3
<1>5. spec \in PatchSpecs
    <2>1. i \in 1 .. Len(group)
        BY <1>1
    <2> HIDE DEF i
    <2> QED BY <1>1, <2>1, ElementOfSeq
<1> SUFFICES Target(dt', spec) = t /\ Same(spec.value, dt'[n].props[p])
    BY <1>3
<1> HIDE DEF spec
<1>6. spec.path \in Seq(STRING) /\ spec.value \in Texts
    BY <1>5 DEF PatchSpecs, Texts
<1>7. p # Nil /\ Parsed(spec, size) # NoInt
    BY <1>4 DEF Applies
<1>8. size \in {4, 8} /\ word # NoInt /\ Parsed(spec, size) = word
    BY <1>7 DEF Parsed
<1>9. FoundAt(t, spec.name)
    BY <1>6, <1>7, PropertyFound, SMTT(60) DEF Target, TreeInv, TreeShape
<1>10. dt' = SetProperty(dt, n, p, word)
    BY <1>4, <1>8 DEF Patched
<1>11. n \in DOMAIN tree /\ p \in DOMAIN tree[n].props /\ t = <<n, p>>
    BY <1>9, SMTT(60) DEF FoundAt
<1>12. SetAt(dt', n, p, word)
    BY <1>10, <1>11, PatchSets DEF TreeInv, TreeShape
<1> HIDE DEF word
<1>13. Target(dt', spec) = t
    <2>1. LookupProperty(dt, Root, spec.path, spec.name) = <<n, p>>
        BY <1>11 DEF Target
    <2> HIDE DEF t, n, p
    <2>2. LookupProperty(dt', Root, spec.path, spec.name) = <<n, p>>
        BY <1>4, <1>6, <1>7, <1>12, <2>1, PatchIsFound DEF TreeInv, TreeShape
    <2> QED BY <1>11, <2>2 DEF Target
<1>14. dt'[n].props[p].val = word /\ dt'[n].props[p].size = size
    <2>1. IsImage(dt') /\ IsImage(dt)
        BY <1>12 DEF SetAt, TreeInv, TreeShape, Shape
    <2> HIDE DEF n, p
    <2>3. dt'[n].props[p].size = Size(n, p)
        BY <1>11, <2>1, ImageSize
    <2>4. dt[n].props[p].size = Size(n, p)
        BY <1>11, <2>1, ImageSize
    <2>5. dt'[n].props[p].val = word
        BY <1>11, <1>12 DEF SetAt
    <2> QED BY <2>3, <2>4, <2>5
<1>15. word = IF spec.value.hex THEN Denotes(spec.value)
              ELSE Denotes(spec.value) % Integers256(room)
    <2>1. room \in Nat
        <3> HIDE DEF size
        <3> QED BY <1>8, DeviceTreeAssumption
    <2> HIDE DEF room
    <2> QED BY <1>6, <1>8, <2>1, Sv2intDenotes DEF word
<1>16. Same(spec.value, dt'[n].props[p])
    <2> HIDE DEF n, p, size
    <2> QED BY <1>14, <1>15 DEF Same
<1> QED BY <1>13, <1>16

LEMMA NoResultAdded ==
    ASSUME TreeInv, Dump \/ Multipatch \/ NvramPatch \/ Done \/ UNCHANGED treeVars
    PROVE  TakesEffect
<1>1. results' = <<>> \/ results' = results
    <2>1. Dump => results' = <<>> \/ results' = results
        BY Zenon DEF Dump, Begin, Abort
    <2>2. Multipatch => results' = <<>>
        BY Zenon DEF Multipatch, Begin
    <2>3. NvramPatch => results' = <<>> \/ results' = results
        BY Zenon DEF NvramPatch, Begin, Abort
    <2>4. Done => results' = <<>> \/ results' = results
        BY Zenon DEF Done, Begin
    <2>5. UNCHANGED treeVars => results' = results
        BY DEF treeVars
    <2> QED BY <2>1, <2>2, <2>3, <2>4, <2>5
<1>2. Len(results) \in Nat
    BY LenProperties DEF TreeInv, GroupInv
<1>3. results' = <<>> => Len(results') = 0
    BY EmptySeq
<1>4. ~(Len(results') > Len(results))
    BY ONLY <1>1, <1>2, <1>3
<1> QED BY <1>4 DEF TakesEffect

\* A patch that succeeds sets the number its text says where the next lookup of its
\* path finds it, whatever the tree and the damage of earlier patches
\* (processPatch, DTNode::lookupProperty, sv2int).
THEOREM AlwaysPatchTakesEffect == Spec => PatchTakesEffect
<1>1. Init => TreeInv
    BY TreeInitInv DEF Init
<1>2. TreeInv /\ [Next]_vars => [TakesEffect]_treeVars
    <2> SUFFICES ASSUME TreeInv, [Next]_vars PROVE TakesEffect \/ UNCHANGED treeVars
        OBVIOUS
    <2>1. CASE TreeNext
        BY <2>1, PatchIsEffective, NoResultAdded DEF TreeNext
    <2>2. TreeNext \/ UNCHANGED treeVars
        BY DEF Next, vars
    <2> QED BY <2>1, <2>2
<1> QED BY <1>1, <1>2, TreeStep, PTL DEF Spec, PatchTakesEffect

-----------------------------------------------------------------------------
(* The escape coding *)

Bytes == 0 .. FF

\* The bytes out stand for the first n bytes of data: B are the offsets at which a
\* code begins or the last one ends, and L[o] is the number of bytes of data that
\* the codes in front of offset o stand for.
PlainCode(out, data, B, L, o) ==
    /\ out[o + 1] # FF /\ o + 1 \in B
    /\ L[o + 1] = L[o] + 1 /\ data[L[o] + 1] = out[o + 1]

RunCode(out, data, B, L, o) ==
    /\ out[o + 1] = FF /\ o + 1 \notin B /\ o + 2 \in B
    /\ out[o + 2] # 0 /\ Count(out[o + 2]) \in Nat
    /\ L[o + 2] = L[o] + Count(out[o + 2])
    /\ \A j \in L[o] + 1 .. L[o + 2] : data[j] = IF out[o + 2] >= UPPER THEN FF ELSE 0

Codes(out, data, B, L) ==
    \A o \in B : o < Len(out) => PlainCode(out, data, B, L, o) \/ RunCode(out, data, B, L, o)

IsCode(out, data, n, B, L) ==
    /\ B \subseteq 0 .. Len(out) /\ 0 \in B /\ Len(out) \in B
    /\ L \in [0 .. Len(out) -> 0 .. n] /\ L[0] = 0 /\ L[Len(out)] = n
    /\ Codes(out, data, B, L)

IsEncoded(out, data, n) ==
    \E B \in SUBSET Nat, L \in [0 .. Len(out) -> Nat] : IsCode(out, data, n, B, L)

LEMMA ConstantsType ==
    /\ UPPER \in Nat /\ UPPER >= 2 /\ FF \in Nat /\ FF = 2 * UPPER - 1
    /\ MAX_RUN \in Nat /\ MAX_RUN = UPPER - 1 /\ DataBytes \subseteq Bytes
    BY NvramCodingAssumption DEF FF, MAX_RUN, Bytes

\* A count is the length of its run, whatever the run is of.
LEMMA CountOfRun ==
    ASSUME NEW run \in 1 .. MAX_RUN
    PROVE  /\ Count(run) = run /\ run < UPPER /\ run \in Bytes
           /\ Count(UPPER + run) = run /\ UPPER + run \in Bytes
<1>1. run \in Nat /\ run < UPPER /\ UPPER \in Nat /\ UPPER > 0
    BY ConstantsType
<1>2. run % UPPER = run /\ (UPPER + run) % UPPER = run
    BY <1>1, SmallRemainder
<1> QED BY <1>1, <1>2, ConstantsType DEF Count, Bytes

\* The lengths when the codes end at offset m and stand for n bytes.
Longer(L, m, n) == [o \in 0 .. m |-> IF o = m THEN n ELSE IF o \in DOMAIN L THEN L[o] ELSE 0]

\* A byte that stands for itself.
LEMMA AddPlain ==
    ASSUME NEW out \in Seq(Nat), NEW data, NEW n \in Nat, NEW B, NEW L, IsCode(out, data, n, B, L),
           NEW byte \in Nat, byte # FF, data[n + 1] = byte
    PROVE  IsCode(Append(out, byte), data, n + 1, B \cup {Len(out) + 1},
                  Longer(L, Len(out) + 1, n + 1))
<1> DEFINE m == Len(out) + 1
           out1 == Append(out, byte)
           B1 == B \cup {m}
           L1 == Longer(L, m, n + 1)
<1>0. Len(out) \in Nat
    BY LenProperties
<1>1. Len(out1) = m /\ out1[m] = byte /\ \A i \in 1 .. Len(out) : out1[i] = out[i]
    BY AppendProperties
<1>2. /\ B \subseteq 0 .. Len(out) /\ 0 \in B /\ Len(out) \in B
      /\ L \in [0 .. Len(out) -> 0 .. n] /\ L[0] = 0 /\ L[Len(out)] = n
      /\ Codes(out, data, B, L)
    BY DEF IsCode
<1>3. /\ L1 \in [0 .. m -> 0 .. n + 1] /\ L1[m] = n + 1
      /\ \A o \in 0 .. Len(out) : L1[o] = L[o]
    BY <1>0, <1>2 DEF Longer
<1> HIDE DEF out1, L1
<1>4. B1 \subseteq 0 .. m /\ 0 \in B1 /\ m \in B1 /\ L1[0] = 0
    BY <1>0, <1>2, <1>3
<1>5. ASSUME NEW o \in B1, o < m
      PROVE  PlainCode(out1, data, B1, L1, o) \/ RunCode(out1, data, B1, L1, o)
    <2>1. o \in B /\ o \in 0 .. Len(out)
        BY <1>0, <1>2, <1>5
    <2>2. CASE o = Len(out)
        BY <1>0, <1>1, <1>2, <1>3, <2>2 DEF PlainCode
    <2>3. CASE o < Len(out) /\ PlainCode(out, data, B, L, o)
        <3>1. o + 1 \in B /\ o + 1 \in 1 .. Len(out) /\ o \in 0 .. Len(out)
            BY <1>0, <2>1, <2>3 DEF PlainCode
        <3>2. out1[o + 1] = out[o + 1] /\ L1[o + 1] = L[o + 1] /\ L1[o] = L[o] /\ o + 1 \in B1
            BY <1>0, <1>1, <1>3, <3>1
        <3> QED BY <2>3, <3>2 DEF PlainCode
    <2>4. CASE o < Len(out) /\ RunCode(out, data, B, L, o)
        <3>1. o + 2 \in B /\ o + 2 \in 1 .. Len(out) /\ o + 1 \in 1 .. Len(out) /\ o \in 0 .. Len(out)
            BY <1>0, <1>2, <2>1, <2>4 DEF RunCode
        <3>2. /\ out1[o + 1] = out[o + 1] /\ out1[o + 2] = out[o + 2]
              /\ L1[o + 2] = L[o + 2] /\ L1[o] = L[o]
              /\ o + 2 \in B1
            BY <1>0, <1>1, <1>3, <3>1
        <3>3. o + 1 \notin B1
            BY <1>0, <2>4, <3>1 DEF RunCode
        <3> QED BY <2>4, <3>2, <3>3 DEF RunCode
    <2> QED BY <1>0, <1>2, <2>1, <2>2, <2>3, <2>4 DEF Codes
<1> QED BY <1>1, <1>3, <1>4, <1>5 DEF IsCode, Codes, out1, L1

\* A run begins.
LEMMA AddRun ==
    ASSUME NEW out \in Seq(Nat), NEW data, NEW n \in Nat, NEW B, NEW L, IsCode(out, data, n, B, L),
           NEW c \in Nat, c # 0, Count(c) = 1, data[n + 1] = IF c >= UPPER THEN FF ELSE 0
    PROVE  IsCode(out \o <<FF, c>>, data, n + 1, B \cup {Len(out) + 2},
                  Longer(L, Len(out) + 2, n + 1))
<1> DEFINE m == Len(out) + 2
           out1 == out \o <<FF, c>>
           B1 == B \cup {m}
           L1 == Longer(L, m, n + 1)
<1>0. Len(out) \in Nat
    BY LenProperties
<1>1. Len(out1) = m /\ out1[Len(out) + 1] = FF /\ out1[m] = c /\ \A i \in 1 .. Len(out) : out1[i] = out[i]
    <2>1. <<FF, c>> \in Seq(Nat) /\ Len(<<FF, c>>) = 2 /\ <<FF, c>>[1] = FF /\ <<FF, c>>[2] = c
        BY ConstantsType
    <2> QED BY <2>1, ConcatProperties, <1>0
<1>2. /\ B \subseteq 0 .. Len(out) /\ 0 \in B /\ Len(out) \in B
      /\ L \in [0 .. Len(out) -> 0 .. n] /\ L[0] = 0 /\ L[Len(out)] = n
      /\ Codes(out, data, B, L)
    BY DEF IsCode
<1>3. /\ L1 \in [0 .. m -> 0 .. n + 1] /\ L1[m] = n + 1
      /\ \A o \in 0 .. Len(out) : L1[o] = L[o]
    BY <1>0, <1>2 DEF Longer
<1> HIDE DEF out1, L1
<1>4. B1 \subseteq 0 .. m /\ 0 \in B1 /\ m \in B1 /\ L1[0] = 0
    <2>1. m \in Nat /\ B \subseteq 0 .. Len(out) /\ 0 \in B
        BY <1>0, <1>2
    <2>3. 0 .. Len(out) \subseteq 0 .. m /\ m \in 0 .. m
        BY <1>0
    <2> HIDE DEF m
    <2>4. B1 \subseteq 0 .. m /\ 0 \in B1 /\ m \in B1
        BY ONLY <2>1, <2>3
    <2>2. L1[0] = 0
        BY <1>0, <1>2, <1>3
    <2> QED BY <2>2, <2>4
<1>5. ASSUME NEW o \in B1, o < m
      PROVE  PlainCode(out1, data, B1, L1, o) \/ RunCode(out1, data, B1, L1, o)
    <2>1. o \in B /\ o \in 0 .. Len(out)
        BY <1>0, <1>2, <1>5
    <2>2. CASE o = Len(out)
        <3>1. o + 1 \notin B1 /\ o + 2 \in B1 /\ L1[o] = n /\ L1[o + 2] = n + 1
            BY <1>0, <1>2, <1>3, <2>2
        <3>2. \A j \in n + 1 .. n + 1 : j = n + 1
            OBVIOUS
        <3> QED BY <1>0, <1>1, <2>2, <3>1, <3>2 DEF RunCode
    <2>3. CASE o < Len(out) /\ PlainCode(out, data, B, L, o)
        <3>1. o + 1 \in B /\ o + 1 \in 1 .. Len(out) /\ o \in 0 .. Len(out)
            BY <1>0, <2>1, <2>3 DEF PlainCode
        <3>2. out1[o + 1] = out[o + 1] /\ L1[o + 1] = L[o + 1] /\ L1[o] = L[o] /\ o + 1 \in B1
            BY <1>0, <1>1, <1>3, <3>1
        <3> QED BY <2>3, <3>2 DEF PlainCode
    <2>4. CASE o < Len(out) /\ RunCode(out, data, B, L, o)
        <3>1. o + 2 \in B /\ o + 2 \in 1 .. Len(out) /\ o + 1 \in 1 .. Len(out) /\ o \in 0 .. Len(out)
            BY <1>0, <1>2, <2>1, <2>4 DEF RunCode
        <3>2. /\ out1[o + 1] = out[o + 1] /\ out1[o + 2] = out[o + 2]
              /\ L1[o + 2] = L[o + 2] /\ L1[o] = L[o]
              /\ o + 2 \in B1
            BY <1>0, <1>1, <1>3, <3>1
        <3>3. o + 1 \notin B1
            BY <1>0, <2>4, <3>1 DEF RunCode
        <3> QED BY <2>4, <3>2, <3>3 DEF RunCode
    <2> QED BY <1>0, <1>2, <2>1, <2>2, <2>3, <2>4 DEF Codes
<1> QED BY <1>1, <1>3, <1>4, <1>5 DEF IsCode, Codes, out1, L1

\* The run at the end goes on.
LEMMA GoOn ==
    ASSUME NEW out \in Seq(Nat), NEW data, NEW n \in Nat, NEW B, NEW L, IsCode(out, data, n, B, L),
           Len(out) >= 2, Len(out) - 2 \in B, out[Len(out) - 1] = FF,
           Count(out[Len(out)] + 1) = Count(out[Len(out)]) + 1,
           out[Len(out)] + 1 >= UPPER <=> out[Len(out)] >= UPPER,
           data[n + 1] = IF out[Len(out)] >= UPPER THEN FF ELSE 0
    PROVE  IsCode([out EXCEPT ![Len(out)] = @ + 1], data, n + 1, B, Longer(L, Len(out), n + 1))
<1> DEFINE m == Len(out)
           c == out[m]
           out1 == [out EXCEPT ![m] = @ + 1]
           L1 == Longer(L, m, n + 1)
<1>0. m \in Nat /\ m - 2 \in 0 .. m /\ m \in 1 .. m /\ c \in Nat
    <2>1. m \in Nat
        BY LenProperties
    <2>2. m >= 2
        OBVIOUS
    <2>3. m - 2 \in 0 .. m /\ m \in 1 .. m
        BY ONLY <2>1, <2>2
    <2>4. c \in Nat
        <3>1. out \in Seq(Nat)
            BY SMTT(60)
        <3> QED BY ONLY <2>3, <3>1, ElementOfSeq, SMTT(60)
    <2> QED BY ONLY <2>1, <2>3, <2>4, Zenon
<1>1. Len(out1) = m /\ out1[m] = c + 1 /\ \A i \in 1 .. m - 1 : out1[i] = out[i]
    <2>1. Len(out1) = m
        BY <1>0, ExceptSeq
    <2>2. DOMAIN out = 1 .. m
        BY LenProperties
    <2>3. out1[m] = c + 1
        <3>1. m \in DOMAIN out
            BY ONLY <2>2, <1>0, ZenonT(60)
        <3> HIDE DEF m
        <3> QED BY ONLY <3>1
    <2>4. ASSUME NEW i \in 1 .. m - 1 PROVE out1[i] = out[i]
        <3>1. i \in 1 .. m /\ i # m
            BY ONLY <1>0, <2>4
        <3> QED BY ONLY <3>1, <2>2
    <2> QED BY <2>1, <2>3, <2>4
<1>2. /\ B \subseteq 0 .. m /\ 0 \in B /\ m \in B
      /\ L \in [0 .. m -> 0 .. n] /\ L[0] = 0 /\ L[m] = n
      /\ Codes(out, data, B, L)
    BY DEF IsCode
<1>3. /\ L1 \in [0 .. m -> 0 .. n + 1] /\ L1[m] = n + 1
      /\ \A o \in 0 .. m - 1 : L1[o] = L[o]
    <2>1. n \in Nat
        OBVIOUS
    <2> QED BY ONLY <1>0, <1>2, <2>1 DEF Longer
<1>4. RunCode(out, data, B, L, m - 2)
    <2>1. m - 2 < m /\ (m - 2) + 1 = m - 1
        BY <1>0
    <2> QED BY <1>2, <2>1 DEF Codes, PlainCode
<1>5. /\ m - 1 \notin B /\ c # 0 /\ Count(c) \in Nat /\ n = L[m - 2] + Count(c)
      /\ \A j \in L[m - 2] + 1 .. n : data[j] = IF c >= UPPER THEN FF ELSE 0
    <2>1. (m - 2) + 1 = m - 1 /\ (m - 2) + 2 = m
        BY <1>0
    <2> QED BY <1>2, <1>4, <2>1 DEF RunCode
<1>6. /\ Count(c + 1) = Count(c) + 1 /\ (c + 1 >= UPPER <=> c >= UPPER)
      /\ data[n + 1] = (IF c >= UPPER THEN FF ELSE 0) /\ m >= 2 /\ m - 2 \in B /\ out[m - 1] = FF
    OBVIOUS
<1> HIDE DEF out1, L1, c, m
<1>7. L1[0] = 0
    BY <1>0, <1>2, <1>3, <1>6
<1>8. ASSUME NEW o \in B, o < m
      PROVE  PlainCode(out1, data, B, L1, o) \/ RunCode(out1, data, B, L1, o)
    <2>1. o \in 0 .. m /\ o # m - 1
        BY <1>2, <1>5
    <2>2. CASE o = m - 2
        <3>1. L1[m - 2] = L[m - 2] /\ L[m - 2] \in Nat /\ out1[m - 1] = FF
            <4>1. m - 2 \in 0 .. m - 1 /\ m - 1 \in 1 .. m - 1
                BY <1>0, <1>6
            <4>2. L1[m - 2] = L[m - 2]
                BY <4>1, <1>3
            <4>3. L[m - 2] \in 0 .. n
                BY <1>0, <1>2
            <4>4. out1[m - 1] = FF
                BY <4>1, <1>1, <1>6
            <4>5. L[m - 2] \in Nat
                BY <4>3
            <4> QED BY <4>2, <4>4, <4>5
        <3>2. c + 1 # 0 /\ Count(c + 1) \in Nat /\ n + 1 = L[m - 2] + Count(c + 1)
            <4>1. c + 1 # 0
                BY <1>0
            <4>2. Count(c) \in Nat /\ n = L[m - 2] + Count(c) /\ Count(c + 1) = Count(c) + 1
                BY <1>5, <1>6
            <4>3. L[m - 2] \in Nat
                BY <3>1
            <4> DEFINE k == Count(c)
                       l == L[m - 2]
            <4>4. k \in Nat /\ n = l + k /\ Count(c + 1) = k + 1 /\ l \in Nat
                BY <4>2, <4>3
            <4> HIDE DEF k, l
            <4>5. k + 1 \in Nat /\ n + 1 = l + (k + 1)
                BY ONLY <4>4
            <4>6. Count(c + 1) \in Nat /\ n + 1 = l + Count(c + 1)
                BY ONLY <4>4, <4>5
            <4> QED BY <4>1, <4>6 DEF l
        <3>3. \A j \in L[m - 2] + 1 .. n + 1 : data[j] = IF c + 1 >= UPPER THEN FF ELSE 0
            <4> SUFFICES ASSUME NEW j \in L[m - 2] + 1 .. n + 1
                         PROVE  data[j] = IF c >= UPPER THEN FF ELSE 0
                BY <1>6
            <4>1. j = n + 1 \/ j \in L[m - 2] + 1 .. n
                BY <3>1
            <4> QED BY <1>5, <1>6, <4>1
        <3>4. (m - 2) + 1 = m - 1 /\ (m - 2) + 2 = m
            BY <1>0
        <3>5. /\ out1[m - 1] = FF /\ m - 1 \notin B /\ m \in B
              /\ out1[m] # 0 /\ Count(out1[m]) \in Nat
              /\ L1[m] = L1[m - 2] + Count(out1[m])
            BY ONLY <1>1, <1>2, <1>3, <1>5, <3>1, <3>2
        <3>6. \A j \in L1[m - 2] + 1 .. L1[m] : data[j] = IF out1[m] >= UPPER THEN FF ELSE 0
            BY ONLY <1>1, <1>3, <3>1, <3>3
        <3>7. RunCode(out1, data, B, L1, m - 2)
            BY ONLY <3>4, <3>5, <3>6 DEF RunCode
        <3> QED BY <2>2, <3>7
    <2>3. CASE o # m - 2 /\ PlainCode(out, data, B, L, o)
        <3>1. o + 1 \in B /\ o + 1 \in 1 .. m - 1 /\ o \in 0 .. m - 1 /\ o + 1 \in 0 .. m - 1
            BY <1>0, <1>8, <2>1, <2>3 DEF PlainCode
        <3>2. out1[o + 1] = out[o + 1] /\ L1[o + 1] = L[o + 1] /\ L1[o] = L[o]
            BY <1>1, <1>3, <3>1
        <3>3. /\ out[o + 1] # FF /\ o + 1 \in B
              /\ L[o + 1] = L[o] + 1 /\ data[L[o] + 1] = out[o + 1]
            BY <2>3 DEF PlainCode
        <3>4. out1[o + 1] # FF /\ L1[o + 1] = L1[o] + 1 /\ data[L1[o] + 1] = out1[o + 1]
            BY ONLY <3>2, <3>3
        <3> QED BY ONLY <3>3, <3>4 DEF PlainCode
    <2>4. CASE o # m - 2 /\ RunCode(out, data, B, L, o)
        <3>1. o + 2 \in B /\ o + 2 \in 0 .. m
            BY <1>2, <2>4 DEF RunCode
        <3>2. o + 2 # m - 1 /\ o + 2 # m
            BY <1>0, <1>5, <2>1, <2>4, <3>1
        <3>3. o + 2 \in 1 .. m - 1 /\ o + 1 \in 1 .. m - 1 /\ o \in 0 .. m - 1 /\ o + 2 \in 0 .. m - 1
            BY <1>0, <2>1, <3>1, <3>2
        <3>4. out1[o + 1] = out[o + 1] /\ out1[o + 2] = out[o + 2] /\ L1[o + 2] = L[o + 2] /\ L1[o] = L[o]
            BY <1>1, <1>3, <3>3
        <3>5. RunCode(out, data, B, L, o)
            BY <2>4
        <3>6. RunCode(out1, data, B, L1, o)
            BY ONLY <3>4, <3>5 DEF RunCode
        <3> QED BY <3>6
    <2>5. PlainCode(out, data, B, L, o) \/ RunCode(out, data, B, L, o)
        BY <1>2, <1>8 DEF Codes, m
    <2> QED BY <2>2, <2>3, <2>4, <2>5, Zenon
<1>9. IsCode(out1, data, n + 1, B, L1)
    BY <1>1, <1>2, <1>3, <1>7, <1>8 DEF IsCode, Codes
<1> QED BY <1>9 DEF out1, L1, m

\* The encoder's accumulator when it has encoded the first k bytes of data: a run
\* that may go on is the last code.
Accumulators ==
    {acc \in [out : Seq(Nat), byte : Nat, run : Nat] : acc.run > 0 => Len(acc.out) >= 1}

InRun(acc, B) ==
    LET m == Len(acc.out)
    IN  acc.run > 0 =>
            /\ acc.byte \in {0, FF} /\ acc.run \in 1 .. MAX_RUN
            /\ m >= 2 /\ m - 2 \in B /\ acc.out[m - 1] = FF
            /\ acc.out[m] = (IF acc.byte = FF THEN UPPER ELSE 0) + acc.run

Escaped(acc, data, k) ==
    /\ acc \in Accumulators
    /\ \E B \in SUBSET Nat, L \in [0 .. Len(acc.out) -> Nat] :
          IsCode(acc.out, data, k, B, L) /\ InRun(acc, B)

LEMMA EscapedBy ==
    ASSUME NEW acc \in Accumulators, NEW data, NEW k \in Nat, NEW B, NEW L,
           IsCode(acc.out, data, k, B, L), InRun(acc, B)
    PROVE  Escaped(acc, data, k)
<1>0. acc.out \in Seq(Nat)
    BY DEF Accumulators
<1>1. B \in SUBSET Nat /\ L \in [0 .. Len(acc.out) -> Nat]
    <2>1. Len(acc.out) \in Nat
        BY <1>0, LenProperties
    <2>2. B \subseteq 0 .. Len(acc.out) /\ L \in [0 .. Len(acc.out) -> 0 .. k]
        BY DEF IsCode
    <2> QED BY <2>1, <2>2
<1> QED BY <1>1 DEF Escaped

\* The encoder's step (escapeDataToData).
LEMMA EscapeStep ==
    ASSUME NEW acc, NEW data, NEW k \in Nat, Escaped(acc, data, k),
           NEW byte \in Bytes, data[k + 1] = byte
    PROVE  Escaped(EscapeByte(acc, byte), data, k + 1)
<1> DEFINE out == acc.out
           m == Len(acc.out)
           upper == IF byte = FF THEN UPPER ELSE 0
<1>0. /\ acc \in [out : Seq(Nat), byte : Nat, run : Nat] /\ out \in Seq(Nat) /\ m \in Nat
      /\ byte \in Nat /\ UPPER \in Nat /\ UPPER >= 2 /\ FF = 2 * UPPER - 1 /\ FF \in Nat
      /\ MAX_RUN = UPPER - 1 /\ k + 1 \in Nat /\ upper \in Nat
    <2>1. acc \in [out : Seq(Nat), byte : Nat, run : Nat]
        BY DEF Escaped, Accumulators
    <2>2. out \in Seq(Nat)
        BY <2>1
    <2> QED BY <2>1, <2>2, ConstantsType, LenProperties DEF Bytes
<1>d. data[k + 1] = byte
    OBVIOUS
<1>1. PICK B \in SUBSET Nat : \E L \in [0 .. m -> Nat] : IsCode(out, data, k, B, L) /\ InRun(acc, B)
    BY DEF Escaped
<1>2. PICK L \in [0 .. m -> Nat] : IsCode(out, data, k, B, L) /\ InRun(acc, B)
    BY <1>1
<1>3. CASE byte \notin {0, FF}
    <2> DEFINE next == [out |-> Append(out, byte), byte |-> byte, run |-> 0]
    <2>1. EscapeByte(acc, byte) = next
        BY <1>3 DEF EscapeByte
    <2>2. IsCode(Append(out, byte), data, k + 1, B \cup {m + 1}, Longer(L, m + 1, k + 1))
        BY <1>0, <1>2, <1>3, AddPlain
    <2>3. next \in Accumulators /\ InRun(next, B \cup {m + 1})
        BY <1>0 DEF Accumulators, InRun
    <2>4. next.out = Append(out, byte)
        OBVIOUS
    <2> HIDE DEF next
    <2>5. Escaped(next, data, k + 1)
        <3>1. IsCode(next.out, data, k + 1, B \cup {m + 1}, Longer(L, m + 1, k + 1))
            BY ONLY <2>2, <2>4
        <3> QED BY <1>0, <2>3, <3>1, EscapedBy
    <2> QED BY <2>1, <2>5
<1>4. CASE byte \in {0, FF} /\ ~RunGoesOn(acc, byte)
    <2> DEFINE c == upper + 1
               next == [out |-> out \o <<FF, c>>, byte |-> byte, run |-> 1]
               B1 == B \cup {m + 2}
    <2>1. EscapeByte(acc, byte) = next
        BY <1>4 DEF EscapeByte
    <2>2. c \in Nat /\ c # 0 /\ Count(c) = 1 /\ data[k + 1] = IF c >= UPPER THEN FF ELSE 0
        <3>1. 1 \in 1 .. MAX_RUN
            BY <1>0
        <3>2. Count(1) = 1 /\ Count(UPPER + 1) = 1
            BY <3>1, CountOfRun
        <3>3. CASE byte = FF
            BY <1>0, <3>2, <3>3
        <3>4. CASE byte # FF
            BY <1>0, <1>4, <3>2, <3>4
        <3> QED BY <3>3, <3>4
    <2> HIDE DEF c
    <2>3. IsCode(out \o <<FF, c>>, data, k + 1, B1, Longer(L, m + 2, k + 1))
        BY <1>0, <1>2, <2>2, AddRun
    <2>4. /\ out \o <<FF, c>> \in Seq(Nat) /\ Len(out \o <<FF, c>>) = m + 2
          /\ (out \o <<FF, c>>)[m + 1] = FF /\ (out \o <<FF, c>>)[m + 2] = c
        <3>1. <<FF, c>> \in Seq(Nat) /\ Len(<<FF, c>>) = 2 /\ <<FF, c>>[1] = FF /\ <<FF, c>>[2] = c
            BY <1>0, <2>2
        <3> QED BY <3>1, <1>0, ConcatProperties
    <2>5. next.out = out \o <<FF, c>> /\ next.byte = byte /\ next.run = 1
        OBVIOUS
    <2>6. next \in Accumulators
        BY <1>0, <2>4 DEF Accumulators
    <2> HIDE DEF next
    <2>7. InRun(next, B1)
        <3>1. m \in B
            BY <1>2 DEF IsCode
        <3>2. m + 2 - 2 = m /\ m + 2 - 1 = m + 1 /\ m + 2 >= 2 /\ 1 \in 1 .. MAX_RUN
            BY <1>0
        <3>3. c = (IF byte = FF THEN UPPER ELSE 0) + 1
            BY DEF c
        <3> QED BY <1>4, <2>4, <2>5, <3>1, <3>2, <3>3 DEF InRun
    <2>8. Escaped(next, data, k + 1)
        <3>1. IsCode(next.out, data, k + 1, B1, Longer(L, m + 2, k + 1))
            BY ONLY <2>3, <2>5
        <3> HIDE DEF B1
        <3> QED BY <1>0, <2>6, <2>7, <3>1, EscapedBy
    <2> QED BY <2>1, <2>8
<1>5. CASE byte \in {0, FF} /\ RunGoesOn(acc, byte)
    <2> DEFINE c == out[m]
               out1 == [out EXCEPT ![m] = @ + 1]
               run == acc.run
               next == [out |-> out1, byte |-> byte, run |-> run + 1]
    <2>1. EscapeByte(acc, byte) = next
        BY <1>5 DEF EscapeByte
    <2>2. run \in Nat /\ run > 0 /\ byte = acc.byte /\ run < MAX_RUN
        BY <1>0, <1>5 DEF RunGoesOn
    <2>3. m >= 2 /\ m - 2 \in B /\ out[m - 1] = FF /\ c = upper + run
        BY <1>2, <2>2 DEF InRun
    <2>4. Count(c + 1) = Count(c) + 1 /\ (c + 1 >= UPPER <=> c >= UPPER) /\ c \in Nat
        <3>1. run \in 1 .. MAX_RUN /\ run + 1 \in 1 .. MAX_RUN
            BY <1>0, <2>2
        <3>2. Count(run) = run /\ Count(UPPER + run) = run
            BY <3>1, CountOfRun
        <3>3. Count(run + 1) = run + 1 /\ Count(UPPER + (run + 1)) = run + 1
            BY <3>1, CountOfRun
        <3>4. CASE byte = FF
            <4>1. c = UPPER + run /\ c + 1 = UPPER + (run + 1)
                BY <1>0, <2>2, <2>3, <3>4
            <4> HIDE DEF c
            <4> QED BY <1>0, <2>2, <3>2, <3>3, <4>1
        <3>5. CASE byte # FF
            <4>1. c = run /\ c + 1 = run + 1
                BY <1>0, <2>2, <2>3, <3>5
            <4> HIDE DEF c
            <4> QED BY <1>0, <2>2, <3>2, <3>3, <4>1
        <3> QED BY <3>4, <3>5
    <2>5. data[k + 1] = IF c >= UPPER THEN FF ELSE 0
        <3>1. CASE byte = FF
            <4>1. data[k + 1] = FF /\ c >= UPPER
                BY ONLY <1>0, <2>2, <2>3, <3>1, <1>d
            <4> QED BY ONLY <4>1
        <3>2. CASE byte # FF
            BY <1>0, <1>5, <2>2, <2>3, <3>2
        <3> QED BY <3>1, <3>2
    <2>6. IsCode(out1, data, k + 1, B, Longer(L, m, k + 1))
        BY <1>0, <1>2, <2>3, <2>4, <2>5, GoOn
    <2>7. m \in 1 .. m /\ m - 1 \in 1 .. m /\ m - 1 # m /\ DOMAIN out = 1 .. m
        <3>1. m \in 1 .. m /\ m - 1 \in 1 .. m /\ m - 1 # m
            BY ONLY <1>0, <2>3, SMTT(60)
        <3>2. DOMAIN out = 1 .. m
            BY ONLY <1>0, LenProperties
        <3> QED BY ONLY <3>1, <3>2
    <2>8. out1 \in Seq(Nat) /\ Len(out1) = m /\ out1[m - 1] = FF /\ out1[m] = c + 1
        <3>1. out1 \in Seq(Nat) /\ Len(out1) = m
            <4>1. c + 1 \in Nat
                BY <2>4
            <4> QED BY <1>0, <2>7, <4>1, ExceptSeq
        <3>2. out1[m - 1] = FF /\ out1[m] = c + 1
            BY <2>3, <2>7
        <3> QED BY <3>1, <3>2
    <2>9. next.out = out1 /\ next.byte = byte /\ next.run = run + 1
        OBVIOUS
    <2>10. next \in Accumulators
        <3>1. run + 1 \in Nat /\ m >= 1
            BY ONLY <2>2, <2>3, <1>0, SMTT(60)
        <3> HIDE DEF out1, run
        <3> QED BY <1>0, <2>8, <3>1 DEF Accumulators
    <2> HIDE DEF next, out1
    <2>11. InRun(next, B)
        <3>1. run + 1 \in 1 .. MAX_RUN /\ c + 1 = upper + (run + 1)
            <4> HIDE DEF c, run, upper
            <4> QED BY <1>0, <2>2, <2>3
        <3> HIDE DEF c, run
        <3> QED BY <1>5, <2>3, <2>8, <2>9, <3>1 DEF InRun
    <2>12. Escaped(next, data, k + 1)
        <3>1. IsCode(next.out, data, k + 1, B, Longer(L, m, k + 1))
            BY ONLY <2>6, <2>9
        <3> QED BY <1>0, <2>10, <2>11, <3>1, EscapedBy
    <2> QED BY <2>1, <2>12
<1> QED BY <1>3, <1>4, <1>5

LEMMA EscapeByteType ==
    ASSUME NEW acc \in Accumulators, NEW byte \in Nat
    PROVE  EscapeByte(acc, byte) \in Accumulators
<1> DEFINE out == acc.out
           m == Len(acc.out)
           c == (IF byte = FF THEN UPPER ELSE 0) + 1
<1>0. /\ acc \in [out : Seq(Nat), byte : Nat, run : Nat] /\ out \in Seq(Nat) /\ m \in Nat
      /\ c \in Nat /\ FF \in Nat
    BY ConstantsType, LenProperties DEF Accumulators
<1>1. CASE byte \notin {0, FF}
    BY <1>0, <1>1 DEF EscapeByte, Accumulators
<1>2. CASE byte \in {0, FF} /\ ~RunGoesOn(acc, byte)
    <2>1. EscapeByte(acc, byte) = [out |-> out \o <<FF, c>>, byte |-> byte, run |-> 1]
        BY <1>2 DEF EscapeByte
    <2> HIDE DEF c
    <2>2. <<FF, c>> \in Seq(Nat) /\ Len(<<FF, c>>) = 2
        BY <1>0
    <2>3. out \o <<FF, c>> \in Seq(Nat) /\ Len(out \o <<FF, c>>) = m + 2
        BY <1>0, <2>2, ConcatProperties
    <2> QED BY <1>0, <2>1, <2>3 DEF Accumulators
<1>3. CASE byte \in {0, FF} /\ RunGoesOn(acc, byte)
    <2> DEFINE out1 == [out EXCEPT ![m] = @ + 1]
    <2>1. EscapeByte(acc, byte) = [out |-> out1, byte |-> byte, run |-> acc.run + 1]
        BY <1>3 DEF EscapeByte
    <2>2. m >= 1 /\ acc.run \in Nat
        BY <1>0, <1>3 DEF RunGoesOn, Accumulators
    <2>3. m \in 1 .. m /\ out[m] \in Nat
        BY <1>0, <2>2, ElementOfSeq
    <2>4. out1 \in Seq(Nat) /\ Len(out1) = m
        <3>1. out[m] + 1 \in Nat
            BY <2>3
        <3> QED BY <1>0, <2>3, <3>1, ExceptSeq
    <2> HIDE DEF out1
    <2> QED BY <1>0, <2>1, <2>2, <2>4 DEF Accumulators
<1> QED BY <1>1, <1>2, <1>3

\* What the encoder has in its buffer but for the 0 at the end.
NoRun == [out |-> <<>>, byte |-> 0, run |-> 0]
Encoded(data) == FoldLeft(EscapeByte, NoRun, data)

\* The accumulators on its way: I is a set 1 .. k of positions.
Encodings(data) ==
    CHOOSE f : f = [I \in SUBSET (DOMAIN data) |->
                      IF I = {} THEN NoRun
                      ELSE EscapeByte(f[I \ {Max(I)}], data[Max(I)])]

\* The encoder's buffer stands for the data (escapeDataToData).
LEMMA EscapeEncodes ==
    ASSUME NEW data \in Seq(Bytes)
    PROVE  Encoded(data).out \in Seq(Nat) /\ IsEncoded(Encoded(data).out, data, Len(data))
<1> DEFINE m == Len(data)
           next == [x \in Accumulators \X (1 .. m) |-> EscapeByte(x[1], data[x[2]])]
           Body(f) == [I \in SUBSET (1 .. m) |->
                         IF I = {} THEN NoRun ELSE EscapeByte(f[I \ {Max(I)}], data[Max(I)])]
           g == Encodings(data)
<1>1. m \in Nat /\ DOMAIN data = 1 .. m /\ \A i \in 1 .. m : data[i] \in Bytes
    BY LenProperties, ElementOfSeq
<1>2. NoRun \in Accumulators
    BY DEF Accumulators, NoRun
<1>3. next \in [Accumulators \X (1 .. m) -> Accumulators]
    <2>1. ASSUME NEW acc \in Accumulators, NEW i \in 1 .. m
          PROVE  EscapeByte(acc, data[i]) \in Accumulators
        <3>1. data[i] \in Nat
            BY <1>1, ConstantsType DEF Bytes
        <3> QED BY <3>1, EscapeByteType
    <2> QED BY <2>1
<1>4. PICK f \in [SUBSET (1 .. m) -> Accumulators] : IsFold(f, NoRun, m, next)
    <2> HIDE DEF next, m
    <2> QED BY <1>1, <1>2, <1>3, FoldExists
<1>5. \A I \in SUBSET (1 .. m) : I # {} => Max(I) \in I /\ (\A y \in I : Max(I) >= y)
    <2> SUFFICES ASSUME NEW I \in SUBSET (1 .. m), I # {}
                 PROVE  Max(I) \in I /\ \A y \in I : Max(I) >= y
        OBVIOUS
    <2>1. I \subseteq 0 .. m
        OBVIOUS
    <2> HIDE DEF m
    <2> QED BY <1>1, <2>1, GreatestNumber DEF Max
<1>6. f = Body(f)
    <2>1. ASSUME NEW I \in SUBSET (1 .. m), I # {}
          PROVE  f[I] = EscapeByte(f[I \ {Max(I)}], data[Max(I)])
        <3>1. f[I] = next[<<f[I \ {Max(I)}], Max(I)>>]
            BY <1>4, <1>5, <2>1 DEF IsFold
        <3>2. I \ {Max(I)} \in SUBSET (1 .. m) /\ Max(I) \in 1 .. m
            BY <1>5, <2>1
        <3>3. f[I \ {Max(I)}] \in Accumulators
            BY <3>2
        <3> QED BY <3>1, <3>2, <3>3
    <2> HIDE DEF m
    <2> QED BY <1>4, <2>1 DEF IsFold
<1>7. g = Body(g)
    BY <1>1, <1>6 DEF Encodings
<1>8. Encoded(data) = g[DOMAIN data]
    BY Zenon DEF Encoded, FoldLeft, MapThenFoldSet, Encodings, g
<1> HIDE DEF g
<1>9. g[{}] = NoRun
    BY <1>7
<1>10. ASSUME NEW k \in 1 .. m
       PROVE  g[1 .. k] = EscapeByte(g[1 .. k - 1], data[k])
    <2>1. 1 .. k \in SUBSET (1 .. m) /\ 1 .. k # {}
        <3>1. m \in Nat /\ k \in 1 .. m
            BY <1>1
        <3> HIDE DEF m
        <3>2. \A i \in 1 .. k : i \in 1 .. m
            BY ONLY <3>1
        <3>3. k \in 1 .. k
            BY ONLY <3>1
        <3> QED BY <3>2, <3>3
    <2>2. Max(1 .. k) = k
        <3>1. Max(1 .. k) \in 1 .. k /\ Max(1 .. k) >= k
            <4> k \in 1 .. k
                BY <1>1
            <4> HIDE DEF m
            <4> QED BY <1>5, <2>1
        <3> QED BY <3>1
    <2>3. (1 .. k) \ {k} = 1 .. k - 1
        BY <1>1
    <2> HIDE DEF m
    <2> QED BY <1>7, <2>1, <2>2, <2>3
<1>11. \A k \in 0 .. m : Escaped(g[1 .. k], data, k)
    <2> DEFINE P == {k \in Nat : k <= m => Escaped(g[1 .. k], data, k)}
    <2>1. 0 \in P
        <3>1. 1 .. 0 = {} /\ Len(NoRun.out) = 0 /\ NoRun.out = <<>>
            BY DEF NoRun
        <3>2. IsCode(<<>>, data, 0, {0}, [o \in 0 .. 0 |-> 0])
            BY DEF IsCode, Codes
        <3>3. InRun(NoRun, {0})
            BY DEF InRun, NoRun
        <3>4. Escaped(NoRun, data, 0)
            BY <1>2, <3>1, <3>2, <3>3, EscapedBy
        <3> QED BY <1>9, <3>1, <3>4
    <2>2. ASSUME NEW k \in Nat, k \in P PROVE k + 1 \in P
        <3> SUFFICES ASSUME k + 1 <= m PROVE Escaped(g[1 .. k + 1], data, k + 1)
            OBVIOUS
        <3>1. Escaped(g[1 .. k], data, k)
            BY <1>1, <2>2
        <3>2. g[1 .. k + 1] = EscapeByte(g[1 .. k], data[k + 1])
            <4>1. k + 1 \in 1 .. m /\ k + 1 - 1 = k
                BY <1>1
            <4> QED BY <1>10, <4>1
        <3>3. data[k + 1] \in Bytes
            BY <1>1
        <3>4. Escaped(EscapeByte(g[1 .. k], data[k + 1]), data, k + 1)
            BY <3>1, <3>3, EscapeStep
        <3> QED BY <3>2, <3>4
    <2>3. Nat \subseteq P
        <3> HIDE DEF P
        <3> QED BY <2>1, <2>2, Induction
    <2> QED BY <1>1, <2>3
<1> HIDE DEF m
<1>12. Escaped(Encoded(data), data, m)
    <2>1. m \in 0 .. m
        BY <1>1
    <2> QED BY <1>1, <1>8, <1>11, <2>1
<1> HIDE DEF Encoded
<1>13. Encoded(data).out \in Seq(Nat)
    BY <1>12 DEF Escaped, Accumulators
<1>14. IsEncoded(Encoded(data).out, data, m)
    BY <1>12 DEF Escaped, IsEncoded
<1> QED BY <1>13, <1>14 DEF m

\* The lengths that decodedDataLen finds, from every position on.
Lengths(bytes) ==
    CHOOSE f : f = [o \in 1 .. Len(bytes) + 2 |->
                      CASE o > Len(bytes) -> 0
                        [] o <= Len(bytes) /\ bytes[o] # FF -> IF f[o + 1] = -1 THEN -1 ELSE 1 + f[o + 1]
                        [] OTHER -> IF bytes[o + 1] = 0 \/ f[o + 2] = -1 THEN -1
                                    ELSE Count(bytes[o + 1]) + f[o + 2]]

LengthAt(bytes, f, o) ==
    CASE o > Len(bytes) -> 0
      [] o <= Len(bytes) /\ bytes[o] # FF -> IF f[o + 1] = -1 THEN -1 ELSE 1 + f[o + 1]
      [] OTHER -> IF bytes[o + 1] = 0 \/ f[o + 2] = -1 THEN -1
                  ELSE Count(bytes[o + 1]) + f[o + 2]

\* The recursion of decodedDataLen is one: it asks for later positions only.
LEMMA LengthsExist ==
    ASSUME NEW bytes \in Seq(Nat)
    PROVE  \A o \in 1 .. Len(bytes) + 2 : Lengths(bytes)[o] = LengthAt(bytes, Lengths(bytes), o)
<1> DEFINE n == Len(bytes)
           IsFrom(f, k) == /\ f = [o \in 1 .. n + 2 |-> f[o]]
                           /\ \A o \in k .. n + 2 : f[o] = LengthAt(bytes, f, o)
           Exists(k) == \E f : IsFrom(f, k)
           P == {m \in Nat : m <= n + 1 => Exists(n + 2 - m)}
           Body(f) == [o \in 1 .. n + 2 |-> LengthAt(bytes, f, o)]
<1>0. n \in Nat
    BY LenProperties
<1>1. 0 \in P
    <2> DEFINE f == [o \in 1 .. n + 2 |-> 0]
    <2>1. \A o \in n + 2 .. n + 2 : f[o] = LengthAt(bytes, f, o)
        BY <1>0 DEF LengthAt
    <2>2. f = [o \in 1 .. n + 2 |-> f[o]]
        OBVIOUS
    <2>3. Exists(n + 2)
        <3> HIDE DEF f
        <3> QED BY <2>1, <2>2
    <2> HIDE DEF Exists
    <2> QED BY <2>3, <1>0
<1>2. ASSUME NEW m \in Nat, m \in P PROVE m + 1 \in P
    <2> SUFFICES ASSUME m + 1 <= n + 1 PROVE Exists(n + 2 - (m + 1))
        <3> HIDE DEF Exists
        <3> QED OBVIOUS
    <2> DEFINE k == n + 2 - m
    <2>0. Exists(k) /\ k \in 2 .. n + 2 /\ n + 2 - (m + 1) = k - 1
        <3> HIDE DEF Exists
        <3> QED BY <1>0, <1>2
    <2>1. PICK f : IsFrom(f, k)
        BY <2>0
    <2> DEFINE g == [f EXCEPT ![k - 1] = LengthAt(bytes, f, k - 1)]
    <2>2. g = [o \in 1 .. n + 2 |-> g[o]] /\ g[k - 1] = LengthAt(bytes, f, k - 1)
          /\ \A o \in k .. n + 2 : g[o] = f[o]
        <3>1. DOMAIN f = 1 .. n + 2
            BY <2>1
        <3>2. k - 1 \in 1 .. n + 2
            BY <2>0, <1>0
        <3>3. \A o \in k .. n + 2 : o # k - 1 /\ o \in 1 .. n + 2
            BY <2>0, <1>0
        <3> HIDE DEF n, k
        <3> QED BY <3>1, <3>2, <3>3
    <2>3. ASSUME NEW o \in k - 1 .. n + 2 PROVE g[o] = LengthAt(bytes, g, o)
        <3>0. k \in Nat /\ k >= 2 /\ o \in k - 1 .. n + 2
            <4> HIDE DEF Exists, n, k
            <4> QED BY ONLY <2>0, <1>0, <2>3
        <3>1. o \in Nat /\ (o = k - 1 \/ o \in k .. n + 2)
            <4> HIDE DEF n, k
            <4> QED BY ONLY <3>0, <1>0
        <3>2. o <= n => o + 1 \in k .. n + 2 /\ o + 2 \in k .. n + 2
            <4> HIDE DEF n, k
            <4> QED BY ONLY <3>0, <1>0, <3>1
        <3>3. g[o] = LengthAt(bytes, f, o)
            <4>1. CASE o = k - 1
                BY <2>2, <4>1
            <4>2. CASE o \in k .. n + 2
                BY <2>1, <2>2, <4>2
            <4> QED BY <3>1, <4>1, <4>2
        <3>4. LengthAt(bytes, g, o) = LengthAt(bytes, f, o)
            <4> HIDE DEF g, k
            <4>1. o <= n => g[o + 1] = f[o + 1] /\ g[o + 2] = f[o + 2]
                BY <2>2, <3>2
            <4> HIDE DEF n
            <4>2. Len(bytes) = n
                BY DEF n
            <4> QED BY ONLY <4>1, <4>2, <3>1, <1>0 DEF LengthAt
        <3> QED BY <3>3, <3>4
    <2>4. IsFrom(g, k - 1)
        <3> HIDE DEF g, k
        <3> QED BY <2>2, <2>3
    <2> HIDE DEF g, IsFrom, k
    <2> QED BY <2>0, <2>4
<1>3. Exists(1)
    <2>1. Nat \subseteq P
        <3> HIDE DEF P
        <3> QED BY <1>1, <1>2, Induction
    <2>2. n + 1 \in P /\ n + 2 - (n + 1) = 1
        <3> HIDE DEF P
        <3>1. n + 1 \in Nat
            BY <1>0
        <3> HIDE DEF n
        <3> QED BY <1>0, <2>1, <3>1
    <2> HIDE DEF Exists
    <2> QED BY <2>2, <1>0
<1>4. PICK f : IsFrom(f, 1)
    BY <1>3
<1>5. f = Body(f)
    BY <1>4
<1>6. Lengths(bytes) = Body(Lengths(bytes))
    BY <1>5, Zenon DEF Lengths, LengthAt
<1> HIDE DEF Lengths
<1> QED BY <1>6

\* What was encoded is as long as the data, behind any code (decodedDataLen).
LEMMA DecodedLength ==
    ASSUME NEW out \in Seq(Nat), NEW data, NEW n \in Nat, NEW B, NEW L, IsCode(out, data, n, B, L)
    PROVE  decodedDataLen(out) = n
<1> DEFINE m == Len(out)
           len == Lengths(out)
           P == {k \in Nat : \A o \in B : o + k >= m => len[o + 1] = n - L[o]}
<1>0. m \in Nat
    BY LenProperties
<1>1. /\ B \subseteq 0 .. m /\ 0 \in B /\ m \in B
      /\ L \in [0 .. m -> 0 .. n] /\ L[0] = 0 /\ L[m] = n
      /\ Codes(out, data, B, L)
    BY DEF IsCode
<1>2. \A o \in 1 .. m + 2 : len[o] = LengthAt(out, len, o)
    BY LengthsExist
<1>3. \A o \in B : o \in 0 .. m /\ L[o] \in 0 .. n
    BY <1>1
<1> HIDE DEF len
<1>4. len[m + 1] = 0
    <2>1. m + 1 \in 1 .. m + 2 /\ m + 1 > m /\ ~ (m + 1 <= m)
        BY <1>0
    <2>2. LengthAt(out, len, m + 1) = 0
        BY ONLY <2>1 DEF LengthAt
    <2> QED BY <1>2, <2>1, <2>2
<1>5. 0 \in P
    <2> SUFFICES ASSUME NEW o \in B, o + 0 >= m PROVE len[o + 1] = n - L[o]
        OBVIOUS
    <2>1. o = m
        BY <1>0, <1>3
    <2> QED BY <2>1, <1>1, <1>4
<1>6. ASSUME NEW k \in Nat, k \in P PROVE k + 1 \in P
    <2> SUFFICES ASSUME NEW o \in B, o + (k + 1) >= m PROVE len[o + 1] = n - L[o]
        OBVIOUS
    <2>n. n \in Nat
        OBVIOUS
    <2>0. o \in 0 .. m /\ L[o] \in 0 .. n
        BY <1>3
    <2>1. CASE o = m
        BY <2>1, <1>1, <1>4
    <2>2. CASE o < m /\ PlainCode(out, data, B, L, o)
        <3>1. o + 1 \in B /\ out[o + 1] # FF /\ L[o + 1] = L[o] + 1
            BY <2>2 DEF PlainCode
        <3>2. L[o + 1] \in 0 .. n
            BY <1>3, <3>1
        <3>3. len[(o + 1) + 1] = n - L[o + 1]
            <4>1. (o + 1) + k >= m
                BY <2>0, <1>0
            <4> HIDE DEF m
            <4> QED BY <1>6, <3>1, <4>1
        <3>4. len[o + 1] = LengthAt(out, len, o + 1)
            <4>1. o + 1 \in 1 .. m + 2
                BY <1>0, <2>0
            <4> QED BY <1>2, <4>1
        <3>5. o + 1 <= m
            BY <1>0, <2>0, <2>2
        <3>6. len[o + 1] = IF len[(o + 1) + 1] = -1 THEN -1 ELSE 1 + len[(o + 1) + 1]
            BY <1>0, <2>0, <3>1, <3>4, <3>5 DEF LengthAt
        <3> HIDE DEF m
        <3>7. n - L[o + 1] # -1
            BY ONLY <2>n, <3>2
        <3>8. len[o + 1] = 1 + (n - L[o + 1])
            BY ONLY <3>3, <3>6, <3>7
        <3> QED BY ONLY <2>n, <2>0, <3>1, <3>8
    <2>3. CASE o < m /\ RunCode(out, data, B, L, o)
        <3>1. /\ o + 2 \in B /\ out[o + 1] = FF /\ out[o + 2] # 0
              /\ Count(out[o + 2]) \in Nat /\ L[o + 2] = L[o] + Count(out[o + 2])
            BY <2>3 DEF RunCode
        <3>2. L[o + 2] \in 0 .. n
            BY <1>3, <3>1
        <3>3. len[(o + 1) + 2] = n - L[o + 2] /\ (o + 1) + 1 = o + 2
            <4>1. (o + 2) + k >= m /\ (o + 2) + 1 = (o + 1) + 2 /\ (o + 1) + 1 = o + 2
                BY <2>0, <1>0
            <4>2. len[(o + 2) + 1] = n - L[o + 2]
                BY <1>6, <3>1, <4>1
            <4> QED BY <4>1, <4>2
        <3>4. len[o + 1] = LengthAt(out, len, o + 1)
            <4>1. o + 1 \in 1 .. m + 2
                BY <1>0, <2>0
            <4> QED BY <1>2, <4>1
        <3>5. o + 1 <= m /\ ~ (o + 1 > m)
            BY <1>0, <2>0, <2>3
        <3>6. len[o + 1] = IF out[(o + 1) + 1] = 0 \/ len[(o + 1) + 2] = -1 THEN -1
                           ELSE Count(out[(o + 1) + 1]) + len[(o + 1) + 2]
            BY <3>1, <3>4, <3>5 DEF LengthAt
        <3> DEFINE c == Count(out[o + 2])
        <3>7. len[o + 1] = c + (n - L[o + 2])
            BY <3>1, <3>2, <3>3, <3>6
        <3> HIDE DEF c
        <3>8. c \in Nat /\ L[o + 2] = L[o] + c
            BY <3>1 DEF c
        <3> QED BY <2>0, <3>2, <3>7, <3>8
    <2> QED BY <1>0, <1>1, <2>0, <2>1, <2>2, <2>3 DEF Codes
<1>7. len[1] = n
    <2>1. m \in P
        <3>1. Nat \subseteq P
            <4> HIDE DEF P
            <4> QED BY <1>5, <1>6, Induction
        <3> QED BY <1>0, <3>1
    <2>2. 0 + m >= m /\ 0 + 1 = 1 /\ n - 0 = n
        BY <1>0
    <2> QED BY <2>1, <2>2, <1>1
<1>8. decodedDataLen(out) = IF len[1] = -1 THEN 0 ELSE len[1]
    BY Zenon DEF decodedDataLen, Lengths, len
<1> QED BY <1>7, <1>8

\* What the client's decoder has read and written agrees with the data.
Decoding(B, L) ==
    /\ offset \in B /\ decoded \in Seq(Nat) /\ Len(decoded) = L[offset]
    /\ \A j \in 1 .. L[offset] : decoded[j] = plain[j]

IsDecoding == \E B \in SUBSET Nat, L \in [0 .. Len(escaped) -> Nat] :
                  IsCode(escaped, plain, Len(plain), B, L) /\ Decoding(B, L)

WithoutZero == dec_size = Len(escaped) /\ (escaped # <<>> => Last(escaped) # 0)

Coded ==
    /\ coding # "overread" /\ escaped \in Seq(Nat) /\ decodedDataLen(escaped) = Len(plain)
    /\ coding = "decoding" => IsDecoding
    /\ coding = "done" => decoded = plain

CodingInv ==
    /\ plain \in Seq(Bytes)
    /\ coding \in {"escape", "unescape"} => offset = 0 /\ decoded = <<>>
    /\ coding = "unescape" =>
          /\ Encoded(plain).out \in Seq(Nat) /\ escaped = Append(Encoded(plain).out, 0)
          /\ IsEncoded(Encoded(plain).out, plain, Len(plain))
    /\ coding \in {"decoding", "done", "overread"} /\ WithoutZero => Coded

LEMMA CodingInitInv == CodingInit => CodingInv
<1> SUFFICES ASSUME CodingInit PROVE CodingInv
    OBVIOUS
<1>1. plain \in Seq(Bytes)
    <2>1. plain \in BoundedSeq(DataBytes, MaxBytes)
        BY DEF CodingInit
    <2>2. plain \in Seq(DataBytes)
        BY <2>1 DEF BoundedSeq, SeqOf
    <2> QED BY <2>2, ConstantsType
<1> QED BY <1>1 DEF CodingInit, CodingInv

LEMMA EscapeInv == CodingInv /\ escapeDataToData => CodingInv'
<1> SUFFICES ASSUME CodingInv, escapeDataToData PROVE CodingInv'
    OBVIOUS
<1> DEFINE out == Encoded(plain).out
<1>1. coding = "escape" /\ coding' \in {"unescape", "overrun"}
    BY DEF escapeDataToData
<1>2. plain \in Seq(Bytes) /\ plain' = plain /\ offset' = 0 /\ decoded' = <<>>
    BY <1>1 DEF CodingInv, escapeDataToData
<1>3. escaped' = Append(out, 0)
    BY DEF escapeDataToData, Encoded, NoRun
<1>4. out \in Seq(Nat) /\ IsEncoded(out, plain, Len(plain))
    BY <1>2, EscapeEncodes
<1> HIDE DEF out
<1>5. coding' \notin {"decoding", "done", "overread"}
    BY <1>1
<1>6. Encoded(plain').out = out
    BY <1>2 DEF out
<1> QED BY <1>2, <1>3, <1>4, <1>5, <1>6 DEF CodingInv

LEMMA UnescapeBeginInv == CodingInv /\ UnescapeBegin => CodingInv'
<1> SUFFICES ASSUME CodingInv, UnescapeBegin PROVE CodingInv'
    OBVIOUS
<1> DEFINE out == Encoded(plain).out
           n == Len(plain)
<1>1. /\ coding = "unescape" /\ UNCHANGED <<plain, offset, decoded>>
      /\ escaped' \in {escaped, Front(escaped)}
      /\ coding' \in {"done", "aborted", "decoding"}
      /\ coding' = "done" => decodedDataLen(escaped') = 0
    BY DEF UnescapeBegin
<1>2. /\ plain \in Seq(Bytes) /\ offset = 0 /\ decoded = <<>>
      /\ out \in Seq(Nat) /\ escaped = Append(out, 0) /\ IsEncoded(out, plain, n)
    BY <1>1 DEF CodingInv
<1>3. n \in Nat /\ Len(out) \in Nat
    BY <1>2, LenProperties
<1> HIDE DEF out, n
<1>4. ASSUME WithoutZero' PROVE Coded'
    <2>1. Last(escaped) = 0 /\ escaped # <<>> /\ Front(escaped) = out
        <3>1. /\ Len(escaped) = Len(out) + 1 /\ escaped[Len(out) + 1] = 0
              /\ \A i \in 1 .. Len(out) : escaped[i] = out[i]
            BY <1>2, AppendProperties
        <3>2. Last(escaped) = 0 /\ escaped # <<>>
            BY <3>1, <1>3 DEF Last
        <3>3. Front(escaped) = out
            BY <1>2, <1>3, <3>1 DEF Front
        <3> QED BY <3>2, <3>3
    <2>2. escaped' = out
        BY <1>1, <1>4, <2>1 DEF WithoutZero
    <2>3. PICK B \in SUBSET Nat : \E L \in [0 .. Len(out) -> Nat] : IsCode(out, plain, n, B, L)
        BY <1>2 DEF IsEncoded
    <2>4. PICK L \in [0 .. Len(out) -> Nat] : IsCode(out, plain, n, B, L)
        BY <2>3
    <2>5. decodedDataLen(out) = n
        BY <1>2, <1>3, <2>4, DecodedLength
    <2>6. 0 \in B /\ L[0] = 0
        BY <2>4 DEF IsCode
    <2>7. plain' = plain /\ offset' = 0 /\ decoded' = <<>>
        BY <1>1, <1>2
    <2>8. Decoding(B, L)'
        BY <2>6, <2>7 DEF Decoding
    <2>9. IsDecoding'
        <3>1. IsCode(escaped', plain', Len(plain'), B, L) /\ L \in [0 .. Len(escaped') -> Nat]
            BY <2>2, <2>4, <2>7 DEF n
        <3> QED BY <2>8, <3>1 DEF IsDecoding
    <2>10. coding' = "done" => decoded' = plain'
        <3> SUFFICES ASSUME coding' = "done" PROVE plain = <<>>
            BY <2>7
        <3>1. Len(plain) = 0
            BY <1>1, <2>2, <2>5 DEF n
        <3> QED BY <1>2, <3>1, EmptySeq
    <2> QED BY <1>1, <1>2, <2>2, <2>5, <2>7, <2>9, <2>10 DEF Coded, n
<1>5. plain' \in Seq(Bytes) /\ coding' \notin {"escape", "unescape"}
    BY <1>1, <1>2
<1> QED BY <1>4, <1>5 DEF CodingInv

LEMMA UnescapeRoundInv == CodingInv /\ UnescapeRound => CodingInv'
<1> SUFFICES ASSUME CodingInv, UnescapeRound PROVE CodingInv'
    OBVIOUS
<1> DEFINE n == Len(plain)
           m == Len(escaped)
<1>1. /\ coding = "decoding" /\ UNCHANGED <<plain, escaped, dec_size>>
      /\ coding' \in {"done", "overread", "decoding"}
    BY DEF UnescapeRound
<1>2. plain \in Seq(Bytes) /\ n \in Nat
    BY LenProperties DEF CodingInv
<1>3. ASSUME WithoutZero' PROVE Coded'
    <2>0. WithoutZero /\ dec_size = m
        BY <1>1, <1>3 DEF WithoutZero
    <2>1. escaped \in Seq(Nat) /\ decodedDataLen(escaped) = n /\ IsDecoding
        BY <1>1, <2>0 DEF CodingInv, Coded
    <2>2. PICK B \in SUBSET Nat : \E L \in [0 .. m -> Nat] :
                 IsCode(escaped, plain, n, B, L) /\ Decoding(B, L)
        BY <2>1 DEF IsDecoding
    <2>3. PICK L \in [0 .. m -> Nat] : IsCode(escaped, plain, n, B, L) /\ Decoding(B, L)
        BY <2>2
    <2>4. /\ B \subseteq 0 .. m /\ L[m] = n /\ Codes(escaped, plain, B, L)
          /\ L \in [0 .. m -> 0 .. n]
        BY <2>3 DEF IsCode
    <2>5. /\ offset \in B /\ decoded \in Seq(Nat) /\ Len(decoded) = L[offset]
          /\ \A j \in 1 .. L[offset] : decoded[j] = plain[j]
        BY <2>3 DEF Decoding
    <2>6. m \in Nat /\ offset \in 0 .. m /\ L[offset] \in Nat
        BY <2>1, <2>4, <2>5, LenProperties
    <2>7. CASE offset = m
        <3>1. coding' = "done" /\ decoded' = decoded
            BY <2>0, <2>6, <2>7 DEF UnescapeRound
        <3>2. decoded = plain
            <4>1. Len(decoded) = n /\ \A j \in 1 .. n : decoded[j] = plain[j]
                BY <2>4, <2>5, <2>7
            <4>2. decoded = [j \in 1 .. n |-> decoded[j]] /\ plain = [j \in 1 .. n |-> plain[j]]
                BY <1>2, <2>5, <4>1, LenProperties
            <4> QED BY <4>1, <4>2
        <3> QED BY <1>1, <2>1, <3>1, <3>2 DEF Coded
    <2>8. CASE offset < m
        <3> DEFINE byte == escaped[offset + 1]
                   count == escaped[offset + 2]
                   more == [k \in 1 .. Count(count) |-> IF count >= UPPER THEN FF ELSE 0]
        <3>1. /\ coding' = "decoding"
              /\ byte = FF => offset' = offset + 2 /\ decoded' = decoded \o more
              /\ byte # FF => offset' = offset + 1 /\ decoded' = Append(decoded, byte)
            <4>1. offset # dec_size /\ offset # Len(escaped)
                BY <2>0, <2>6, <2>8
            <4>2. /\ coding' = coding
                  /\ IF byte = FF
                       THEN offset' = offset + 2 /\ decoded' = decoded \o more
                       ELSE offset' = offset + 1 /\ decoded' = Append(decoded, byte)
                BY <4>1, Zenon DEF UnescapeRound, byte, count, more
            <4> HIDE DEF byte, count, more
            <4> QED BY <1>1, <4>2
        <3>2. PlainCode(escaped, plain, B, L, offset) \/ RunCode(escaped, plain, B, L, offset)
            BY <2>4, <2>5, <2>8 DEF Codes
        <3>3. Decoding(B, L)'
            <4>1. CASE PlainCode(escaped, plain, B, L, offset)
                <5>1. /\ byte # FF /\ offset + 1 \in B
                      /\ L[offset + 1] = L[offset] + 1 /\ plain[L[offset] + 1] = byte
                    BY <4>1 DEF PlainCode
                <5>2. byte \in Nat
                    <6> offset + 1 \in 1 .. m
                        BY <2>6, <2>8
                    <6> QED BY <2>1, ElementOfSeq
                <5>3. offset' = offset + 1 /\ decoded' = Append(decoded, byte)
                    BY <3>1, <5>1
                <5> HIDE DEF byte
                <5>4. /\ decoded' \in Seq(Nat) /\ Len(decoded') = L[offset] + 1
                      /\ decoded'[L[offset] + 1] = byte
                      /\ \A j \in 1 .. L[offset] : decoded'[j] = decoded[j]
                    <6>1. decoded \in Seq(Nat) /\ Len(decoded) = L[offset]
                        BY <2>5
                    <6>2. /\ Append(decoded, byte) \in Seq(Nat)
                          /\ Len(Append(decoded, byte)) = Len(decoded) + 1
                          /\ \A j \in 1 .. Len(decoded) : Append(decoded, byte)[j] = decoded[j]
                          /\ Append(decoded, byte)[Len(decoded) + 1] = byte
                        BY ONLY <6>1, <5>2, AppendProperties
                    <6> QED BY ONLY <6>1, <6>2, <5>3
                <5>5. \A j \in 1 .. L[offset] + 1 : decoded'[j] = plain[j]
                    <6> SUFFICES ASSUME NEW j \in 1 .. L[offset] + 1 PROVE decoded'[j] = plain[j]
                        OBVIOUS
                    <6>1. j \in 1 .. L[offset] \/ j = L[offset] + 1
                        BY <2>6
                    <6> QED BY <2>5, <5>1, <5>4, <6>1
                <5> QED BY <1>1, <5>1, <5>3, <5>4, <5>5 DEF Decoding
            <4>2. CASE RunCode(escaped, plain, B, L, offset)
                <5> DEFINE c == Count(count)
                           l == L[offset]
                <5>1. /\ byte = FF /\ offset + 2 \in B /\ c \in Nat
                      /\ L[offset + 2] = l + c
                      /\ \A j \in l + 1 .. L[offset + 2] : plain[j] = IF count >= UPPER THEN FF ELSE 0
                    BY <4>2 DEF RunCode
                <5>2. offset' = offset + 2 /\ decoded' = decoded \o more
                    BY <3>1, <5>1
                <5>3. more \in Seq(Nat) /\ Len(more) = c
                      /\ \A k \in 1 .. c : more[k] = IF count >= UPPER THEN FF ELSE 0
                    <6> DEFINE v == IF count >= UPPER THEN FF ELSE 0
                    <6>1. v \in Nat /\ more = [k \in 1 .. c |-> v]
                        BY ConstantsType
                    <6> HIDE DEF v, c, more
                    <6>2. more \in Seq(Nat) /\ Len(more) = c
                        BY <5>1, <6>1
                    <6>3. \A k \in 1 .. c : more[k] = v
                        BY <6>1
                    <6> QED BY <6>2, <6>3 DEF v
                <5> HIDE DEF more, c, l
                <5>4. /\ decoded' \in Seq(Nat) /\ Len(decoded') = l + c
                      /\ \A j \in 1 .. l : decoded'[j] = decoded[j]
                      /\ \A j \in l + 1 .. l + c : decoded'[j] = more[j - l]
                    <6>1. Len(decoded) = l
                        BY <2>5 DEF l
                    <6>2. decoded \in Seq(Nat) /\ more \in Seq(Nat)
                        BY <2>5, <5>3
                    <6>3. /\ decoded' \in Seq(Nat) /\ Len(decoded') = Len(decoded) + Len(more)
                          /\ \A j \in 1 .. Len(decoded) : decoded'[j] = decoded[j]
                          /\ \A j \in Len(decoded) + 1 .. Len(decoded) + Len(more) :
                                decoded'[j] = more[j - Len(decoded)]
                        <7> DEFINE all == decoded \o more
                        <7>1. all \in Seq(Nat) /\ Len(all) = Len(decoded) + Len(more)
                            BY <6>2, ConcatProperties
                        <7>2. \A j \in 1 .. Len(all) :
                                 all[j] = IF j <= Len(decoded) THEN decoded[j] ELSE more[j - Len(decoded)]
                            BY <6>2, ConcatProperties
                        <7>3. Len(decoded) \in Nat /\ Len(more) \in Nat /\ decoded' = all
                            BY <5>2, <6>2, LenProperties
                        <7> HIDE DEF all
                        <7>4. \A j \in 1 .. Len(decoded) :
                                 j \in 1 .. Len(all) /\ j <= Len(decoded)
                            BY ONLY <7>1, <7>3
                        <7>5. \A j \in Len(decoded) + 1 .. Len(decoded) + Len(more) :
                                 j \in 1 .. Len(all) /\ ~(j <= Len(decoded))
                            BY ONLY <7>1, <7>3
                        <7>6. \A j \in 1 .. Len(decoded) : all[j] = decoded[j]
                            BY ONLY <7>2, <7>4
                        <7>7. \A j \in Len(decoded) + 1 .. Len(decoded) + Len(more) :
                                 all[j] = more[j - Len(decoded)]
                            BY ONLY <7>2, <7>5
                        <7> QED BY ONLY <7>1, <7>3, <7>6, <7>7
                    <6>4. Len(more) = c
                        BY <5>3
                    <6> QED BY ONLY <6>1, <6>3, <6>4
                <5>5. ASSUME NEW j \in 1 .. l + c PROVE decoded'[j] = plain[j]
                    <6>0. l \in Nat
                        BY <2>6 DEF l
                    <6>1. CASE j \in 1 .. l
                        <7>1. decoded[j] = plain[j]
                            BY <2>5, <6>1 DEF l
                        <7> QED BY <5>4, <6>1, <7>1
                    <6>2. CASE j \in l + 1 .. l + c
                        <7>1. j - l \in 1 .. c
                            BY <5>1, <6>0, <6>2
                        <7> QED BY <5>1, <5>3, <5>4, <6>2, <7>1
                    <6> QED BY <5>1, <6>0, <6>1, <6>2
                <5> QED BY <1>1, <5>1, <5>2, <5>4, <5>5 DEF Decoding
            <4> QED BY <3>2, <4>1, <4>2
        <3>4. IsDecoding'
            BY <1>1, <2>3, <3>3 DEF IsDecoding
        <3> QED BY <1>1, <2>1, <3>1, <3>4 DEF Coded
    <2> QED BY <2>6, <2>7, <2>8
<1>4. coding' \notin {"escape", "unescape"} /\ plain' \in Seq(Bytes)
    BY <1>1, <1>2
<1> QED BY <1>3, <1>4 DEF CodingInv

LEMMA CodingStep == CodingInv /\ [Next]_vars => CodingInv'
<1> SUFFICES ASSUME CodingInv, [Next]_vars PROVE CodingInv'
    OBVIOUS
<1>1. CASE UNCHANGED codingVars
    BY <1>1 DEF CodingInv, codingVars, Coded, WithoutZero, IsDecoding, Decoding
<1>2. CASE CodingNext
    BY <1>2, EscapeInv, UnescapeBeginInv, UnescapeRoundInv DEF CodingNext
<1> QED BY <1>1, <1>2 DEF Next, vars

\* Whatever the data, and in runs of any length: what decodes the encoded bytes
\* has the data back when it returns (escapeDataToData, unescapeBytesToData).
THEOREM AlwaysCodingRoundTrips == Spec => []CodingRoundTrips
<1>1. Init => CodingInv
    BY CodingInitInv DEF Init
<1>2. CodingInv => CodingRoundTrips
    <2> SUFFICES ASSUME CodingInv, WithoutZero, coding \in {"done", "overread"}
                 PROVE  coding = "done" /\ decoded = plain /\ decodedDataLen(escaped) = Len(plain)
        BY DEF CodingRoundTrips, WithoutZero
    <2> QED BY DEF CodingInv, Coded
<1> QED BY <1>1, <1>2, CodingStep, PTL DEF Spec

-----------------------------------------------------------------------------
(* The partitions of the proxy data *)

\* The places that partVars lists: as many as m from the first one on, with all the
\* partition's own variables and no other.
Stretch(data, part, m) ==
    LET first == part + HEADER_TEXTS
    IN /\ partVars(data, part) = [i \in 1 .. m |-> first + i - 1]
       /\ \A k \in OwnPlaces(data, part) : k < first + m
       /\ \A k \in first .. first + m - 1 : varName(data[k]) # NoName => k \in OwnPlaces(data, part)

LEMMA PartVarsStretch ==
    ASSUME NEW data, data \in Seq(Range(data)), NEW part, IsPartition(data, part)
    PROVE  part \in Nat /\ \E m \in Nat \ {0} : Stretch(data, part, m)
<1> DEFINE first == part + HEADER_TEXTS
           next == part + size_bytes(data, part)
           ends == {k \in first + 1 .. Len(data) : isEmpty(data[k])}
           end == CHOOSE k \in ends : \A j \in ends : k <= j
<1>1. Len(data) \in Nat /\ part \in 1 .. Len(data)
    BY LenProperties DEF IsPartition
<1>2. part \in Nat /\ first \in Nat /\ next \in Nat /\ first <= next
    <2>1. size_bytes(data, part) \in Nat /\ first <= next
        BY DEF IsPartition
    <2>2. HEADER_TEXTS \in Nat
        BY DEF HEADER_TEXTS
    <2> QED BY ONLY <1>1, <2>1, <2>2
<1>3. PICK e \in next + 1 .. Len(data) : isEmpty(data[e]) /\ \A k \in next .. e : varName(data[k]) = NoName
    BY DEF IsPartition
<1>4. \A k \in first .. next - 1 : isEmpty(data[k]) => \A j \in k .. next - 1 : isEmpty(data[j])
    BY DEF IsPartition
<1>5. partVars(data, part) = [i \in 1 .. end - first |-> first + i - 1]
    BY DEF partVars
<1>6. OwnPlaces(data, part) = {k \in first .. next - 1 : varName(data[k]) # NoName}
    <2>1. size_bytes(data, part) \in Nat
        BY DEF IsPartition
    <2>2. part + size_bytes(data, part) - 1 = next - 1
        BY ONLY <1>2, <2>1
    <2> QED BY <2>2 DEF OwnPlaces
<1> HIDE DEF first, next
<1>7. e \in ends
    BY <1>1, <1>2, <1>3
<1>8. ends \subseteq Nat
    BY <1>1, <1>2
<1>9. end \in ends /\ \A j \in ends : end <= j
    <2> HIDE DEF ends
    <2> QED BY <1>7, <1>8, LeastNumber
<1>10. end \in first + 1 .. Len(data) /\ isEmpty(data[end])
    <2> HIDE DEF end
    <2> QED BY <1>9
<1>11. end <= e
    BY <1>7, <1>9
<1> HIDE DEF end, ends
<1>12. ASSUME NEW k \in OwnPlaces(data, part) PROVE k < end
    <2>1. k \in first .. next - 1 /\ varName(data[k]) # NoName
        BY <1>6
    <2>2. SUFFICES ASSUME end <= k PROVE FALSE
        BY <1>1, <1>2, <1>10, <2>1
    <2>3. end \in first .. next - 1 /\ k \in end .. next - 1
        BY <1>1, <1>2, <1>10, <2>1, <2>2
    <2>4. isEmpty(data[k])
        BY <1>4, <1>10, <2>3
    <2> QED BY <2>1, <2>4 DEF isEmpty, varName
<1>13. ASSUME NEW k \in first .. end - 1, varName(data[k]) # NoName PROVE k \in OwnPlaces(data, part)
    <2>1. k \notin next .. e
        BY <1>3, <1>13
    <2>2. k \in first .. next - 1
        BY <1>1, <1>2, <1>3, <1>10, <1>11, <2>1
    <2> QED BY <1>6, <1>13, <2>2
<1>14. end - first \in Nat \ {0} /\ first + (end - first) = end
    BY <1>1, <1>2, <1>10
<1>15. first + (end - first) - 1 = end - 1
    BY <1>2, <1>10
<1> DEFINE m == end - first
<1>16. Stretch(data, part, m)
    <2>1. partVars(data, part) = [i \in 1 .. m |-> first + i - 1]
        BY <1>5
    <2>2. \A k \in OwnPlaces(data, part) : k < first + m
        BY <1>12, <1>14
    <2>3. \A k \in first .. first + m - 1 : varName(data[k]) # NoName => k \in OwnPlaces(data, part)
        BY <1>13, <1>15
    <2> QED BY <2>1, <2>2, <2>3 DEF Stretch, first
<1> QED BY <1>2, <1>14, <1>16

\* A lookup in a partition finds its own variable, or none.
LEMMA VarNamedIsOwn ==
    ASSUME NEW data, data \in Seq(Range(data)), NEW part, IsPartition(data, part),
           NEW name, name # NoName
    PROVE  /\ varValue(data, varNamed(data, part, name)) = OwnValue(data, part, name)
           /\ varNamed(data, part, name) = NoVar <=> ~Owns(data, part, name)
<1> DEFINE first == part + HEADER_TEXTS
           places == partVars(data, part)
           I == {i \in 1 .. Len(places) : varName(data[places[i]]) = name}
           found == SelectInSeq(places, LAMBDA k : varName(data[k]) = name)
           K == PlacesNamed(data, part, name)
<1>1. PICK m \in Nat \ {0} : Stretch(data, part, m)
    BY PartVarsStretch
<1>2. first \in Nat \ {0}
    BY PartVarsStretch DEF HEADER_TEXTS
<1>3. places = [i \in 1 .. m |-> first + i - 1]
    BY <1>1 DEF Stretch
<1>4. Len(places) = m /\ \A i \in 1 .. m : places[i] = first + i - 1
    <2> HIDE DEF places, first
    <2>1. places \in Seq(Int)
        BY <1>2, <1>3
    <2> QED BY <1>1, <1>3, <2>1
<1>5. found = IF I # {} THEN Min(I) ELSE 0
    BY DEF SelectInSeq
<1>6. varNamed(data, part, name) = IF found = 0 THEN NoVar ELSE places[found]
    BY DEF varNamed
<1>7. OwnPlaces(data, part) \subseteq Nat /\ \A k \in OwnPlaces(data, part) : k \in first .. first + m - 1
    <2>1. \A k \in OwnPlaces(data, part) : k \in first .. part + size_bytes(data, part) - 1
        BY DEF OwnPlaces
    <2>2. part + size_bytes(data, part) \in Nat
        BY PartVarsStretch DEF IsPartition
    <2>3. \A k \in OwnPlaces(data, part) : k < first + m
        BY <1>1 DEF Stretch
    <2> HIDE DEF first
    <2> QED BY <1>1, <1>2, <2>1, <2>2, <2>3
<1>8. \A k \in first .. first + m - 1 : varName(data[k]) # NoName => k \in OwnPlaces(data, part)
    BY <1>1 DEF Stretch
<1>9. K = {k \in OwnPlaces(data, part) : varName(data[k]) = name}
    BY DEF PlacesNamed
<1>10. \A i \in I : first + i - 1 \in K
    <2> SUFFICES ASSUME NEW i \in I PROVE first + i - 1 \in K
        OBVIOUS
    <2>1. i \in 1 .. m /\ varName(data[first + i - 1]) = name
        BY <1>4
    <2> HIDE DEF I, first
    <2>2. first + i - 1 \in first .. first + m - 1
        BY <1>1, <1>2, <2>1
    <2> QED BY <1>8, <1>9, <2>1, <2>2
<1>11. \A k \in K : k - first + 1 \in I
    <2> SUFFICES ASSUME NEW k \in K PROVE k - first + 1 \in I
        OBVIOUS
    <2>1. k \in first .. first + m - 1 /\ varName(data[k]) = name
        BY <1>7, <1>9
    <2> HIDE DEF first, K
    <2>2. k - first + 1 \in 1 .. m /\ first + (k - first + 1) - 1 = k
        BY <1>1, <1>2, <2>1
    <2>3. places[k - first + 1] = k
        BY <1>4, <2>2
    <2> HIDE DEF places
    <2> QED BY <1>4, <2>1, <2>2, <2>3
<1>12. I \subseteq Nat /\ K \subseteq Nat
    <2>1. I \subseteq Nat
        BY <1>1, <1>4
    <2>2. K \subseteq Nat
        BY <1>7, <1>9
    <2> QED BY <2>1, <2>2
<1>13. Owns(data, part, name) <=> K # {}
    BY DEF Owns
<1>14. OwnValue(data, part, name) = IF K # {} THEN data[Min(K)].words ELSE Null
    BY <1>13 DEF OwnValue
<1>15. I \subseteq 1 .. m
    BY <1>4
<1> HIDE DEF I, K, found, first, places
<1>16. CASE I = {}
    <2>1. K = {} /\ found = 0
        BY <1>5, <1>11, <1>16
    <2>2. varNamed(data, part, name) = NoVar
        BY <1>6, <2>1
    <2> QED BY <1>13, <1>14, <2>1, <2>2 DEF varValue
<1>17. CASE I # {}
    <2>1. found = Min(I) /\ found \in I
        BY <1>5, <1>12, <1>17, FirstIndex
    <2>2. first + found - 1 \in K
        BY <1>10, <2>1
    <2>3. \A i \in I : found <= i
        BY <1>12, <1>17, <2>1, LeastNumber DEF Min
    <2>4. found \in 1 .. m
        BY <1>15, <2>1
    <2>5. K # {} /\ Min(K) \in K /\ \A k \in K : Min(K) <= k
        BY <1>12, <2>2, LeastNumber DEF Min
    <2>6. Min(K) = first + found - 1
        <3>1. Min(K) <= first + found - 1
            BY <2>2, <2>5
        <3>2. found <= Min(K) - first + 1
            BY <1>11, <2>3, <2>5
        <3>3. Min(K) \in Nat
            BY <1>12, <2>5
        <3> QED BY <1>2, <2>4, <3>1, <3>2, <3>3
    <2>7. varNamed(data, part, name) = first + found - 1 /\ first + found - 1 # NoVar
        BY <1>1, <1>2, <1>4, <1>6, <2>4 DEF NoVar
    <2> QED BY <1>13, <1>14, <2>5, <2>6, <2>7 DEF varValue
<1> QED BY <1>16, <1>17

-----------------------------------------------------------------------------
(* What the programs read of the NVRAM *)

\* What jev-nvram-dump has printed.
NvramInv ==
    /\ image \in Images
    /\ names = [p \in Parts |-> names[p]] /\ args = [p \in Parts |-> args[p]]
    /\ ListsItsPartition

\* What jev-dtree-dump has taken from the proxy data.
TakesItsPartition ==
    LET t == ProxyData(tree)
        data == DataAt(tree, t)
    IN /\ phase # "dump" /\ t[2] # Nil =>
             boot_args = OwnValue(data, system_part(data), "boot-args")
       /\ phase = "nvram" =>
             group = IF Owns(data, common_part, "dt-patches")
                       THEN OwnValue(data, common_part, "dt-patches") ELSE <<>>

LEMMA PartsArePartitions ==
    ASSUME image \in Images, NEW p \in Parts
    PROVE  image \in Seq(Range(image)) /\ IsPartition(image, Part(p))
<1>1. IsProxyData(image)
    BY NvramDumpAssumption
<1> QED BY <1>1 DEF IsProxyData, Part

\* The names of a stretch are those of the partition's variables.
LEMMA NamesAreOwn ==
    ASSUME image \in Images, NEW p \in Parts, NEW list,
           list = [i \in DOMAIN partVars(image, Part(p)) |->
                     varName(image[partVars(image, Part(p))[i]])]
    PROVE  LET first == Part(p) + HEADER_TEXTS
               own == OwnPlaces(image, Part(p))
           IN /\ \A i \in DOMAIN list :
                    list[i] = IF first + i - 1 \in own
                                THEN varName(image[first + i - 1]) ELSE NoName
              /\ \A k \in own : k - first + 1 \in DOMAIN list
<1> DEFINE part == Part(p)
           first == part + HEADER_TEXTS
           own == OwnPlaces(image, part)
<1>1. image \in Seq(Range(image)) /\ IsPartition(image, part)
    BY PartsArePartitions
<1>2. part \in Nat /\ \E m \in Nat \ {0} : Stretch(image, part, m)
    <2> HIDE DEF part
    <2> QED BY <1>1, PartVarsStretch
<1>3. PICK m \in Nat \ {0} : Stretch(image, part, m)
    BY <1>2
<1>4. first \in Nat
    BY <1>2 DEF HEADER_TEXTS
<1>5. own \subseteq {k \in Int : k >= first}
    <2>1. own = {k \in first .. part + size_bytes(image, part) - 1 : varName(image[k]) # NoName}
        BY DEF OwnPlaces
    <2>2. part + size_bytes(image, part) - 1 \in Int
        BY <1>1, <1>2 DEF IsPartition
    <2> HIDE DEF first, part, own
    <2> QED BY <1>4, <2>1, <2>2
<1>6. /\ partVars(image, part) = [i \in 1 .. m |-> first + i - 1]
      /\ \A k \in own : k < first + m
      /\ \A k \in first .. first + m - 1 : varName(image[k]) # NoName => k \in own
    BY <1>3 DEF Stretch
<1>7. \A k \in own : varName(image[k]) # NoName
    BY DEF OwnPlaces
<1> HIDE DEF part, first, own
<1>8. list = [i \in 1 .. m |-> varName(image[first + i - 1])]
    <2>1. DOMAIN partVars(image, part) = 1 .. m
        BY <1>6
    <2>2. \A i \in 1 .. m : partVars(image, part)[i] = first + i - 1
        BY <1>6
    <2>3. list = [i \in 1 .. m |-> varName(image[partVars(image, part)[i]])]
        BY <2>1 DEF part
    <2> QED BY <2>2, <2>3
<1>9. ASSUME NEW i \in DOMAIN list
      PROVE  list[i] = IF first + i - 1 \in own
                         THEN varName(image[first + i - 1]) ELSE NoName
    <2>1. i \in 1 .. m /\ list[i] = varName(image[first + i - 1])
        BY <1>8
    <2>2. first + i - 1 \in first .. first + m - 1
        BY <1>3, <1>4, <2>1
    <2> QED BY <1>6, <2>1, <2>2
<1>10. ASSUME NEW k \in own PROVE k - first + 1 \in DOMAIN list
    <2>1. k \in Int /\ first <= k /\ k < first + m
        BY <1>5, <1>6
    <2>2. k - first + 1 \in 1 .. m
        BY <1>3, <1>4, <2>1
    <2> QED BY <1>8, <2>2
<1> QED BY <1>9, <1>10 DEF part, first, own

LEMMA ArgsAreOwn ==
    ASSUME image \in Images, NEW p \in Parts
    PROVE  BootArgsValue(p) = OwnValue(image, Part(p), "boot-args")
<1>1. image \in Seq(Range(image)) /\ IsPartition(image, Part(p))
    BY PartsArePartitions
<1>2. "boot-args" # NoName
    BY DEF NoName
<1> QED BY <1>1, <1>2, VarNamedIsOwn DEF BootArgsValue

\* ListsItsPartition, of one partition.
ListsOne(p) ==
    LET first == Part(p) + HEADER_TEXTS
        own == OwnPlaces(image, Part(p))
    IN /\ names[p] # <<>> =>
             /\ \A i \in DOMAIN names[p] :
                   names[p][i] = IF first + i - 1 \in own
                                   THEN varName(image[first + i - 1]) ELSE NoName
             /\ \A k \in own : k - first + 1 \in DOMAIN names[p]
       /\ args[p] # Null =>
             args[p] = rangeForSpaceDelimitedCStr(OwnValue(image, Part(p), "boot-args"))

LEMMA ListsEach == ListsItsPartition <=> \A p \in Parts : ListsOne(p)
    BY DEF ListsItsPartition, ListsOne

LEMMA NvramStep ==
    ASSUME NvramInv, NvramNext
    PROVE  NvramInv'
<1>1. /\ image \in Images
      /\ names = [p \in Parts |-> names[p]] /\ args = [p \in Parts |-> args[p]]
      /\ \A p \in Parts : ListsOne(p)
    BY ListsEach DEF NvramInv
<1>2. ASSUME NEW p \in Parts, NEW this, NEW next, Names(p, this, next) PROVE NvramInv'
    <2> DEFINE list == [i \in DOMAIN partVars(image, Part(p)) |->
                          varName(image[partVars(image, Part(p))[i]])]
    <2>1. image' = image /\ args' = args /\ names' = [names EXCEPT ![p] = list]
        BY <1>2 DEF Names
    <2> HIDE DEF list
    <2>2. names' = [q \in Parts |-> IF q = p THEN list ELSE names[q]]
        BY <1>1, <2>1
    <2>3. \A q \in Parts : Part(q)' = Part(q)
        BY <2>1 DEF Part
    <2>4. ASSUME NEW q \in Parts, q # p PROVE ListsOne(q)'
        <3>1. ListsOne(q) /\ names'[q] = names[q]
            BY <1>1, <2>2, <2>4
        <3> QED BY <2>1, <2>3, <3>1 DEF ListsOne
    <2>5. ListsOne(p)'
        <3>1. names'[p] = list
            BY <2>2
        <3>2. LET first == Part(p) + HEADER_TEXTS
                  own == OwnPlaces(image, Part(p))
              IN /\ \A i \in DOMAIN list :
                       list[i] = IF first + i - 1 \in own
                                   THEN varName(image[first + i - 1]) ELSE NoName
                 /\ \A k \in own : k - first + 1 \in DOMAIN list
            BY <1>1, NamesAreOwn DEF list
        <3>3. args[p] # Null =>
                 args[p] = rangeForSpaceDelimitedCStr(OwnValue(image, Part(p), "boot-args"))
            BY <1>1 DEF ListsOne
        <3> QED BY <2>1, <2>3, <3>1, <3>2, <3>3 DEF ListsOne
    <2>6. ListsItsPartition'
        BY <2>4, <2>5 DEF ListsItsPartition, ListsOne
    <2>7. names' = [q \in Parts |-> names'[q]]
        BY <2>2
    <2> QED BY <1>1, <2>1, <2>6, <2>7 DEF NvramInv
<1>3. ASSUME NEW p \in Parts, UNCHANGED <<image, names>>,
             args' = [args EXCEPT ![p] = rangeForSpaceDelimitedCStr(BootArgsValue(p))]
      PROVE  NvramInv'
    <2> DEFINE list == rangeForSpaceDelimitedCStr(BootArgsValue(p))
    <2>1. list = rangeForSpaceDelimitedCStr(OwnValue(image, Part(p), "boot-args"))
        BY <1>1, ArgsAreOwn
    <2>2. args' = [q \in Parts |-> IF q = p THEN list ELSE args[q]]
        BY <1>1, <1>3
    <2> HIDE DEF list
    <2>3. \A q \in Parts : Part(q)' = Part(q)
        BY <1>3 DEF Part
    <2>4. ASSUME NEW q \in Parts PROVE ListsOne(q)'
        <3>1. ListsOne(q) /\ args'[q] = IF q = p THEN list ELSE args[q]
            BY <1>1, <2>2
        <3> QED BY <1>3, <2>1, <2>3, <3>1 DEF ListsOne
    <2>5. ListsItsPartition'
        BY <2>4 DEF ListsItsPartition, ListsOne
    <2>6. args' = [q \in Parts |-> args'[q]]
        BY <2>2
    <2> QED BY <1>1, <1>3, <2>5, <2>6 DEF NvramInv
<1>4. ASSUME NEW p \in Parts, NEW this, NEW next, BootArgs(p, this, next) PROVE NvramInv'
    <2>1. CASE BootArgsValue(p) = Null
        <3>1. UNCHANGED <<image, names, args>>
            BY <1>4, <2>1 DEF BootArgs
        <3> QED BY <3>1 DEF NvramInv, ListsItsPartition, Part
    <2>2. CASE BootArgsValue(p) # Null
        <3>1. /\ UNCHANGED <<image, names>>
              /\ args' = [args EXCEPT ![p] = rangeForSpaceDelimitedCStr(BootArgsValue(p))]
            BY <1>4, <2>2 DEF BootArgs
        <3> QED BY <1>3, <3>1
    <2> QED BY <2>1, <2>2
<1>5. CASE BootArgsAgain
    <2>1. /\ UNCHANGED <<image, names>>
          /\ args' = [args EXCEPT !["system"] = rangeForSpaceDelimitedCStr(BootArgsValue("system"))]
        BY <1>5 DEF BootArgsAgain
    <2>2. "system" \in Parts
        BY DEF Parts
    <2> QED BY <1>3, <2>1, <2>2
<1>6. "common" \in Parts /\ "system" \in Parts
    BY DEF Parts
<1> QED BY <1>2, <1>4, <1>5, <1>6 DEF NvramNext

LEMMA TakesStep ==
    ASSUME TreeInv, TakesItsPartition, TreeNext
    PROVE  TakesItsPartition'
<1> DEFINE t == ProxyData(tree)
           data == DataAt(tree, t)
           args_of == OwnValue(data, system_part(data), "boot-args")
           patches == IF Owns(data, common_part, "dt-patches")
                        THEN OwnValue(data, common_part, "dt-patches") ELSE <<>>
<1>1. TreeShape
    BY DEF TreeInv
<1>2. /\ phase # "dump" /\ t[2] # Nil => boot_args = args_of
      /\ phase = "nvram" => group = patches
    BY DEF TakesItsPartition
<1>3. /\ t' = t /\ data' = data /\ args_of' = args_of /\ patches' = patches
    <2>1. tree' = tree
        BY DEF TreeNext, Dump, PatchNext, Multipatch, NvramPatch, Done, Begin, Abort
    <2> QED BY <2>1
<1>4. ASSUME ProxyData(dt)[2] # Nil
      PROVE  /\ t[2] # Nil
             /\ DataAt(dt, ProxyData(dt)) = data
             /\ varValue(data, varNamed(data, system_part(data), "boot-args")) = args_of
             /\ NvramPatches(dt) = patches
    <2>1. t[2] # Nil /\ DataAt(dt, ProxyData(dt)) = data /\ IsProxyData(data)
        BY <1>1, <1>4, ProxyDataAreKept
    <2>2. "boot-args" # NoName /\ "dt-patches" # NoName
        BY DEF NoName
    <2>3. /\ data \in Seq(Range(data))
          /\ IsPartition(data, common_part) /\ IsPartition(data, system_part(data))
        BY <2>1 DEF IsProxyData
    <2> HIDE DEF data
    <2>4. varValue(data, varNamed(data, system_part(data), "boot-args")) = args_of
        BY <2>2, <2>3, VarNamedIsOwn
    <2>5. /\ varValue(data, PatchesVar(data)) = OwnValue(data, common_part, "dt-patches")
          /\ PatchesVar(data) = NoVar <=> ~Owns(data, common_part, "dt-patches")
        BY <2>2, <2>3, VarNamedIsOwn DEF PatchesVar
    <2>6. NvramPatches(dt) = IF PatchesVar(data) = NoVar THEN <<>>
                             ELSE varValue(data, PatchesVar(data))
        BY <1>4, <2>1 DEF NvramPatches
    <2> QED BY <2>1, <2>4, <2>5, <2>6
<1>5. TakesItsPartition' <=>
         /\ phase' # "dump" /\ t[2] # Nil => boot_args' = args_of
         /\ phase' = "nvram" => group' = patches
    BY <1>3 DEF TakesItsPartition
<1> HIDE DEF t, data, args_of, patches
<1>6. CASE Dump
    <2>1. CASE UNCHANGED <<phase, group, boot_args>>
        BY <1>2, <1>5, <2>1
    <2>2. CASE phase' = "patch" /\ boot_args' = DumpedBootArgs
        <3>1. dt = tree
            BY <1>1, <1>6 DEF TreeShape, Untouched, Dump
        <3>2. ProxyData(dt) = t
            BY <3>1 DEF t
        <3>3. ASSUME t[2] # Nil PROVE boot_args' = args_of
            <4>1. /\ DataAt(dt, t) = data
                  /\ varValue(data, varNamed(data, system_part(data), "boot-args")) = args_of
                BY <1>4, <3>2, <3>3
            <4>2. DumpedBootArgs = varValue(data, varNamed(data, system_part(data), "boot-args"))
                BY <3>2, <3>3, <4>1 DEF DumpedBootArgs
            <4> QED BY <2>2, <4>1, <4>2
        <3> QED BY <1>5, <2>2, <3>3
    <2> QED BY <1>6, <2>1, <2>2 DEF Dump, Begin, Abort, printed
<1>7. CASE PatchNext
    <2>1. UNCHANGED <<phase, group, boot_args>>
        BY <1>7 DEF PatchNext, Abort, printed
    <2> QED BY <1>2, <1>5, <2>1
<1>8. CASE Multipatch
    <2>1. phase = "patch" /\ phase' = "multipatch" /\ boot_args' = boot_args
        BY <1>8 DEF Multipatch, Through, Begin, printed
    <2> QED BY <1>2, <1>5, <2>1
<1>9. CASE NvramPatch
    <2>1. phase = "multipatch" /\ boot_args' = boot_args
        BY <1>9 DEF NvramPatch, Through, printed
    <2>2. CASE phase' = phase
        BY <1>2, <1>5, <2>1, <2>2
    <2>3. CASE phase' = "done"
        BY <1>2, <1>5, <2>1, <2>3
    <2>4. CASE phase' = "nvram" /\ ProxyData(dt)[2] # Nil /\ group' = NvramPatches(dt)
        BY <1>2, <1>4, <1>5, <2>1, <2>4
    <2> QED BY <1>9, <2>2, <2>3, <2>4 DEF NvramPatch, Begin, Abort
<1>10. CASE Done
    <2>1. phase # "dump" /\ phase' = "done" /\ boot_args' = boot_args
        BY <1>10 DEF Done, Through, Begin, printed
    <2> QED BY <1>2, <1>5, <2>1
<1> QED BY <1>6, <1>7, <1>8, <1>9, <1>10 DEF TreeNext

ReadsInv == TreeInv /\ NvramInv /\ TakesItsPartition

LEMMA ReadsStep == ReadsInv /\ [Next]_vars => ReadsInv'
<1> SUFFICES ASSUME ReadsInv, [Next]_vars PROVE ReadsInv'
    OBVIOUS
<1>1. TreeInv'
    BY TreeStep DEF ReadsInv
<1>2. NvramInv'
    <2>1. CASE UNCHANGED nvramVars
        BY <2>1 DEF ReadsInv, NvramInv, ListsItsPartition, Part, nvramVars
    <2>2. CASE NvramNext
        BY <2>2, NvramStep DEF ReadsInv
    <2> QED BY <2>1, <2>2 DEF Next, vars
<1>3. TakesItsPartition'
    <2>1. CASE UNCHANGED treeVars
        BY <2>1 DEF ReadsInv, TakesItsPartition, treeVars, printed
    <2>2. CASE TreeNext
        BY <2>2, TakesStep DEF ReadsInv
    <2> QED BY <2>1, <2>2 DEF Next, vars
<1> QED BY <1>1, <1>2, <1>3 DEF ReadsInv

\* Whatever the tree, the proxy data and the patches: the names that are listed and
\* the boot arguments and patches that are taken are those of the partition they
\* are looked for in (PackedCStrIterator, dump_nvram, dump_dtree, processPatches).
THEOREM AlwaysReadsItsPartition == Spec => []ReadsItsPartition
<1>1. Init => ReadsInv
    <2> SUFFICES ASSUME Init PROVE ReadsInv
        OBVIOUS
    <2>1. TreeInv
        BY TreeInitInv DEF Init
    <2>2. NvramInv
        BY DEF Init, NvramInit, NvramInv, ListsItsPartition
    <2>3. TakesItsPartition
        BY DEF Init, TreeInit, TakesItsPartition
    <2> QED BY <2>1, <2>2, <2>3 DEF ReadsInv
<1>2. ReadsInv => ReadsItsPartition
    BY DEF ReadsInv, NvramInv, TakesItsPartition, ReadsItsPartition
<1> QED BY <1>1, <1>2, ReadsStep, PTL DEF Spec
=============================================================================
