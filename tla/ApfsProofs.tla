------------------------------ MODULE ApfsProofs ------------------------------
(***************************************************************************)
(* The APFS driver for U-Boot and the dump that is its prototype, for every *)
(* container, every set of streams and any number of probes.               *)
(***************************************************************************)
EXTENDS ApfsDump, BasicLemmas, SequenceTheorems

-----------------------------------------------------------------------------
(* What is true of every reachable state *)

\* An open context owns a container of the partition probed last, also when it
\* was probed while it was open and has lost others.
ContextInv ==
    /\ live \in Nat
    /\ m_opened \in BOOLEAN /\ reprobed \in BOOLEAN
    /\ m_opened => live >= 1 /\ partition \in Partitions
    /\ OpenedIsReady

\* A stream is a record, and what was seen of it is one.
StreamTypeOK ==
    /\ DOMAIN stream = Streams /\ DOMAIN seen = Streams
    /\ \A s \in Streams :
          /\ stream[s] = [path |-> stream[s].path, nodes |-> stream[s].nodes, idx |-> stream[s].idx]
          /\ seen[s] = [from |-> seen[s].from, dents |-> seen[s].dents, ended |-> seen[s].ended]
          /\ stream[s].idx \in Nat
          /\ seen[s].dents \in Seq(Range(seen[s].dents))

\* The index counts the entries that readdir returned, and they are the nodes'.
ReturnsNodes(str, sn) ==
    /\ Len(sn.dents) = str.idx
    /\ \A i \in DOMAIN sn.dents : sn.dents[i] = Dent(str.nodes[i])

\* The nodes are those of the directory that was opened, on the partition that
\* was probed by then, and the end is behind them.
IsListOf(str, sn) ==
    sn.from # NoPartition =>
        /\ sn.from \in Partitions /\ str.path \in Paths
        /\ IsDirUboot(Lookup(sn.from, str.path))
        /\ str.nodes = List(Lookup(sn.from, str.path))
        /\ str.idx <= Len(str.nodes)
        /\ sn.ended => str.idx = Len(str.nodes)

SeenInv ==
    \A s \in Streams : ReturnsNodes(stream[s], seen[s]) /\ IsListOf(stream[s], seen[s])

DriverInv == ContextInv /\ StreamTypeOK /\ SeenInv

\* What the clauses about the context, and those about the streams, talk of.
streams == <<stream, seen>>

LEMMA NothingIsSeen ==
    ASSUME NEW from
    PROVE  /\ NothingSeen(from).from = from /\ NothingSeen(from).dents = <<>>
           /\ NothingSeen(from).ended = FALSE
           /\ NothingSeen(from) = [from |-> NothingSeen(from).from,
                                   dents |-> NothingSeen(from).dents,
                                   ended |-> NothingSeen(from).ended]
           /\ <<>> \in Seq(Range(<<>>)) /\ Len(<<>>) = 0 /\ DOMAIN <<>> = {}
    BY EmptySeq DEF NothingSeen

LEMMA DriverInitInv == Init => DriverInv
<1> SUFFICES ASSUME Init PROVE DriverInv
    OBVIOUS
<1>1. ContextInv
    BY DEF Init, DriverInit, ContextInv, OpenedIsReady
<1>2. \A s \in Streams : stream[s] = NoStream /\ seen[s] = NothingSeen(NoPartition)
    BY DEF Init, DriverInit
<1>3. NoStream = [path |-> NoStream.path, nodes |-> NoStream.nodes, idx |-> NoStream.idx]
      /\ NoStream.idx = 0
    BY DEF NoStream
<1>4. StreamTypeOK
    <2>1. DOMAIN stream = Streams /\ DOMAIN seen = Streams
        BY DEF Init, DriverInit
    <2> DEFINE none == NothingSeen(NoPartition)
    <2>2. /\ none = [from |-> none.from, dents |-> none.dents, ended |-> none.ended]
          /\ none.dents \in Seq(Range(none.dents))
        BY NothingIsSeen
    <2>3. 0 \in Nat
        OBVIOUS
    <2> HIDE DEF none
    <2>4. \A s \in Streams : seen[s] = none
        BY <1>2 DEF none
    <2> QED BY <1>2, <1>3, <2>1, <2>2, <2>3, <2>4, Zenon DEF StreamTypeOK
<1>5. SeenInv
    BY <1>2, <1>3, NothingIsSeen DEF SeenInv, ReturnsNodes, IsListOf
<1> QED BY <1>1, <1>4, <1>5 DEF DriverInv

LEMMA ContextUnchanged == ContextInv /\ UNCHANGED context => ContextInv'
    BY DEF ContextInv, OpenedIsReady, context

LEMMA StreamsUnchanged ==
    StreamTypeOK /\ SeenInv /\ UNCHANGED streams => StreamTypeOK' /\ SeenInv'
<1> SUFFICES ASSUME StreamTypeOK, SeenInv, stream' = stream, seen' = seen
             PROVE  StreamTypeOK' /\ SeenInv'
    BY DEF streams
<1>1. StreamTypeOK'
    BY DEF StreamTypeOK
<1>2. SeenInv'
    BY DEF SeenInv
<1> QED BY <1>1, <1>2

-----------------------------------------------------------------------------
(* The context *)

LEMMA OpenCommonInv ==
    ASSUME ContextInv, OpenCommon, dev' = "open", reprobed' = (reprobed \/ m_opened),
           NEW p \in Partitions, partition' = p
    PROVE  ContextInv'
<1>1. live' \in Nat /\ live' >= 1
    BY DEF ContextInv, OpenCommon
<1>2. m_opened' \in BOOLEAN /\ reprobed' \in BOOLEAN
    BY DEF ContextInv, OpenCommon
<1>3. OpenedIsReady'
    <2> SUFFICES ASSUME m_opened', ~reprobed' PROVE m_container' = "ready" /\ dev' = "open" /\ live' > 0
        BY DEF OpenedIsReady
    <2>1. ~m_opened
        OBVIOUS
    <2>2. m_container' = "ready"
        BY <2>1 DEF OpenCommon
    <2>3. live' > 0
        BY ONLY <1>1
    <2> QED BY <2>2, <2>3
<1> QED BY <1>1, <1>2, <1>3 DEF ContextInv

LEMMA ProbeInv == ASSUME ContextInv, NEW p \in Partitions, Probe(p) PROVE ContextInv'
<1>1. CASE UNCHANGED <<dev, m_container, m_opened, partition, live>>
    BY <1>1 DEF ContextInv, OpenedIsReady, Probe
<1>2. CASE dev' = "open" /\ partition' = p /\ OpenCommon
    BY <1>2, OpenCommonInv DEF Probe
<1> QED BY <1>1, <1>2 DEF Probe

LEMMA DoitInv == ASSUME ContextInv, NEW p \in Partitions, Doit(p) PROVE ContextInv'
<1> SUFFICES ASSUME ~Abort PROVE ContextInv'
    BY ContextUnchanged DEF Abort
<1>1. /\ dev' = "open" /\ m_container' = "ready" /\ m_opened' = TRUE
      /\ live' = live + 2 /\ reprobed' = (reprobed \/ m_opened) /\ partition' = p
    BY DEF Doit
<1>2. live' \in Nat /\ live' >= 1
    BY <1>1 DEF ContextInv
<1>3. live' > 0
    BY ONLY <1>2
<1> QED BY <1>1, <1>2, <1>3 DEF ContextInv, OpenedIsReady

LEMMA CloseInv == ContextInv /\ Close => ContextInv'
<1> SUFFICES ASSUME ContextInv, Close, ~Abort PROVE ContextInv'
    BY ContextUnchanged DEF Abort
<1>1. m_opened /\ m_opened' = FALSE /\ live' = live - 1 /\ reprobed' = reprobed
    BY DEF Close
<1>2. live' \in Nat
    BY <1>1 DEF ContextInv
<1>3. reprobed' \in BOOLEAN
    BY <1>1 DEF ContextInv
<1> QED BY <1>1, <1>2, <1>3 DEF ContextInv, OpenedIsReady

-----------------------------------------------------------------------------
(* Directories, and the walk down a path *)

\* The volumes of all the partitions.
VolumesOf(p) == {<<p, name>> : name \in Range(Volumes[p])}
AllVolumes == UNION {VolumesOf(p) : p \in Partitions}

\* Entries that a directory of the volume may have, and the volume's nodes.
EntriesOf(v) == {e \in EntryRecord : e.type = "dir" <=> <<v, e.ino>> \in DOMAIN Dir}
NodesOf(v) == {Node(v, e) : e \in EntriesOf(v)}
Nodes(v) == NodesOf(v) \cup {VolumeNode(v), NoNode}

LEMMA NoNodeIsNone ==
    NoNode.entry.type = "no node" /\ NoEntry.type = "none" /\ ~IsDirUboot(NoNode)
    BY DEF NoNode, NoEntry, Node, IsDirUboot

\* Nothing that is found can be taken for what is not.
LEMMA EntriesAreFound ==
    ASSUME NEW v, NEW e \in EntriesOf(v)
    PROVE  /\ e # NoEntry /\ e.type \in {"dir", "file", "link"}
           /\ Node(v, e) # NoNode /\ Name(Node(v, e)) = e.name
<1>1. e \in EntryRecord /\ e.type \in {"dir", "file", "link"}
    BY DEF EntriesOf, EntryRecord
<1>2. e.type # "none" /\ e.type # "no node"
    BY <1>1
<1>3. NoEntry.type = "none" /\ NoNode.entry.type = "no node" /\ Node(v, e).entry = e
    BY NoNodeIsNone DEF Node
<1>4. e # NoEntry /\ Node(v, e) # NoNode
    BY <1>2, <1>3
<1>5. Name(Node(v, e)) = e.name
    BY <1>3, <1>4 DEF Name
<1> QED BY <1>1, <1>4, <1>5

LEMMA VolumesAreFound ==
    ASSUME NEW p \in Partitions, NEW v \in VolumesOf(p)
    PROVE  /\ v \in AllVolumes /\ v = <<p, v[2]>> /\ v[2] \in Range(Volumes[p])
           /\ v[2] \in STRING /\ v[2] # "" /\ <<v, ROOT_DIR_PARENT>> \in DOMAIN Dir
           /\ VolumeNode(v) # NoNode /\ IsDirUboot(VolumeNode(v))
<1>1. PICK name \in Range(Volumes[p]) : v = <<p, name>>
    BY DEF VolumesOf
<1>2. v[2] = name /\ v = <<p, v[2]>>
    BY <1>1
<1>3. name \in STRING \ {""}
    <2>1. Volumes[p] \in Seq(STRING \ {""}) /\ DOMAIN Volumes[p] = 1 .. Len(Volumes[p])
        BY ApfsAssumption, LenProperties
    <2>2. PICK k \in 1 .. Len(Volumes[p]) : name = Volumes[p][k]
        BY <2>1 DEF Range
    <2> QED BY <2>1, <2>2, ElementOfSeq
<1>4. VolumeNode(v).entry = NoEntry /\ NoEntry.type = "none" /\ NoNode.entry.type = "no node"
    BY DEF VolumeNode, Node, NoEntry, NoNode
<1>5. <<<<p, name>>, ROOT_DIR_PARENT>> \in DOMAIN Dir
    BY ApfsAssumption
<1>6. v \in AllVolumes
    BY DEF AllVolumes
<1>7. VolumeNode(v) # NoNode /\ IsDirUboot(VolumeNode(v))
    BY <1>4 DEF IsDirUboot
<1> QED BY <1>1, <1>2, <1>3, <1>5, <1>6, <1>7

LEMMA AllVolumesAreFound ==
    ASSUME NEW v \in AllVolumes
    PROVE  /\ v[2] # "" /\ <<v, ROOT_DIR_PARENT>> \in DOMAIN Dir
           /\ VolumeNode(v) # NoNode /\ IsDirUboot(VolumeNode(v))
<1>1. PICK p \in Partitions : v \in VolumesOf(p)
    BY DEF AllVolumes
<1> QED BY <1>1, VolumesAreFound

\* Nodes of a volume that may have children.
LEMMA ListProperties ==
    ASSUME NEW v \in AllVolumes, NEW n \in Nodes(v), IsDirUboot(n)
    PROVE  LET d == <<v, n.entry.ino>>
           IN /\ d \in DOMAIN Dir /\ Dir[d] \in Seq(EntryRecord)
              /\ Entries(n) = Dir[d] /\ n.volume = v
              /\ \A i \in 1 .. Len(Dir[d]) : Dir[d][i] \in EntriesOf(v)
              /\ List(n) = [i \in 1 .. Len(Dir[d]) |-> Node(v, Dir[d][i])]
<1> DEFINE d == <<v, n.entry.ino>>
<1>1. v[2] # "" /\ <<v, ROOT_DIR_PARENT>> \in DOMAIN Dir
    BY AllVolumesAreFound
<1>2. n # NoNode
    BY NoNodeIsNone
<1>3. n.volume = v /\ d \in DOMAIN Dir
    <2>1. CASE n = VolumeNode(v)
        BY <2>1, <1>1 DEF VolumeNode, Node, NoEntry
    <2>2. CASE n \in NodesOf(v)
        <3>1. PICK e \in EntriesOf(v) : n = Node(v, e)
            BY <2>2 DEF NodesOf
        <3>2. e.type = "dir"
            BY <3>1, EntriesAreFound DEF Node, IsDirUboot
        <3> QED BY <3>1, <3>2 DEF EntriesOf, Node
    <2> QED BY <1>2, <2>1, <2>2 DEF Nodes
<1>4. Entries(n) = Dir[d]
    BY <1>3 DEF Entries
<1>5. ~IsContainer(n)
    BY <1>1, <1>3 DEF IsContainer
<1>6. Dir[d] \in Seq(EntryRecord) /\ DOMAIN Dir[d] = 1 .. Len(Dir[d])
    BY <1>3, ApfsAssumption, LenProperties
<1>7. ASSUME NEW i \in 1 .. Len(Dir[d]) PROVE Dir[d][i] \in EntriesOf(v)
    <2>1. Dir[d][i] \in EntryRecord
        BY <1>6, ElementOfSeq
    <2>2. d[1] = v
        OBVIOUS
    <2>3. Dir[d][i].type = "dir" <=> <<d[1], Dir[d][i].ino>> \in DOMAIN Dir
        BY <1>3, <1>6, ApfsAssumption
    <2> QED BY <2>1, <2>2, <2>3 DEF EntriesOf
<1> HIDE DEF d
<1>8. List(n) = [i \in 1 .. Len(Dir[d]) |-> Node(v, Dir[d][i])]
    BY <1>3, <1>4, <1>5, <1>6 DEF List
<1> QED BY <1>3, <1>4, <1>6, <1>7, <1>8 DEF d

\* The first index with a property, if there is one.
LEMMA MinProperties ==
    ASSUME NEW I, I \subseteq Nat, I # {}
    PROVE  Min(I) \in I
    BY LeastNumber DEF Min

\* What LookupName finds below an inode of a volume.
Found(v, parent, name) ==
    LET dir == <<v, parent>>
        k == IF dir \in DOMAIN Dir THEN SelectInSeq(Dir[dir], LAMBDA e : e.name = name) ELSE 0
    IN IF k = 0 THEN NoEntry ELSE Dir[dir][k]

\* Below the same directory the driver finds what the dump finds.
LEMMA ChildIsLookedUp ==
    ASSUME NEW v \in AllVolumes, NEW n \in Nodes(v), n # NoNode, NEW name
    PROVE  LET e == Found(v, n.entry.ino, name)
           IN /\ e \in EntriesOf(v) \cup {NoEntry}
              /\ ChildNamed(n, name) = IF e = NoEntry THEN NoNode ELSE Node(v, e)
<1> DEFINE d == <<v, n.entry.ino>>
           e == Found(v, n.entry.ino, name)
<1>1. CASE IsDirUboot(n)
    <2> DEFINE I == {i \in 1 .. Len(Dir[d]) : Dir[d][i].name = name}
               J == {i \in 1 .. Len(List(n)) : Name(List(n)[i]) = name}
    <2>1. /\ d \in DOMAIN Dir /\ Len(Dir[d]) \in Nat
          /\ \A i \in 1 .. Len(Dir[d]) : Dir[d][i] \in EntriesOf(v)
          /\ List(n) = [i \in 1 .. Len(Dir[d]) |-> Node(v, Dir[d][i])]
        BY <1>1, ListProperties, LenProperties
    <2>2. Len(List(n)) = Len(Dir[d])
        BY <2>1
    <2>3. ASSUME NEW i \in 1 .. Len(Dir[d]) PROVE Name(List(n)[i]) = Dir[d][i].name
        <3>1. Dir[d][i] \in EntriesOf(v) /\ List(n)[i] = Node(v, Dir[d][i])
            BY <2>1
        <3> QED BY <3>1, EntriesAreFound
    <2>4. I = J
        BY <2>2, <2>3
    <2>5. I # {} => Min(I) \in I /\ Min(I) # 0
        <3>1. I \subseteq Nat
            OBVIOUS
        <3>2. 0 \notin I
            OBVIOUS
        <3> HIDE DEF I
        <3> QED BY <3>1, <3>2, MinProperties
    <2>6. e = IF I = {} THEN NoEntry ELSE Dir[d][Min(I)]
        <3>1. SelectInSeq(Dir[d], LAMBDA c : c.name = name) = IF I = {} THEN 0 ELSE Min(I)
            BY DEF SelectInSeq
        <3> HIDE DEF I
        <3>2. I # {} => Min(I) # 0
            BY <2>5
        <3> QED BY <2>1, <3>1, <3>2 DEF Found
    <2>7. ChildNamed(n, name) = IF J = {} THEN NoNode ELSE List(n)[Min(J)]
        <3>1. SelectInSeq(List(n), LAMBDA c : Name(c) = name) = IF J = {} THEN 0 ELSE Min(J)
            BY DEF SelectInSeq
        <3> HIDE DEF I, J
        <3>2. J # {} => Min(J) # 0
            BY <2>4, <2>5
        <3> QED BY ONLY <1>1, <3>1, <3>2 DEF ChildNamed
    <2>8. CASE I = {}
        <3> HIDE DEF I, J
        <3>1. e = NoEntry
            BY ONLY <2>6, <2>8, Zenon
        <3>2. ChildNamed(n, name) = NoNode
            BY ONLY <2>4, <2>7, <2>8, ZenonT(60)
        <3> QED BY ONLY <3>1, <3>2, Zenon
    <2>9. CASE I # {}
        <3>1. Min(I) \in 1 .. Len(Dir[d])
            <4>1. I \subseteq 1 .. Len(Dir[d])
                OBVIOUS
            <4> HIDE DEF I
            <4> QED BY ONLY <2>5, <2>9, <4>1
        <3>2. Dir[d][Min(I)] \in EntriesOf(v) /\ List(n)[Min(I)] = Node(v, Dir[d][Min(I)])
            <4> HIDE DEF I, d
            <4> QED BY <2>1, <3>1
        <3>3. e = Dir[d][Min(I)] /\ ChildNamed(n, name) = List(n)[Min(I)]
            BY <2>4, <2>6, <2>7, <2>9
        <3> QED BY <3>2, <3>3, EntriesAreFound
    <2> QED BY <2>8, <2>9
<1>2. CASE ~IsDirUboot(n)
    <2>1. n \in NodesOf(v)
        BY <1>2, AllVolumesAreFound DEF Nodes
    <2>2. PICK c \in EntriesOf(v) : n = Node(v, c)
        BY <2>1 DEF NodesOf
    <2>3. c.type # "dir" /\ n.entry = c
        BY <1>2, <2>2 DEF Node, IsDirUboot
    <2>4. d \notin DOMAIN Dir
        BY <2>2, <2>3 DEF EntriesOf
    <2>5. e = NoEntry
        BY <2>4 DEF Found
    <2>6. ChildNamed(n, name) = NoNode
        BY <1>2 DEF ChildNamed
    <2> QED BY <2>5, <2>6
<1> QED BY <1>1, <1>2

LEMMA ChildType ==
    ASSUME NEW v \in AllVolumes, NEW n \in Nodes(v), NEW name
    PROVE  ChildNamed(n, name) \in NodesOf(v) \cup {NoNode}
<1>1. CASE n = NoNode
    BY <1>1, NoNodeIsNone DEF ChildNamed
<1>2. CASE n # NoNode
    <2> DEFINE e == Found(v, n.entry.ino, name)
    <2>1. e \in EntriesOf(v) \cup {NoEntry}
        BY <1>2, ChildIsLookedUp
    <2>2. ChildNamed(n, name) = IF e = NoEntry THEN NoNode ELSE Node(v, e)
        BY <1>2, ChildIsLookedUp
    <2> HIDE DEF e
    <2> QED BY <2>1, <2>2 DEF NodesOf
<1> QED BY <1>1, <1>2

\* The nodes that a walk from the volume passes: I is a set 1 .. k of names.
Walk(v, names) ==
    CHOOSE f : f = [I \in SUBSET (DOMAIN names) |->
                      IF I = {} THEN VolumeNode(v)
                      ELSE ChildNamed(f[I \ {Max(I)}], names[Max(I)])]

LEMMA WalkProperties ==
    ASSUME NEW v \in AllVolumes, NEW S, NEW names \in Seq(S)
    PROVE  LET f == Walk(v, names)
           IN /\ f[{}] = VolumeNode(v)
              /\ \A k \in 1 .. Len(names) : f[1 .. k] = ChildNamed(f[1 .. k - 1], names[k])
              /\ \A k \in 0 .. Len(names) : f[1 .. k] \in Nodes(v)
              /\ FoldLeft(ChildNamed, VolumeNode(v), names) = f[1 .. Len(names)]
<1> DEFINE n == Len(names)
           child == [p \in Nodes(v) \X (1 .. n) |-> ChildNamed(p[1], names[p[2]])]
           Body(f) == [I \in SUBSET (1 .. n) |->
                         IF I = {} THEN VolumeNode(v)
                         ELSE ChildNamed(f[I \ {Max(I)}], names[Max(I)])]
           w == Walk(v, names)
<1>1. n \in Nat /\ DOMAIN names = 1 .. n
    BY LenProperties
<1>2. VolumeNode(v) \in Nodes(v)
    BY DEF Nodes
<1>3. child \in [Nodes(v) \X (1 .. n) -> Nodes(v)]
    BY ChildType DEF Nodes
<1>4. PICK f \in [SUBSET (1 .. n) -> Nodes(v)] : IsFold(f, VolumeNode(v), n, child)
    <2> HIDE DEF child, n
    <2> QED BY <1>1, <1>2, <1>3, FoldExists
<1>5. \A I \in SUBSET (1 .. n) : I # {} => Max(I) \in I /\ (\A y \in I : Max(I) >= y)
    <2> SUFFICES ASSUME NEW I \in SUBSET (1 .. n), I # {}
                 PROVE  Max(I) \in I /\ \A y \in I : Max(I) >= y
        OBVIOUS
    <2>1. I \subseteq 0 .. n
        OBVIOUS
    <2> HIDE DEF n
    <2> QED BY <1>1, <2>1, GreatestNumber DEF Max
<1>6. f = Body(f)
    <2>1. ASSUME NEW I \in SUBSET (1 .. n), I # {}
          PROVE  f[I] = ChildNamed(f[I \ {Max(I)}], names[Max(I)])
        <3>1. f[I] = child[<<f[I \ {Max(I)}], Max(I)>>]
            BY <1>4, <1>5, <2>1 DEF IsFold
        <3>2. I \ {Max(I)} \in SUBSET (1 .. n) /\ Max(I) \in 1 .. n
            BY <1>5, <2>1
        <3> QED BY <3>1, <3>2
    <2> HIDE DEF n
    <2> QED BY <1>4, <2>1 DEF IsFold
<1>7. w = Body(w)
    BY <1>1, <1>6 DEF Walk
<1> HIDE DEF w
<1>8. w[{}] = VolumeNode(v)
    BY <1>7
<1>9. ASSUME NEW k \in 1 .. n
      PROVE  w[1 .. k] = ChildNamed(w[1 .. k - 1], names[k])
    <2>1. 1 .. k \in SUBSET (1 .. n) /\ 1 .. k # {}
        BY <1>1
    <2>2. Max(1 .. k) = k
        <3>1. Max(1 .. k) \in 1 .. k /\ Max(1 .. k) >= k
            <4> k \in 1 .. k
                BY <1>1
            <4> HIDE DEF n
            <4> QED BY <1>5, <2>1
        <3> QED BY <3>1
    <2>3. (1 .. k) \ {k} = 1 .. k - 1
        BY <1>1
    <2> HIDE DEF n
    <2> QED BY <1>7, <2>1, <2>2, <2>3
<1>10. \A k \in 0 .. n : w[1 .. k] \in Nodes(v)
    <2> DEFINE P == {k \in Nat : k <= n => w[1 .. k] \in Nodes(v)}
    <2>1. 0 \in P
        BY <1>2, <1>8
    <2>2. ASSUME NEW k \in Nat, k \in P PROVE k + 1 \in P
        <3> SUFFICES ASSUME k + 1 <= n PROVE w[1 .. k + 1] \in Nodes(v)
            OBVIOUS
        <3>1. w[1 .. k] \in Nodes(v)
            BY <1>1, <2>2
        <3>2. w[1 .. k + 1] = ChildNamed(w[1 .. k], names[k + 1])
            BY <1>1, <1>9
        <3>3. ChildNamed(w[1 .. k], names[k + 1]) \in NodesOf(v) \cup {NoNode}
            BY <3>1, ChildType
        <3> QED BY <3>2, <3>3 DEF Nodes
    <2>3. Nat \subseteq P
        <3> HIDE DEF P
        <3> QED BY <2>1, <2>2, Induction
    <2> QED BY <1>1, <2>3
<1>11. FoldLeft(ChildNamed, VolumeNode(v), names) = w[DOMAIN names]
    BY Zenon DEF FoldLeft, MapThenFoldSet, Walk, w
<1> QED BY <1>1, <1>8, <1>9, <1>10, <1>11 DEF w

-----------------------------------------------------------------------------
(* Lookups of the driver *)

LEMMA PathType ==
    ASSUME NEW path \in Seq(STRING) \ {<<>>}
    PROVE  /\ PathVolume(path) \in STRING /\ PathRest(path) \in Seq(STRING)
           /\ PathRest(path) # <<>> => LookedUp(path) \in Seq(STRING)
<1>1. Head(path) \in STRING /\ Tail(path) \in Seq(STRING)
    BY HeadTailProperties
<1>2. PathRest(path) \in Seq(STRING)
    BY <1>1, EmptySeq DEF PathRest
<1>3. PathRest(path) # <<>> => Tail(PathRest(path)) \in Seq(STRING)
    BY <1>2, HeadTailProperties
<1> QED BY <1>1, <1>2, <1>3 DEF PathVolume, LookedUp

\* A lookup stays in the volume that the path names.
LEMMA LookupStaysInVolume ==
    ASSUME NEW p \in Partitions, NEW path \in Seq(STRING) \ {<<>>}, PathVolume(path) # "",
           IsDirUboot(Lookup(p, path))
    PROVE  LET v == <<p, PathVolume(path)>>
           IN v \in VolumesOf(p) /\ v \in AllVolumes /\ Lookup(p, path) \in Nodes(v)
<1> DEFINE name == PathVolume(path)
           v == <<p, name>>
<1>1. name \in Range(Volumes[p])
    <2> SUFFICES ASSUME name \notin Range(Volumes[p]) PROVE FALSE
        OBVIOUS
    <2>1. Lookup(p, path) = NoNode
        BY DEF Lookup
    <2>2. ~IsDirUboot(NoNode)
        BY NoNodeIsNone
    <2> QED BY <2>1, <2>2, Zenon
<1>2. v \in VolumesOf(p) /\ v \in AllVolumes
    <2>1. v \in VolumesOf(p)
        BY <1>1 DEF VolumesOf
    <2> QED BY <2>1 DEF AllVolumes
<1>3. CASE PathRest(path) = <<>>
    <2>1. Lookup(p, path) = VolumeNode(v)
        BY <1>1, <1>3 DEF Lookup
    <2> QED BY <1>2, <2>1 DEF Nodes
<1>4. CASE PathRest(path) # <<>>
    <2> DEFINE names == LookedUp(path)
    <2>1. Lookup(p, path) = FoldLeft(ChildNamed, VolumeNode(v), names)
        BY <1>1, <1>4, Zenon DEF Lookup
    <2>2. names \in Seq(STRING) /\ Len(names) \in Nat
        BY <1>4, PathType, LenProperties
    <2> HIDE DEF names, v
    <2>3. FoldLeft(ChildNamed, VolumeNode(v), names) = Walk(v, names)[1 .. Len(names)]
        BY <1>2, <2>2, WalkProperties
    <2>4. Walk(v, names)[1 .. Len(names)] \in Nodes(v)
        <3> DEFINE n == Len(names)
        <3>1. n \in Nat
            BY <2>2
        <3>2. n \in 0 .. n
            BY ONLY <3>1
        <3> QED BY <1>2, <2>2, <3>2, WalkProperties
    <2>5. Lookup(p, path) \in Nodes(v)
        BY <2>1, <2>3, <2>4
    <2> QED BY <1>2, <2>5 DEF v
<1> QED BY <1>3, <1>4

\* What a stream of a path lists.
Lists(p, path, nodes) ==
    \A i \in DOMAIN nodes :
        IF PathVolume(path) = "" THEN nodes[i] = VolumeNode(<<p, Volumes[p][i]>>)
        ELSE nodes[i].volume = <<p, PathVolume(path)>> /\ nodes[i].entry # NoEntry

LEMMA ListStaysInVolume ==
    ASSUME NEW p \in Partitions, NEW path \in Seq(STRING) \ {<<>>}, IsDirUboot(Lookup(p, path))
    PROVE  /\ Lists(p, path, List(Lookup(p, path)))
           /\ Len(List(Lookup(p, path))) \in Nat
           /\ DOMAIN List(Lookup(p, path)) = 1 .. Len(List(Lookup(p, path)))
<1> DEFINE n == Lookup(p, path)
<1>1. CASE PathVolume(path) = ""
    <2>1. n = ContainerNode(p)
        BY <1>1 DEF Lookup
    <2>2. ContainerNode(p).volume[2] = "" /\ ContainerNode(p).volume[1] = p
        BY DEF ContainerNode, Node
    <2>3. IsContainer(n) /\ n.volume[1] = p
        BY ONLY <2>1, <2>2, Zenon DEF IsContainer
    <2>4. Len(Volumes[p]) \in Nat /\ DOMAIN Volumes[p] = 1 .. Len(Volumes[p])
        <3>1. Volumes[p] \in Seq(STRING \ {""})
            BY ApfsAssumption
        <3> QED BY <3>1, LenProperties
    <2> HIDE DEF n
    <2>5. List(n) = [i \in 1 .. Len(Volumes[p]) |-> VolumeNode(<<p, Volumes[p][i]>>)]
        BY <2>3, <2>4 DEF List
    <2>6. Len(List(n)) = Len(Volumes[p])
        BY <2>4, <2>5
    <2> QED BY <1>1, <2>4, <2>5, <2>6 DEF Lists, n
<1>2. CASE PathVolume(path) # ""
    <2> DEFINE v == <<p, PathVolume(path)>>
               d == <<v, n.entry.ino>>
    <2>1. v \in AllVolumes /\ n \in Nodes(v)
        BY <1>2, LookupStaysInVolume
    <2>2. IsDirUboot(n)
        OBVIOUS
    <2> HIDE DEF v, n
    <2>3. /\ Dir[d] \in Seq(EntryRecord)
          /\ \A i \in 1 .. Len(Dir[d]) : Dir[d][i] \in EntriesOf(v)
          /\ List(n) = [i \in 1 .. Len(Dir[d]) |-> Node(v, Dir[d][i])]
        BY <2>1, <2>2, ListProperties
    <2>4. ASSUME NEW i \in 1 .. Len(Dir[d])
          PROVE  List(n)[i].volume = v /\ List(n)[i].entry # NoEntry
        <3>1. Dir[d][i] # NoEntry
            BY <2>1, <2>3, EntriesAreFound
        <3>2. List(n)[i] = Node(v, Dir[d][i])
            BY <2>3
        <3> QED BY <3>1, <3>2 DEF Node
    <2>5. DOMAIN List(n) = 1 .. Len(Dir[d]) /\ Len(Dir[d]) \in Nat /\ Len(List(n)) = Len(Dir[d])
        BY <2>3, LenProperties
    <2>6. Lists(p, path, List(n))
        BY <1>2, <2>4, <2>5 DEF Lists, v
    <2> QED BY <2>5, <2>6 DEF n
<1> QED BY <1>1, <1>2

LEMMA ListType ==
    ASSUME NEW p \in Partitions, NEW path \in Paths, IsDirUboot(Lookup(p, path))
    PROVE  Len(List(Lookup(p, path))) \in Nat
<1>1. path \in Seq(STRING) \ {<<>>}
    BY ApfsAssumption
<1> QED BY <1>1, ListStaysInVolume

-----------------------------------------------------------------------------
(* The streams *)

\* Only one stream changes: what the others satisfy, they still do.
LEMMA OneStream ==
    ASSUME StreamTypeOK, SeenInv, NEW s \in Streams,
           DOMAIN stream' = Streams, DOMAIN seen' = Streams,
           \A t \in Streams \ {s} : stream'[t] = stream[t] /\ seen'[t] = seen[t],
           stream'[s] = [path |-> stream'[s].path, nodes |-> stream'[s].nodes,
                         idx |-> stream'[s].idx],
           seen'[s] = [from |-> seen'[s].from, dents |-> seen'[s].dents, ended |-> seen'[s].ended],
           stream'[s].idx \in Nat,
           seen'[s].dents \in Seq(Range(seen'[s].dents)),
           ReturnsNodes(stream'[s], seen'[s]), IsListOf(stream'[s], seen'[s])
    PROVE  StreamTypeOK' /\ SeenInv'
<1>1. StreamTypeOK'
    BY DEF StreamTypeOK
<1>2. SeenInv'
    <2> SUFFICES ASSUME NEW t \in Streams
                 PROVE  ReturnsNodes(stream'[t], seen'[t]) /\ IsListOf(stream'[t], seen'[t])
        BY DEF SeenInv
    <2>1. CASE t = s
        BY <2>1
    <2>2. CASE t # s
        BY <2>2 DEF SeenInv
    <2> QED BY <2>1, <2>2
<1> QED BY <1>1, <1>2

\* What readdir does to the record of what was seen.
LEMMA SeenChanges ==
    ASSUME StreamTypeOK, NEW s \in Streams, NEW x
    PROVE  /\ seen' = [seen EXCEPT ![s].dents = x] =>
                seen'[s] = [from |-> seen[s].from, dents |-> x, ended |-> seen[s].ended]
           /\ seen' = [seen EXCEPT ![s].ended = x] =>
                seen'[s] = [from |-> seen[s].from, dents |-> seen[s].dents, ended |-> x]
<1> DEFINE r == seen[s]
<1>1. r = [from |-> r.from, dents |-> r.dents, ended |-> r.ended] /\ s \in DOMAIN seen
    BY DEF StreamTypeOK
<1>2. /\ [r EXCEPT !.dents = x] = [from |-> r.from, dents |-> x, ended |-> r.ended]
      /\ [r EXCEPT !.ended = x] = [from |-> r.from, dents |-> r.dents, ended |-> x]
    <2> HIDE DEF r
    <2> QED BY <1>1
<1>3. ASSUME seen' = [seen EXCEPT ![s].dents = x] PROVE seen'[s] = [r EXCEPT !.dents = x]
    BY <1>1, <1>3
<1>4. ASSUME seen' = [seen EXCEPT ![s].ended = x] PROVE seen'[s] = [r EXCEPT !.ended = x]
    BY <1>1, <1>4
<1> QED BY <1>2, <1>3, <1>4

LEMMA ReaddirNext ==
    ASSUME StreamTypeOK, SeenInv, NEW s \in Streams,
           stream[s].idx < Len(stream[s].nodes),
           stream' = [stream EXCEPT ![s].idx = @ + 1],
           seen' = [seen EXCEPT ![s].dents = Append(@, Dent(stream[s].nodes[stream[s].idx + 1]))]
    PROVE  StreamTypeOK' /\ SeenInv'
<1> DEFINE new == Dent(stream[s].nodes[stream[s].idx + 1])
           read == seen[s].dents
           now == Append(read, new)
           all == Range(read) \cup {new}
<1>1. DOMAIN stream' = Streams /\ DOMAIN seen' = Streams
    BY DEF StreamTypeOK
<1>2. \A t \in Streams \ {s} : stream'[t] = stream[t] /\ seen'[t] = seen[t]
    BY DEF StreamTypeOK
<1>3. /\ stream'[s].path = stream[s].path /\ stream'[s].nodes = stream[s].nodes
      /\ stream'[s].idx = stream[s].idx + 1
      /\ stream'[s] = [path |-> stream[s].path, nodes |-> stream[s].nodes, idx |-> stream[s].idx + 1]
    BY DEF StreamTypeOK
<1>4. /\ seen'[s].from = seen[s].from /\ seen'[s].dents = now /\ seen'[s].ended = seen[s].ended
      /\ seen'[s] = [from |-> seen[s].from, dents |-> now, ended |-> seen[s].ended]
    <2>1. seen'[s] = [from |-> seen[s].from, dents |-> now, ended |-> seen[s].ended]
        BY SeenChanges
    <2> HIDE DEF now
    <2> QED BY <2>1
<1>5. read \in Seq(Range(read))
    BY DEF StreamTypeOK
<1> HIDE DEF new
<1>6. read \in Seq(all)
    <2>1. Range(read) \subseteq all
        OBVIOUS
    <2> HIDE DEF all, read
    <2> QED BY <1>5, <2>1, SeqMonotonic
<1>7. /\ Len(now) = Len(read) + 1 /\ DOMAIN now = 1 .. Len(read) + 1
      /\ DOMAIN read = 1 .. Len(read) /\ Len(read) \in Nat
      /\ now[Len(read) + 1] = new
      /\ \A i \in 1 .. Len(read) : now[i] = read[i]
      /\ now \in Seq(all)
    <2>1. new \in all
        OBVIOUS
    <2> HIDE DEF all, read
    <2> QED BY <1>6, <2>1, AppendProperties, LenProperties
<1>8. now \in Seq(Range(now))
    <2>1. all \subseteq Range(now)
        <3> HIDE DEF now, read
        <3> QED BY <1>7 DEF Range
    <2> HIDE DEF all, now
    <2> QED BY <1>7, <2>1, SeqMonotonic
<1>9. Len(read) = stream[s].idx /\ \A i \in DOMAIN read : read[i] = Dent(stream[s].nodes[i])
    BY DEF SeenInv, ReturnsNodes
<1> HIDE DEF now, read, all
<1>10. ReturnsNodes(stream'[s], seen'[s])
    <2>1. Len(now) = stream'[s].idx
        BY <1>3, <1>7, <1>9
    <2>2. ASSUME NEW i \in 1 .. Len(read) + 1 PROVE now[i] = Dent(stream[s].nodes[i])
        <3>1. CASE i = Len(read) + 1
            BY <3>1, <1>7, <1>9 DEF new
        <3>2. CASE i # Len(read) + 1
            <4>1. i \in 1 .. Len(read)
                BY <3>2, <1>7
            <4> QED BY <4>1, <1>7, <1>9
        <3> QED BY <3>1, <3>2
    <2> QED BY <2>1, <2>2, <1>3, <1>4, <1>7 DEF ReturnsNodes
<1>11. IsListOf(stream'[s], seen'[s])
    <2> SUFFICES ASSUME seen[s].from # NoPartition PROVE IsListOf(stream'[s], seen'[s])
        BY <1>4 DEF IsListOf
    <2>1. /\ seen[s].from \in Partitions /\ stream[s].path \in Paths
          /\ IsDirUboot(Lookup(seen[s].from, stream[s].path))
          /\ stream[s].nodes = List(Lookup(seen[s].from, stream[s].path))
          /\ seen[s].ended => stream[s].idx = Len(stream[s].nodes)
        BY DEF SeenInv, IsListOf
    <2>2. Len(stream[s].nodes) \in Nat /\ stream[s].idx \in Nat
        BY <2>1, ListType DEF StreamTypeOK
    <2>3. stream[s].idx + 1 <= Len(stream[s].nodes) /\ ~seen[s].ended
        BY <2>1, <2>2
    <2> QED BY <2>1, <2>3, <1>3, <1>4 DEF IsListOf
<1>12. stream'[s].idx \in Nat
    BY <1>3 DEF StreamTypeOK
<1> QED BY <1>1, <1>2, <1>3, <1>4, <1>8, <1>10, <1>11, <1>12, OneStream

LEMMA ReaddirEnd ==
    ASSUME StreamTypeOK, SeenInv, NEW s \in Streams,
           stream[s].idx >= Len(stream[s].nodes),
           seen' = [seen EXCEPT ![s].ended = TRUE], stream' = stream
    PROVE  StreamTypeOK' /\ SeenInv'
<1>1. /\ DOMAIN stream' = Streams /\ DOMAIN seen' = Streams
      /\ \A t \in Streams \ {s} : stream'[t] = stream[t] /\ seen'[t] = seen[t]
    BY DEF StreamTypeOK
<1>2. /\ seen'[s].from = seen[s].from /\ seen'[s].dents = seen[s].dents /\ seen'[s].ended = TRUE
      /\ seen'[s] = [from |-> seen[s].from, dents |-> seen[s].dents, ended |-> TRUE]
    <2>1. seen'[s] = [from |-> seen[s].from, dents |-> seen[s].dents, ended |-> TRUE]
        BY SeenChanges
    <2> QED BY <2>1
<1>3. ReturnsNodes(stream'[s], seen'[s])
    BY <1>2 DEF SeenInv, ReturnsNodes
<1>4. IsListOf(stream'[s], seen'[s])
    <2> SUFFICES ASSUME seen[s].from # NoPartition PROVE IsListOf(stream'[s], seen'[s])
        BY <1>2 DEF IsListOf
    <2>1. /\ seen[s].from \in Partitions /\ stream[s].path \in Paths
          /\ IsDirUboot(Lookup(seen[s].from, stream[s].path))
          /\ stream[s].nodes = List(Lookup(seen[s].from, stream[s].path))
          /\ stream[s].idx <= Len(stream[s].nodes)
        BY DEF SeenInv, IsListOf
    <2>2. Len(stream[s].nodes) \in Nat /\ stream[s].idx \in Nat
        BY <2>1, ListType DEF StreamTypeOK
    <2>3. stream[s].idx = Len(stream[s].nodes)
        BY <2>1, <2>2
    <2> QED BY <2>1, <2>3, <1>2 DEF IsListOf
<1>5. /\ stream[s] = [path |-> stream[s].path, nodes |-> stream[s].nodes, idx |-> stream[s].idx]
      /\ stream[s].idx \in Nat /\ seen[s].dents \in Seq(Range(seen[s].dents))
    BY DEF StreamTypeOK
<1> QED BY <1>1, <1>2, <1>3, <1>4, <1>5, OneStream

LEMMA ReaddirInv ==
    ASSUME StreamTypeOK, SeenInv, NEW s \in Streams, Readdir(s)
    PROVE  StreamTypeOK' /\ SeenInv'
    BY ReaddirNext, ReaddirEnd DEF Readdir, ReaddirOf

\* A stream that is opened or closed begins anew.
LEMMA StreamBegins ==
    ASSUME StreamTypeOK, SeenInv, NEW s \in Streams, NEW p, NEW n, NEW from,
           stream' = [stream EXCEPT ![s] = [path |-> p, nodes |-> n, idx |-> 0]],
           seen' = [seen EXCEPT ![s] = NothingSeen(from)],
           from # NoPartition =>
               /\ from \in Partitions /\ p \in Paths
               /\ IsDirUboot(Lookup(from, p)) /\ n = List(Lookup(from, p))
    PROVE  StreamTypeOK' /\ SeenInv'
<1>1. /\ DOMAIN stream' = Streams /\ DOMAIN seen' = Streams
      /\ \A t \in Streams \ {s} : stream'[t] = stream[t] /\ seen'[t] = seen[t]
    BY DEF StreamTypeOK
<1>2. stream'[s] = [path |-> p, nodes |-> n, idx |-> 0] /\ seen'[s] = NothingSeen(from)
    <2>1. s \in DOMAIN stream /\ s \in DOMAIN seen
        BY DEF StreamTypeOK
    <2> QED BY <2>1
<1> DEFINE str == [path |-> p, nodes |-> n, idx |-> 0]
           none == NothingSeen(from)
<1>3. /\ none.from = from /\ none.dents = <<>> /\ none.ended = FALSE
      /\ none = [from |-> none.from, dents |-> none.dents, ended |-> none.ended]
      /\ none.dents \in Seq(Range(none.dents)) /\ Len(none.dents) = 0 /\ DOMAIN none.dents = {}
    BY NothingIsSeen
<1>4. /\ str.path = p /\ str.nodes = n /\ str.idx = 0
      /\ str = [path |-> str.path, nodes |-> str.nodes, idx |-> str.idx]
      /\ stream'[s] = str /\ seen'[s] = none
    BY <1>2
<1> HIDE DEF str, none
<1>5. ReturnsNodes(stream'[s], seen'[s])
    BY <1>3, <1>4 DEF ReturnsNodes
<1>6. IsListOf(stream'[s], seen'[s])
    <2> SUFFICES ASSUME from # NoPartition PROVE IsListOf(stream'[s], seen'[s])
        BY <1>3, <1>4 DEF IsListOf
    <2>1. Len(n) \in Nat
        BY ListType
    <2>2. 0 <= Len(n)
        BY <2>1
    <2>3. /\ stream'[s].path = p /\ stream'[s].nodes = n /\ stream'[s].idx = 0
          /\ seen'[s].from = from /\ seen'[s].ended = FALSE
        BY <1>3, <1>4
    <2> QED BY <2>2, <2>3 DEF IsListOf
<1>7. seen'[s].dents \in Seq(Range(seen'[s].dents))
      /\ seen'[s] = [from |-> seen'[s].from, dents |-> seen'[s].dents, ended |-> seen'[s].ended]
    BY <1>3, <1>4
<1>8. stream'[s] = [path |-> stream'[s].path, nodes |-> stream'[s].nodes, idx |-> stream'[s].idx]
      /\ stream'[s].idx \in Nat
    BY <1>4
<1> QED BY <1>1, <1>5, <1>6, <1>7, <1>8, OneStream

LEMMA OpendirInv ==
    ASSUME ContextInv, StreamTypeOK, SeenInv, NEW s \in Streams, NEW p \in Paths, Opendir(s, p)
    PROVE  StreamTypeOK' /\ SeenInv'
<1>1. CASE Abort
    BY <1>1, StreamsUnchanged DEF Abort, streams
<1> DEFINE nodes == List(Lookup(partition, p))
<1>2. CASE /\ m_opened /\ IsDirUboot(Lookup(partition, p))
           /\ Begins(s, p, partition, nodes)
    <2>1. partition \in Partitions
        BY <1>2 DEF ContextInv
    <2> QED BY <1>2, <2>1, StreamBegins DEF Begins
<1>3. ASSUME NEW n, Begins(s, p, NoPartition, n) PROVE StreamTypeOK' /\ SeenInv'
    BY <1>3, StreamBegins DEF Begins
<1> QED BY <1>1, <1>2, <1>3 DEF Opendir

LEMMA ClosedirInv ==
    ASSUME StreamTypeOK, SeenInv, NEW s \in Streams, Closedir(s)
    PROVE  StreamTypeOK' /\ SeenInv'
    BY StreamBegins DEF Closedir, NoStream

-----------------------------------------------------------------------------
(* The driver *)

LEMMA DriverStep == DriverInv /\ DriverNext => DriverInv'
<1> SUFFICES ASSUME DriverInv, DriverNext PROVE DriverInv'
    OBVIOUS
<1>1. ContextInv /\ StreamTypeOK /\ SeenInv
    BY DEF DriverInv
<1>2. CASE Close \/ \E p \in Partitions : Probe(p) \/ Doit(p)
    <2>1. ContextInv'
        BY <1>1, <1>2, ProbeInv, DoitInv, CloseInv
    <2>2. UNCHANGED streams
        BY <1>2 DEF Probe, Doit, Close, Abort, streams
    <2> QED BY <1>1, <2>1, <2>2, StreamsUnchanged DEF DriverInv
<1>3. CASE Unsupported \/ \E p \in Paths : Exists(p)
    <2>1. UNCHANGED context /\ UNCHANGED streams
        BY <1>3 DEF Unsupported, Exists, Abort, streams
    <2> QED BY <1>1, <2>1, ContextUnchanged, StreamsUnchanged DEF DriverInv
<1>4. ASSUME NEW s \in Streams, NEW p \in Paths, Opendir(s, p) PROVE DriverInv'
    <2>1. UNCHANGED context
        BY <1>4 DEF Opendir, Begins, Abort
    <2> QED BY <1>1, <1>4, <2>1, ContextUnchanged, OpendirInv DEF DriverInv
<1>5. ASSUME NEW s \in Streams, Readdir(s) PROVE DriverInv'
    <2>1. UNCHANGED context
        BY <1>5 DEF Readdir, ReaddirOf
    <2> QED BY <1>1, <1>5, <2>1, ContextUnchanged, ReaddirInv DEF DriverInv
<1>6. ASSUME NEW s \in Streams, Closedir(s) PROVE DriverInv'
    <2>1. UNCHANGED context
        BY <1>6 DEF Closedir
    <2> QED BY <1>1, <1>6, <2>1, ContextUnchanged, ClosedirInv DEF DriverInv
<1> QED BY <1>2, <1>3, <1>4, <1>5, <1>6 DEF DriverNext

-----------------------------------------------------------------------------
(* The dump *)

\* The names that lookupDir goes through, the root directory's first.
Names == <<"root">> \o dirPath

DumpTypeOK ==
    /\ step \in {"container", "volumes", "asserted lookups", "lookupDir", "done", "aborted"}
    /\ volidx \in Nat \ {0}
    /\ dirPath \in Seq(STRING) \ {<<>>}
    /\ childIdx \in 1 .. Len(dirPath)

\* lookupDir is where the driver's walk is, as long as both find something.
InStep ==
    /\ step \in {"asserted lookups", "lookupDir", "done"} =>
          preboot_vol \in VolumesOf(MainPartition)
    /\ step \in {"container", "volumes", "asserted lookups"} => childIdx = 1
    /\ step = "lookupDir" =>
          /\ res \in EntriesOf(preboot_vol)
          /\ Walk(preboot_vol, Names)[1 .. childIdx] = Node(preboot_vol, res)
    /\ step = "done" =>
          Walk(preboot_vol, Names)[1 .. Len(Names)] =
              IF res = NoEntry THEN NoNode ELSE Node(preboot_vol, res)

DumpInv == DumpTypeOK /\ InStep

\* The provers do not know that a literal is a string.
Strings == STRING \cup {"root", "skipped"}

LEMMA NamesType ==
    ASSUME DumpTypeOK
    PROVE  /\ Names \in Seq(Strings) /\ Len(Names) = Len(dirPath) + 1 /\ Len(dirPath) \in Nat \ {0}
           /\ Names[1] = "root"
           /\ \A k \in 1 .. Len(dirPath) : Names[k + 1] = dirPath[k]
<1>1. dirPath \in Seq(Strings) /\ dirPath # <<>>
    BY SeqMonotonic DEF DumpTypeOK, Strings
<1>2. <<"root">> \in Seq(Strings) /\ Len(<<"root">>) = 1 /\ <<"root">>[1] = "root"
    BY DEF Strings
<1>3. Len(dirPath) \in Nat \ {0}
    BY <1>1, EmptySeq
<1>4. /\ Names \in Seq(Strings) /\ Len(Names) = 1 + Len(dirPath)
      /\ \A i \in 1 .. 1 + Len(dirPath) :
            Names[i] = IF i <= 1 THEN <<"root">>[i] ELSE dirPath[i - 1]
    BY <1>1, <1>2, ConcatProperties DEF Names
<1>5. ASSUME NEW k \in 1 .. Len(dirPath) PROVE Names[k + 1] = dirPath[k]
    BY <1>3, <1>4
<1>6. Names[1] = "root"
    BY <1>2, <1>3, <1>4
<1> QED BY <1>3, <1>4, <1>5, <1>6

LEMMA LookupNameIsFound ==
    \A parent, name : LookupName(parent, name) = Found(preboot_vol, parent, name)
    BY DEF LookupName, Found

LEMMA DumpInitInv == Init => DumpInv
<1> SUFFICES ASSUME Init PROVE DumpInv
    OBVIOUS
<1>1. dirPath \in Seq(STRING) \ {<<>>} /\ childIdx = 1 /\ volidx = 1 /\ step = "container"
    BY ApfsDumpAssumption DEF Init, DumpInit
<1>2. 1 \in 1 .. Len(dirPath)
    BY <1>1, EmptySeq
<1> QED BY <1>1, <1>2 DEF DumpInv, DumpTypeOK, InStep

\* What is not found has no children: the walk ends as it is.
LEMMA WalkGivesUp ==
    ASSUME NEW v \in AllVolumes, NEW S, NEW names \in Seq(S), NEW k \in 1 .. Len(names),
           Walk(v, names)[1 .. k] = NoNode
    PROVE  Walk(v, names)[1 .. Len(names)] = NoNode
<1> DEFINE w == Walk(v, names)
           n == Len(names)
           P == {m \in Nat : k + m <= n => w[1 .. k + m] = NoNode}
<1>1. n \in Nat /\ n - k \in Nat /\ k \in Nat
    BY LenProperties
<1>2. 0 \in P
    BY <1>1
<1>3. ASSUME NEW m \in Nat, m \in P PROVE m + 1 \in P
    <2> SUFFICES ASSUME k + (m + 1) <= n PROVE w[1 .. k + (m + 1)] = NoNode
        OBVIOUS
    <2>1. w[1 .. k + m] = NoNode
        BY <1>1, <1>3
    <2>2. k + (m + 1) \in 1 .. n /\ k + (m + 1) - 1 = k + m
        BY <1>1
    <2>3. w[1 .. k + (m + 1)] = ChildNamed(w[1 .. k + m], names[k + (m + 1)])
        <3>1. \A j \in 1 .. n : w[1 .. j] = ChildNamed(w[1 .. j - 1], names[j])
            BY WalkProperties
        <3> HIDE DEF w, n
        <3> QED BY <2>2, <3>1
    <2> QED BY <2>1, <2>3, NoNodeIsNone DEF ChildNamed
<1>4. Nat \subseteq P
    <2> HIDE DEF P
    <2> QED BY <1>2, <1>3, Induction
<1>5. k + (n - k) = n
    BY <1>1
<1> QED BY <1>1, <1>4, <1>5

LEMMA FindPrebootInv == DumpInv /\ FindPreboot => DumpInv'
<1> SUFFICES ASSUME DumpInv, FindPreboot, ~DumpAbort PROVE DumpInv'
    BY DEF DumpInv, DumpTypeOK, InStep, FindPreboot, DumpAbort
<1>1. /\ step = "volumes" /\ volidx <= Len(Volumes[MainPartition]) /\ volidx \in Nat \ {0}
      /\ UNCHANGED <<dirPath, childIdx>>
    BY DEF FindPreboot, DumpInv, DumpTypeOK
<1>2. CASE role[Volumes[MainPartition][volidx]] = "preboot"
    <2>1. preboot_vol' = <<MainPartition, Volumes[MainPartition][volidx]>> /\ step' = "asserted lookups" /\ UNCHANGED volidx
        BY <1>2 DEF FindPreboot
    <2>2. preboot_vol' \in VolumesOf(MainPartition)
        <3>1. volidx \in DOMAIN Volumes[MainPartition]
            <4>1. Volumes[MainPartition] \in Seq(STRING \ {""})
                BY ApfsAssumption, ApfsDumpAssumption
            <4>2. DOMAIN Volumes[MainPartition] = 1 .. Len(Volumes[MainPartition]) /\ Len(Volumes[MainPartition]) \in Nat
                BY <4>1, LenProperties
            <4> QED BY <1>1, <4>2
        <3> QED BY <2>1, <3>1 DEF Range, VolumesOf
    <2>3. childIdx = 1
        BY <1>1 DEF DumpInv, InStep
    <2>4. DumpTypeOK'
        BY <1>1, <2>1 DEF DumpInv, DumpTypeOK
    <2>5. InStep'
        BY <1>1, <2>1, <2>2, <2>3 DEF InStep
    <2> QED BY <2>4, <2>5 DEF DumpInv
<1>3. CASE role[Volumes[MainPartition][volidx]] # "preboot"
    <2>1. volidx' = volidx + 1 /\ UNCHANGED <<preboot_vol, step>>
        BY <1>3 DEF FindPreboot
    <2>2. childIdx = 1
        BY <1>1 DEF DumpInv, InStep
    <2>3. DumpTypeOK'
        BY <1>1, <2>1 DEF DumpInv, DumpTypeOK
    <2>4. InStep'
        BY <1>1, <2>1, <2>2 DEF InStep
    <2> QED BY <2>3, <2>4 DEF DumpInv
<1> QED BY <1>2, <1>3

LEMMA AssertedLookupsInv == DumpInv /\ AssertedLookups => DumpInv'
<1> SUFFICES ASSUME DumpInv, AssertedLookups, ~DumpAbort PROVE DumpInv'
    BY DEF DumpInv, DumpTypeOK, InStep, AssertedLookups, DumpAbort
<1> DEFINE v == preboot_vol
           r == LookupName(ROOT_DIR_PARENT, "root")
<1>1. /\ step = "asserted lookups" /\ step' = "lookupDir" /\ res' = r /\ r # NoEntry
      /\ UNCHANGED <<volidx, preboot_vol, dirPath, childIdx>>
    BY DEF AssertedLookups
<1>2. v \in AllVolumes /\ childIdx = 1 /\ DumpTypeOK /\ v \in VolumesOf(MainPartition)
    BY <1>1, ApfsDumpAssumption DEF DumpInv, InStep, AllVolumes
<1>3. VolumeNode(v) \in Nodes(v) /\ VolumeNode(v).entry.ino = ROOT_DIR_PARENT /\ VolumeNode(v) # NoNode
    BY <1>2, AllVolumesAreFound DEF Nodes, VolumeNode, Node, NoEntry
<1>4. r = Found(v, ROOT_DIR_PARENT, "root")
    BY LookupNameIsFound
<1>5. r \in EntriesOf(v) /\ ChildNamed(VolumeNode(v), "root") = Node(v, r)
    <2> HIDE DEF v, r
    <2> QED BY <1>1, <1>2, <1>3, <1>4, ChildIsLookedUp
<1>6. Walk(v, Names)[1 .. 1] = Node(v, r)
    <2>1. Names \in Seq(Strings) /\ 1 \in 1 .. Len(Names) /\ Names[1] = "root"
        BY <1>2, NamesType
    <2> DEFINE w == Walk(v, Names)
    <2>2. /\ \A j \in 1 .. Len(Names) : w[1 .. j] = ChildNamed(w[1 .. j - 1], Names[j])
          /\ w[{}] = VolumeNode(v)
        BY <1>2, <2>1, WalkProperties
    <2> HIDE DEF w
    <2>3. w[1 .. 1] = ChildNamed(w[1 .. 1 - 1], "root")
        BY <2>1, <2>2
    <2>4. 1 .. 1 - 1 = {}
        OBVIOUS
    <2>5. w[1 .. 1] = ChildNamed(VolumeNode(v), "root")
        BY <2>2, <2>3, <2>4
    <2> QED BY <1>5, <2>5 DEF w
<1>7. preboot_vol' = v /\ Names' = Names /\ childIdx' = 1
    BY <1>1, <1>2 DEF Names
<1>8. DumpTypeOK'
    BY <1>1, <1>2 DEF DumpTypeOK
<1>9. InStep'
    <2> HIDE DEF v, r
    <2> QED BY <1>1, <1>2, <1>5, <1>6, <1>7 DEF InStep
<1> QED BY <1>8, <1>9 DEF DumpInv

LEMMA LookupDirInv == DumpInv /\ LookupDir => DumpInv'
<1> SUFFICES ASSUME DumpInv, LookupDir PROVE DumpInv'
    OBVIOUS
<1> DEFINE v == preboot_vol
           k == childIdx
           r == LookupName(res.ino, dirPath[k])
           w == Walk(v, Names)
<1>1. /\ step = "lookupDir" /\ res' = r
      /\ UNCHANGED <<volidx, preboot_vol, dirPath>>
    BY DEF LookupDir, childDirNamed
<1>2. /\ DumpTypeOK /\ v \in AllVolumes /\ v \in VolumesOf(MainPartition)
      /\ res \in EntriesOf(v) /\ w[1 .. k] = Node(v, res)
    BY <1>1, ApfsDumpAssumption DEF DumpInv, InStep, AllVolumes
<1>3. /\ Names \in Seq(Strings) /\ Len(Names) = Len(dirPath) + 1 /\ Len(dirPath) \in Nat
      /\ k \in 1 .. Len(dirPath) /\ Names[k + 1] = dirPath[k]
    BY <1>2, NamesType DEF DumpTypeOK
<1>4. w[1 .. k + 1] = ChildNamed(w[1 .. k], dirPath[k])
    <2>1. \A j \in 1 .. Len(Names) : w[1 .. j] = ChildNamed(w[1 .. j - 1], Names[j])
        BY <1>2, <1>3, WalkProperties
    <2>2. k + 1 \in 1 .. Len(Names) /\ k + 1 - 1 = k
        BY <1>3
    <2> HIDE DEF w
    <2> QED BY <1>3, <2>1, <2>2
<1>5. /\ r \in EntriesOf(v) \cup {NoEntry}
      /\ w[1 .. k + 1] = IF r = NoEntry THEN NoNode ELSE Node(v, r)
    <2>1. Node(v, res) \in Nodes(v) /\ Node(v, res) # NoNode /\ Node(v, res).entry.ino = res.ino
        BY <1>2, EntriesAreFound DEF Nodes, NodesOf, Node
    <2>2. r = Found(v, Node(v, res).entry.ino, dirPath[k])
        BY <2>1, LookupNameIsFound
    <2> HIDE DEF v, r, w
    <2> QED BY <1>2, <1>4, <2>1, <2>2, ChildIsLookedUp
<1>6. preboot_vol' = v /\ Names' = Names
    BY <1>1 DEF Names
<1>7. CASE r # NoEntry /\ k < Len(dirPath)
    <2>1. childIdx' = k + 1 /\ step' = "lookupDir"
        BY <1>1, <1>7 DEF LookupDir
    <2>2. DumpTypeOK'
        BY <1>1, <1>2, <1>3, <1>7, <2>1 DEF DumpTypeOK
    <2>3. InStep'
        <3> HIDE DEF r, v
        <3> QED BY <1>1, <1>2, <1>5, <1>6, <1>7, <2>1 DEF InStep
    <2> QED BY <2>2, <2>3 DEF DumpInv
<1>8. CASE ~(r # NoEntry /\ k < Len(dirPath))
    <2>1. childIdx' = k /\ step' = "done"
        BY <1>1, <1>8 DEF LookupDir
    <2>2. DumpTypeOK'
        BY <1>1, <1>2, <2>1 DEF DumpTypeOK
    <2>3. w[1 .. Len(Names)] = IF r = NoEntry THEN NoNode ELSE Node(v, r)
        <3>1. CASE r = NoEntry
            <4>1. k + 1 \in 1 .. Len(Names) /\ w[1 .. k + 1] = NoNode
                BY <1>3, <1>5, <3>1
            <4> QED BY <1>2, <1>3, <3>1, <4>1, WalkGivesUp
        <3>2. CASE r # NoEntry
            <4>1. Len(Names) = k + 1
                BY <1>3, <1>8, <3>2
            <4> QED BY <1>5, <4>1
        <3> QED BY <3>1, <3>2
    <2>4. InStep'
        <3> HIDE DEF r, v
        <3> QED BY <1>1, <1>2, <1>6, <2>1, <2>3 DEF InStep
    <2> QED BY <2>2, <2>4 DEF DumpInv
<1> QED BY <1>7, <1>8

LEMMA DumpStep == DumpInv /\ DumpNext => DumpInv'
<1>1. DumpInv /\ Container => DumpInv'
    BY DEF Container, DumpAbort, DumpInv, DumpTypeOK, InStep
<1> QED BY <1>1, FindPrebootInv, AssertedLookupsInv, LookupDirInv DEF DumpNext

-----------------------------------------------------------------------------
(* What follows *)

Inv == DriverInv /\ DumpInv

LEMMA StepInv == Inv /\ [Next]_vars => Inv'
<1> SUFFICES ASSUME Inv, [Next]_vars PROVE Inv'
    OBVIOUS
<1>1. ASSUME UNCHANGED dumpVars PROVE DumpInv'
    BY <1>1 DEF Inv, DumpInv, DumpTypeOK, InStep, Names, dumpVars
<1>2. ASSUME UNCHANGED driverVars PROVE DriverInv'
    <2>1. UNCHANGED context /\ UNCHANGED streams
        BY <1>2 DEF driverVars, streams
    <2> QED BY <2>1, ContextUnchanged, StreamsUnchanged DEF Inv, DriverInv
<1>3. CASE DriverNext /\ UNCHANGED dumpVars
    BY <1>1, <1>3, DriverStep DEF Inv
<1>4. CASE DumpNext /\ UNCHANGED driverVars
    BY <1>2, <1>4, DumpStep DEF Inv
<1>5. CASE UNCHANGED vars
    <2>1. UNCHANGED dumpVars /\ UNCHANGED driverVars
        BY <1>5 DEF vars, dumpVars, driverVars, context
    <2> QED BY <1>1, <1>2, <2>1 DEF Inv
<1> QED BY <1>3, <1>4, <1>5 DEF Next

\* The inductive invariant of driver and dump.
THEOREM ApfsInvariant == Spec => []Inv
<1>1. Init => Inv
    BY DriverInitInv, DumpInitInv DEF Inv
<1> QED BY <1>1, StepInv, PTL DEF Spec

\* As long as U-Boot closes the context before it probes again, whatever probes
\* fail, an open context has a container that was initialised and not destroyed.
THEOREM AlwaysOpenedIsReady == Spec => []OpenedIsReady
<1>1. Inv => OpenedIsReady
    BY DEF Inv, DriverInv, ContextInv
<1> QED BY <1>1, ApfsInvariant, PTL

\* A stream returns the directory of the partition that was probed when it was
\* opened, whole before -ENOENT, for all partitions and any number of streams,
\* however they are interleaved with closes and probes of other partitions.
THEOREM AlwaysReaddirIsWhole == Spec => []ReaddirIsWhole
<1>1. Inv => ReaddirIsWhole
    <2> SUFFICES ASSUME Inv, NEW s \in Streams, seen[s].from # NoPartition
                 PROVE  LET whole == Dents(List(Lookup(seen[s].from, stream[s].path)))
                            read == seen[s].dents
                        IN /\ Len(read) <= Len(whole)
                           /\ \A i \in DOMAIN read : read[i] = whole[i]
                           /\ seen[s].ended => Len(read) = Len(whole)
        BY DEF ReaddirIsWhole
    <2> DEFINE nodes == List(Lookup(seen[s].from, stream[s].path))
               read == seen[s].dents
    <2>1. ReturnsNodes(stream[s], seen[s]) /\ IsListOf(stream[s], seen[s])
        BY DEF Inv, DriverInv, SeenInv
    <2>2. read \in Seq(Range(read))
        BY DEF Inv, DriverInv, StreamTypeOK
    <2>3. DOMAIN read = 1 .. Len(read) /\ Len(read) \in Nat
        <3> HIDE DEF read
        <3> QED BY <2>2, LenProperties
    <2>4. /\ seen[s].from \in Partitions /\ stream[s].path \in Seq(STRING) \ {<<>>}
          /\ IsDirUboot(Lookup(seen[s].from, stream[s].path)) /\ stream[s].nodes = nodes
          /\ stream[s].idx <= Len(nodes) /\ (seen[s].ended => stream[s].idx = Len(nodes))
        BY <2>1, ApfsAssumption DEF IsListOf
    <2>5. Len(nodes) \in Nat /\ DOMAIN nodes = 1 .. Len(nodes)
        BY <2>4, ListStaysInVolume
    <2>6. Len(read) = stream[s].idx /\ \A i \in DOMAIN read : read[i] = Dent(nodes[i])
        BY <2>1, <2>4 DEF ReturnsNodes
    <2> HIDE DEF nodes, read
    <2>7. Dents(nodes) = [i \in 1 .. Len(nodes) |-> Dent(nodes[i])] /\ Len(Dents(nodes)) = Len(nodes)
        BY <2>5 DEF Dents
    <2>8. \A i \in DOMAIN read : i \in 1 .. Len(nodes) /\ read[i] = Dents(nodes)[i]
        BY <2>3, <2>4, <2>5, <2>6, <2>7
    <2> QED BY <2>4, <2>6, <2>7, <2>8 DEF nodes, read
<1> QED BY <1>1, ApfsInvariant, PTL

\* What a stream lists belongs to the volume that its path names, on the
\* partition that was probed then, for every container and every path.
THEOREM AlwaysListsItsVolume == Spec => []ListsItsVolume
<1>1. Inv => ListsItsVolume
    <2> SUFFICES ASSUME Inv, NEW s \in Streams, seen[s].from # NoPartition
                 PROVE  Lists(seen[s].from, stream[s].path, stream[s].nodes)
        BY DEF ListsItsVolume, Lists
    <2>1. IsListOf(stream[s], seen[s])
        BY DEF Inv, DriverInv, SeenInv
    <2>2. /\ seen[s].from \in Partitions /\ stream[s].path \in Seq(STRING) \ {<<>>}
          /\ IsDirUboot(Lookup(seen[s].from, stream[s].path))
          /\ stream[s].nodes = List(Lookup(seen[s].from, stream[s].path))
        BY <2>1, ApfsAssumption DEF IsListOf
    <2> QED BY <2>2, ListStaysInVolume
<1> QED BY <1>1, ApfsInvariant, PTL

\* The path that the driver is asked for when the dump looks for dirPath.
LEMMA DriversPath ==
    ASSUME DumpTypeOK, preboot_vol \in VolumesOf(MainPartition)
    PROVE  LET path == <<preboot_vol[2], "skipped", "root">> \o dirPath
           IN /\ PathVolume(path) = preboot_vol[2]
              /\ PathRest(path) # <<>> /\ LookedUp(path) = Names
<1> DEFINE path == <<preboot_vol[2], "skipped", "root">> \o dirPath
           T == STRING \cup {preboot_vol[2], "skipped", "root"}
<1>1. dirPath \in Seq(T) /\ <<preboot_vol[2], "skipped", "root">> \in Seq(T) /\ <<"root">> \in Seq(T)
    <2>1. dirPath \in Seq(STRING) /\ STRING \subseteq T
        BY DEF DumpTypeOK
    <2>2. preboot_vol[2] \in T /\ "skipped" \in T /\ "root" \in T
        OBVIOUS
    <2> HIDE DEF T
    <2>3. dirPath \in Seq(T)
        BY <2>1, SeqMonotonic
    <2>4. <<preboot_vol[2], "skipped", "root">> \in Seq(T)
        BY <2>2
    <2>5. <<"root">> \in Seq(T)
        BY <2>2
    <2> QED BY <2>3, <2>4, <2>5
<1>2. Len(dirPath) \in Nat
    BY <1>1, LenProperties
<1> DEFINE l == Len(dirPath)
<1>3. /\ path \in Seq(T) /\ Len(path) = 3 + l
      /\ \A i \in 1 .. 3 + l : path[i] = IF i <= 3 THEN <<preboot_vol[2], "skipped", "root">>[i]
                                         ELSE dirPath[i - 3]
    BY <1>1, ConcatProperties
<1>4. /\ Names \in Seq(T) /\ Len(Names) = 1 + l
      /\ \A i \in 1 .. 1 + l : Names[i] = IF i <= 1 THEN <<"root">>[i] ELSE dirPath[i - 1]
    BY <1>1, ConcatProperties DEF Names
<1> HIDE DEF path, T
<1>5. path[1] = preboot_vol[2] /\ path[2] = "skipped" /\ path[3] = "root"
    BY <1>2, <1>3
<1>6. path # <<>> /\ Head(path) = preboot_vol[2]
    <2>1. Len(path) # 0
        BY ONLY <1>2, <1>3
    <2>2. path # <<>>
        <3>1. Len(<<>>) = 0
            BY ONLY EmptySeq, SMTT(60)
        <3> QED BY ONLY <2>1, <3>1, Zenon
    <2> QED BY ONLY <2>2, <1>5
<1> DEFINE rest == Tail(path)
           behind == Tail(rest)
<1>7. /\ rest \in Seq(T) /\ Len(rest) = 2 + l
      /\ \A i \in 1 .. 2 + l : rest[i] = path[i + 1]
    <2>1. /\ rest \in Seq(T) /\ Len(rest) = Len(path) - 1
          /\ \A i \in 1 .. Len(rest) : rest[i] = path[i + 1]
        BY <1>3, <1>6, HeadTailProperties
    <2>2. Len(rest) = 2 + l
        BY <1>2, <1>3, <2>1
    <2> QED BY <2>1, <2>2
<1> HIDE DEF rest
<1>8. rest # <<>> /\ rest # <<"">>
    <2>1. Len(<<>>) = 0 /\ Len(<<"">>) = 1
        OBVIOUS
    <2>2. Len(rest) # 0 /\ Len(rest) # 1
        BY <1>2, <1>7
    <2> QED BY <2>1, <2>2
<1>9. PathRest(path) = rest
    <2>1. Tail(path) # <<"">>
        BY ONLY <1>8, ZenonT(60) DEF rest
    <2> QED BY ONLY <2>1 DEF PathRest, rest
<1>10. /\ behind \in Seq(T) /\ Len(behind) = 1 + l
       /\ \A i \in 1 .. 1 + l : behind[i] = rest[i + 1]
    <2>1. /\ behind \in Seq(T) /\ Len(behind) = Len(rest) - 1
          /\ \A i \in 1 .. Len(behind) : behind[i] = rest[i + 1]
        BY <1>7, <1>8, HeadTailProperties
    <2>2. Len(behind) = 1 + l
        BY <1>2, <1>7, <2>1
    <2> QED BY <2>1, <2>2
<1> HIDE DEF behind
<1>11. ASSUME NEW i \in 1 .. 1 + l PROVE behind[i] = Names[i]
    <2>1. behind[i] = path[i + 2]
        <3>1. i + 1 \in 1 .. 2 + l /\ i + 1 + 1 = i + 2
            BY <1>2
        <3>2. behind[i] = rest[i + 1] /\ rest[i + 1] = path[i + 1 + 1]
            BY <1>7, <1>10, <3>1
        <3> QED BY <3>1, <3>2
    <2>2. CASE i = 1
        BY <1>2, <1>4, <1>5, <2>1, <2>2
    <2>3. CASE i # 1
        <3>1. path[i + 2] = dirPath[i - 1] /\ Names[i] = dirPath[i - 1]
            BY <1>2, <1>3, <1>4, <2>3
        <3> QED BY <2>1, <3>1
    <2> QED BY <2>2, <2>3
<1>12. behind = Names
    BY <1>2, <1>4, <1>10, <1>11, SeqEqual
<1> QED BY <1>6, <1>8, <1>9, <1>12 DEF PathVolume, LookedUp, path, behind

\* The dump's own lookup and the driver's, for every container and every
\* directory: what one finds the other finds too.
THEOREM AlwaysLookupsAgree == Spec => []LookupsAgree
<1>1. Inv => LookupsAgree
    <2> SUFFICES ASSUME Inv, step = "done" PROVE LookupsAgree
        BY DEF LookupsAgree
    <2> DEFINE v == preboot_vol
               path == <<preboot_vol[2], "skipped", "root">> \o dirPath
    <2>1. /\ DumpTypeOK /\ v \in VolumesOf(MainPartition)
          /\ Walk(v, Names)[1 .. Len(Names)] = IF res = NoEntry THEN NoNode ELSE Node(v, res)
        BY DEF Inv, DumpInv, InStep
    <2>2. PathVolume(path) = v[2] /\ PathRest(path) # <<>> /\ LookedUp(path) = Names
        BY <2>1, DriversPath
    <2>3. /\ v[2] # "" /\ v[2] \in Range(Volumes[MainPartition])
          /\ v = <<MainPartition, v[2]>> /\ v \in AllVolumes
        BY <2>1, VolumesAreFound, ApfsDumpAssumption
    <2> HIDE DEF path, v
    <2>4. Lookup(MainPartition, path) = FoldLeft(ChildNamed, VolumeNode(v), Names)
        BY <2>2, <2>3, Zenon DEF Lookup
    <2>5. Lookup(MainPartition, path) = Walk(v, Names)[1 .. Len(Names)]
        <3>1. Names \in Seq(Strings)
            BY <2>1, NamesType
        <3>2. FoldLeft(ChildNamed, VolumeNode(v), Names) = Walk(v, Names)[1 .. Len(Names)]
            BY <2>3, <3>1, WalkProperties
        <3> QED BY <2>4, <3>2
    <2> QED BY <2>1, <2>5 DEF LookupsAgree, path, v
<1> QED BY <1>1, ApfsInvariant, PTL
=============================================================================
