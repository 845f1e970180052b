---------------------------- MODULE MpRingProofs -----------------------------
(***************************************************************************)
(* The rings of several producers, for every capacity and every number of  *)
(* threads: the ring is never over-filled, no value is popped that nobody  *)
(* wrote, the number of values is right, and with one producer so are the  *)
(* values.                                                                 *)
(***************************************************************************)
EXTENDS MpRing, BasicLemmas, FiniteSetTheorems, SequenceTheorems

-----------------------------------------------------------------------------
(* Cells *)

\* The mask to 2 * N slots and the mirror leave the remainder of a raw index:
\* every index has one of the N cells.
LEMMA CellType == \A i \in Nat : Cell(i) = i % N /\ Cell(i) \in 0 .. N - 1
    BY NAssumption, RemainderOfRemainder, DivMod DEF Cell, PhysicalCell, Masked

\* Any N consecutive raw indices use N different cells, so a ring that never
\* holds more than N elements never overwrites one of them (idx_mask and the
\* mirrored mapping, RingBuffer.h:43-47 and 333-354).
LEMMA CellInjective ==
    ASSUME NEW i \in Nat, NEW j \in Nat, i < j, j < i + N
    PROVE  Cell(i) # Cell(j)
    BY CellType, RemaindersDiffer, NAssumption

-----------------------------------------------------------------------------
(* What is true of every reachable state *)

Values == {Zero} \cup (Producers \X Nat)

MpTypeOK ==
    /\ rd \in Nat /\ wr \in Nat
    /\ buf \in [0 .. N - 1 -> Values]
    /\ ppc \in [Producers -> {"load", "store", "cas", "end"}]
    /\ pwr \in [Producers -> Nat] /\ pushed \in [Producers -> Nat]
    /\ cpc \in [Consumers -> {"load", "read", "cas"}]
    /\ crd \in [Consumers -> Nat] /\ cres \in [Consumers -> Values]
    /\ popped \in [Consumers -> Seq(Values)]
    /\ producers \subseteq Producers /\ consumers \subseteq Consumers
    /\ producers # {}

\* A producer whose swap would still succeed has seen a ring with room: rd has
\* only grown since it asked.
ProducersFit ==
    \A p \in producers :
        /\ pwr[p] <= wr
        /\ ppc[p] \in {"store", "cas"} /\ pwr[p] = wr => Size(rd, wr) < StaticSize

\* What the consumers hold is behind wr; the only consumer of a
\* MultiProdRingBuffer has moved rd already.
ConsumersFit ==
    /\ \A c \in consumers :
           IF MultiCons
             THEN cpc[c] \in {"read", "cas"} => crd[c] <= rd /\ crd[c] < wr
             ELSE cpc[c] # "cas" /\ (cpc[c] = "read" => crd[c] + 1 = rd)
    /\ MultiCons \/ Cardinality(consumers) = 1

Indices == rd <= wr /\ Size(rd, wr) <= StaticSize /\ ProducersFit /\ ConsumersFit

\* A cell is written before wr passes it, and never becomes fresh again.
SlotsWritten ==
    /\ \A i \in 0 .. wr - 1 : buf[Cell(i)] # Zero
    /\ \A p \in producers : ppc[p] = "cas" => buf[Cell(pwr[p])] # Zero
    /\ \A c \in consumers : cpc[c] = "cas" => cres[c] # Zero
    /\ \A c \in consumers : \A i \in DOMAIN popped[c] : popped[c][i] # Zero

\* How many elements have been popped, but for one that is being copied.
Taken == IF ~MultiCons /\ \E c \in consumers : cpc[c] = "read" THEN rd - 1 ELSE rd

\* Every successful swap of a producer is one push that returned, and every one
\* of a consumer one pop.
Pushes == UNION {{p} \X (1 .. pushed[p]) : p \in producers}

Counted ==
    /\ IsFiniteSet(Pops) /\ Cardinality(Pops) = Taken
    /\ IsFiniteSet(Pushes) /\ Cardinality(Pushes) = wr
    /\ \A p \in producers : ppc[p] = "end" => pushed[p] = Quota

\* With one producer nobody overwrites a slot: the window holds its values in
\* order, and a consumer whose swap would still succeed has copied the right one.
InWindow(p) ==
    /\ pushed[p] = wr
    /\ \A i \in rd .. wr - 1 : buf[Cell(i)] = Value(p, i + 1)
    /\ ppc[p] \in {"store", "cas"} => pwr[p] = wr
    /\ ppc[p] = "cas" => buf[Cell(wr)] = Value(p, wr + 1)
    /\ \A c \in consumers :
        /\ cpc[c] = "cas" /\ crd[c] = rd => cres[c] = Value(p, rd + 1)
        /\ ~MultiCons /\ cpc[c] = "read" => buf[Cell(crd[c])] = Value(p, rd)
    /\ Popped = {Value(p, k) : k \in 1 .. Taken}

OneProducer == \A p \in producers : producers = {p} => InWindow(p)

MpInv == MpTypeOK /\ Indices /\ SlotsWritten /\ Counted /\ OneProducer
-----------------------------------------------------------------------------
(* The values *)

\* No pushed value looks like fresh memory.
LEMMA ValueIsNotZero == ASSUME NEW p, NEW k PROVE Value(p, k) # Zero
BY DEF Value, Zero

\* The k-th value of a producer is a value, and the only one with its number.
LEMMA ValueType == \A p \in Producers, k \in Nat : Value(p, k) \in Values
BY DEF Value, Values

\* Numbers of pushes stay numbers, one of them counted up.
LEMMA Bumped ==
    ASSUME NEW S, NEW f \in [S -> Nat], NEW x \in S
    PROVE  [f EXCEPT ![x] = @ + 1] \in [S -> Nat]
OBVIOUS

\* What a consumer popped, with one more value.
LEMMA PoppedMore ==
    ASSUME NEW c \in Consumers, NEW v \in Values, popped \in [Consumers -> Seq(Values)]
    PROVE  [popped EXCEPT ![c] = Append(@, v)] \in [Consumers -> Seq(Values)]
<1>1. Append(popped[c], v) \in Seq(Values)
  BY AppendProperties
<1>2. QED
  BY <1>1
\* One pop more: what is popped, and by whom, grows by the value and its number.
LEMMA NewPops ==
    ASSUME MpTypeOK, NEW c \in consumers, NEW v \in Values,
           popped' = [popped EXCEPT ![c] = Append(@, v)], consumers' = consumers
    PROVE  /\ Popped' = Popped \cup {v}
           /\ Pops' = Pops \cup {<<c, Len(popped[c]) + 1>>}
           /\ <<c, Len(popped[c]) + 1>> \notin Pops
           /\ (\A d \in consumers : \A i \in DOMAIN popped[d] : popped[d][i] # Zero)
                 /\ v # Zero
              => \A d \in consumers : \A i \in DOMAIN popped'[d] : popped'[d][i] # Zero
<1> DEFINE n == Len(popped[c]) + 1
<1>1. c \in Consumers /\ \A d \in consumers : popped[d] \in Seq(Values)
  BY DEF MpTypeOK
<1>2. \A d \in consumers : popped'[d] = IF d = c THEN Append(popped[c], v) ELSE popped[d]
  BY DEF MpTypeOK
<1>3. \A d \in consumers : DOMAIN popped[d] = 1 .. Len(popped[d])
  BY <1>1
<1>4. /\ n \in Nat /\ DOMAIN popped'[c] = 1 .. n
      /\ popped'[c][n] = v
      /\ \A i \in 1 .. n - 1 : popped'[c][i] = popped[c][i]
  <2> DEFINE s == popped[c]
             t == Append(s, v)
  <2>1. s \in Seq(Values) /\ popped'[c] = t
    BY <1>1, <1>2
  <2> HIDE DEF s, t
  <2>2. /\ t \in Seq(Values) /\ Len(t) = Len(s) + 1 /\ t[Len(s) + 1] = v
        /\ \A i \in 1 .. Len(s) : t[i] = s[i]
    BY <2>1, AppendProperties DEF t
  <2>3. Len(s) \in Nat /\ DOMAIN t = 1 .. Len(s) + 1 /\ n = Len(s) + 1
    BY <2>1, <2>2 DEF s
  <2> HIDE DEF n
  <2>4. n - 1 = Len(s)
    BY <2>3
  <2>5. QED
    BY <2>1, <2>2, <2>3, <2>4 DEF s
<1>5. DOMAIN popped'[c] = DOMAIN popped[c] \cup {n} /\ n \notin DOMAIN popped[c]
  BY <1>1, <1>3, <1>4
<1>6. \A i \in DOMAIN popped[c] : popped'[c][i] = popped[c][i]
  BY <1>1, <1>3, <1>4
<1>7. \A d \in consumers \ {c} : popped'[d] = popped[d]
  BY <1>2
<1> HIDE DEF n
<1>8. PoppedBy(c)' = PoppedBy(c) \cup {v} /\ \A d \in consumers \ {c} : PoppedBy(d)' = PoppedBy(d)
  BY <1>4, <1>5, <1>6, <1>7 DEF PoppedBy
<1>9. Popped' = Popped \cup {v}
  BY <1>8 DEF Popped
<1>10. Pops' = Pops \cup {<<c, n>>} /\ <<c, n>> \notin Pops
  BY <1>5, <1>7 DEF Pops
<1>11. (\A d \in consumers : \A i \in DOMAIN popped[d] : popped[d][i] # Zero) /\ v # Zero
          => \A d \in consumers : \A i \in DOMAIN popped'[d] : popped'[d][i] # Zero
  BY <1>4, <1>5, <1>6, <1>7
<1>12. QED
  BY <1>9, <1>10, <1>11 DEF n

-----------------------------------------------------------------------------
(* Types *)

\* Fresh memory, and threads of which at least one pushes.
LEMMA MpTypeInit == Init => MpTypeOK
<1> SUFFICES ASSUME Init PROVE MpTypeOK
  OBVIOUS
<1>1. Zero \in Values /\ <<>> \in Seq(Values)
  BY DEF Values
<1>2. QED
  BY <1>1, NAssumption DEF Init, MpTypeOK

\* Every step keeps the types.
LEMMA MpTypeStep == MpTypeOK /\ [Next]_vars => MpTypeOK'
<1> SUFFICES ASSUME MpTypeOK, [Next]_vars PROVE MpTypeOK'
  OBVIOUS
<1> USE DEF MpTypeOK, prodVars, consVars, program
<1>1. ASSUME NEW p \in producers, PushLoad(p) PROVE MpTypeOK'
  BY <1>1 DEF PushLoad
<1>2. ASSUME NEW p \in producers, PushStore(p) PROVE MpTypeOK'
  <2>1. p \in Producers /\ pwr[p] \in Nat /\ pushed[p] + 1 \in Nat
    OBVIOUS
  <2>2. Cell(pwr[p]) \in 0 .. N - 1 /\ Value(p, pushed[p] + 1) \in Values
    BY <2>1, CellType, ValueType
  <2>3. QED
    BY <1>2, <2>2 DEF PushStore
<1>3. ASSUME NEW p \in producers, PushCas(p) PROVE MpTypeOK'
  <2>1. CASE wr = pwr[p]
    <3>1. pushed' \in [Producers -> Nat]
      <4>1. pushed' = [pushed EXCEPT ![p] = @ + 1]
        BY <1>3, <2>1 DEF PushCas
      <4>2. p \in Producers /\ pushed \in [Producers -> Nat]
        OBVIOUS
      <4>3. QED
        BY ONLY <4>1, <4>2, Bumped
    <3>2. /\ UNCHANGED <<rd, buf, pwr, consVars, program>> /\ wr' = wr + 1
          /\ ppc' = [ppc EXCEPT ![p] = IF pushed'[p] = Quota THEN "end" ELSE "load"]
      BY <1>3, <2>1 DEF PushCas
    <3>3. ppc' \in [Producers -> {"load", "store", "cas", "end"}]
      BY <3>2
    <3>4. QED
      BY <3>1, <3>2, <3>3
  <2>2. CASE wr # pwr[p]
    BY <1>3, <2>2 DEF PushCas
  <2>3. QED
    BY <2>1, <2>2
<1>4. ASSUME NEW c \in consumers, PopLoad(c) PROVE MpTypeOK'
  BY <1>4 DEF PopLoad
<1>5. ASSUME NEW c \in consumers, PopRead(c) PROVE MpTypeOK'
  <2>1. buf[Cell(crd[c])] \in Values
    BY CellType
  <2>2. QED
    BY <1>5, <2>1 DEF PopRead
<1>6. ASSUME NEW c \in consumers, PopCas(c) PROVE MpTypeOK'
  <2>1. c \in Consumers /\ cres[c] \in Values
    OBVIOUS
  <2>2. popped' \in [Consumers -> Seq(Values)]
    <3>1. CASE rd = crd[c]
      <4>1. popped' = [popped EXCEPT ![c] = Append(@, cres[c])]
        BY <1>6, <3>1 DEF PopCas
      <4>2. QED
        BY <2>1, <4>1, PoppedMore
    <3>2. CASE rd # crd[c]
      BY <1>6, <3>2 DEF PopCas
    <3>3. QED
      BY <3>1, <3>2
  <2>3. rd' \in Nat
    BY <1>6 DEF PopCas
  <2>4. /\ UNCHANGED <<wr, buf, prodVars, crd, cres, program>>
        /\ cpc' = [cpc EXCEPT ![c] = "load"]
    BY <1>6 DEF PopCas
  <2>5. QED
    BY <2>2, <2>3, <2>4
<1>7. ASSUME NEW c \in consumers, PopBump(c) PROVE MpTypeOK'
  BY <1>7 DEF PopBump
<1>8. ASSUME NEW c \in consumers, PopCopy(c) PROVE MpTypeOK'
  <2>1. buf[Cell(crd[c])] \in Values
    BY CellType
  <2>2. popped' \in [Consumers -> Seq(Values)]
    BY <1>8, <2>1, PoppedMore DEF PopCopy
  <2>3. QED
    BY <1>8, <2>2 DEF PopCopy
<1>9. CASE UNCHANGED vars
  BY <1>9 DEF vars
<1>10. QED
  BY <1>1, <1>2, <1>3, <1>4, <1>5, <1>6, <1>7, <1>8, <1>9
  DEF Next, Producer, Consumer, Finished
-----------------------------------------------------------------------------
(* The indices *)

\* An empty ring has room.
LEMMA IndicesInit == Init => Indices
BY NAssumption
DEF Init, Indices, ProducersFit, ConsumersFit, Size, StaticSize

\* A MultiProdRingBuffer has one consumer.
LEMMA OnlyConsumer ==
    ASSUME MpTypeOK, Indices, ~MultiCons, NEW c \in consumers
    PROVE  consumers = {c}
<1>1. IsFiniteSet(consumers) /\ Cardinality(consumers) = 1
  BY MpAssumption, FS_Subset DEF MpTypeOK, Indices, ConsumersFit
<1>2. QED
  BY <1>1, FS_Singleton

\* A swap that succeeds finds the room its producer saw, and a pop an element.
LEMMA IndicesStep == MpTypeOK /\ Indices /\ [Next]_vars => Indices'
<1> SUFFICES ASSUME MpTypeOK, Indices, [Next]_vars PROVE Indices'
  OBVIOUS
<1> USE NAssumption DEF Indices, ProducersFit, ConsumersFit, Size, StaticSize,
                        MpTypeOK, prodVars, consVars, program
<1>1. ASSUME NEW p \in producers, PushLoad(p) PROVE Indices'
  BY <1>1 DEF PushLoad, Full, RdFullVal
<1>2. ASSUME NEW p \in producers, PushStore(p) PROVE Indices'
  BY <1>2 DEF PushStore
<1>3. ASSUME NEW p \in producers, PushCas(p) PROVE Indices'
  <2>1. CASE wr = pwr[p]
    <3>1. wr' = wr + 1 /\ Size(rd, wr) < StaticSize
      BY <1>3, <2>1 DEF PushCas
    <3>2. QED
      BY <1>3, <3>1, <2>1 DEF PushCas
  <2>2. CASE wr # pwr[p]
    BY <1>3, <2>2 DEF PushCas
  <2>3. QED
    BY <2>1, <2>2
<1>4. ASSUME NEW c \in consumers, PopLoad(c) PROVE Indices'
  BY <1>4 DEF PopLoad, Empty
<1>5. ASSUME NEW c \in consumers, PopRead(c) PROVE Indices'
  BY <1>5 DEF PopRead
<1>6. ASSUME NEW c \in consumers, PopCas(c) PROVE Indices'
  BY <1>6 DEF PopCas
<1>7. ASSUME NEW c \in consumers, PopBump(c) PROVE Indices'
  <2>1. consumers = {c} /\ ~MultiCons
    BY <1>7, OnlyConsumer DEF PopBump
  <2>2. QED
    BY <1>7, <2>1 DEF PopBump, Empty
<1>8. ASSUME NEW c \in consumers, PopCopy(c) PROVE Indices'
  BY <1>8 DEF PopCopy
<1>9. CASE UNCHANGED vars
  BY <1>9 DEF vars
<1>10. QED
  BY <1>1, <1>2, <1>3, <1>4, <1>5, <1>6, <1>7, <1>8, <1>9
  DEF Next, Producer, Consumer, Finished
-----------------------------------------------------------------------------
(* What has been written *)

\* Nothing is counted at the start.
LEMMA SlotsInit == Init => SlotsWritten
BY DEF Init, SlotsWritten

\* A swap publishes a slot that was written, and a store never erases one.
LEMMA SlotsStep == MpTypeOK /\ Indices /\ SlotsWritten /\ [Next]_vars => SlotsWritten'
<1> SUFFICES ASSUME MpTypeOK, Indices, SlotsWritten, [Next]_vars PROVE SlotsWritten'
  OBVIOUS
<1> USE DEF SlotsWritten, MpTypeOK, prodVars, consVars, program
<1>1. ASSUME NEW p \in producers, PushLoad(p) PROVE SlotsWritten'
  BY <1>1 DEF PushLoad
<1>2. ASSUME NEW p \in producers, PushStore(p) PROVE SlotsWritten'
  <2>1. \A q \in Producers : Cell(pwr[q]) \in 0 .. N - 1
    BY CellType
  <2>2. \A i \in 0 .. wr - 1 : Cell(i) \in 0 .. N - 1
    <3>1. \A i \in 0 .. wr - 1 : i \in Nat
      OBVIOUS
    <3>2. QED
      BY ONLY <3>1, CellType
  <2>3. Value(p, pushed[p] + 1) # Zero
    BY ValueIsNotZero
  <2> DEFINE v == Value(p, pushed[p] + 1)
  <2>4. buf' = [buf EXCEPT ![Cell(pwr[p])] = v]
    BY <1>2 DEF PushStore
  <2> HIDE DEF v
  <2>5. \A cell \in 0 .. N - 1 : buf'[cell] = buf[cell] \/ buf'[cell] = v
    BY <2>4
  <2>6. \A cell \in 0 .. N - 1 : buf[cell] # Zero => buf'[cell] # Zero
    BY <2>3, <2>5 DEF v
  <2>7. \A i \in 0 .. wr - 1 : buf'[Cell(i)] # Zero
    BY <2>2, <2>6
  <2>8. \A q \in producers : ppc'[q] = "cas" => buf'[Cell(pwr[q])] # Zero
    <3>1. buf'[Cell(pwr[p])] # Zero
      BY <2>1, <2>3, <2>4 DEF v
    <3>2. \A q \in producers : q # p /\ ppc'[q] = "cas" => ppc[q] = "cas"
      BY <1>2 DEF PushStore
    <3>3. QED
      BY <2>1, <2>6, <3>1, <3>2
  <2>9. UNCHANGED <<wr, pwr, producers, consumers, cpc, cres, popped>>
    BY <1>2 DEF PushStore
  <2>10. QED
    BY <2>7, <2>8, <2>9
<1>3. ASSUME NEW p \in producers, PushCas(p) PROVE SlotsWritten'
  <2>1. \A q \in producers : ppc'[q] = "cas" => ppc[q] = "cas"
    BY <1>3 DEF PushCas
  <2>2. \A i \in 0 .. wr' - 1 : buf[Cell(i)] # Zero
    <3>1. CASE wr = pwr[p]
      <4>1. wr' = wr + 1 /\ buf[Cell(wr)] # Zero
        BY <1>3, <3>1 DEF PushCas
      <4>2. QED
        BY <4>1
    <3>2. CASE wr # pwr[p]
      BY <1>3, <3>2 DEF PushCas
    <3>3. QED
      BY <3>1, <3>2
  <2>3. UNCHANGED <<buf, pwr, producers, consumers, cpc, cres, popped>>
    BY <1>3 DEF PushCas
  <2>4. QED
    BY <2>1, <2>2, <2>3
<1>4. ASSUME NEW c \in consumers, PopLoad(c) PROVE SlotsWritten'
  BY <1>4 DEF PopLoad
<1>5. ASSUME NEW c \in consumers, PopRead(c) PROVE SlotsWritten'
  <2>1. crd[c] \in 0 .. wr - 1
    BY <1>5 DEF PopRead, Indices, ConsumersFit
  <2>2. QED
    BY <1>5, <2>1 DEF PopRead
<1>6. ASSUME NEW c \in consumers, PopCas(c) PROVE SlotsWritten'
  <2>1. cres[c] # Zero /\ cres[c] \in Values
    BY <1>6 DEF PopCas
  <2>2. \A d \in consumers : \A i \in DOMAIN popped'[d] : popped'[d][i] # Zero
    <3>1. CASE rd = crd[c]
      <4>1. popped' = [popped EXCEPT ![c] = Append(@, cres[c])]
        BY <1>6, <3>1 DEF PopCas
      <4>2. QED
        BY <2>1, <4>1, NewPops
    <3>2. CASE rd # crd[c]
      BY <1>6, <3>2 DEF PopCas
    <3>3. QED
      BY <3>1, <3>2
  <2>3. QED
    BY <1>6, <2>2 DEF PopCas
<1>7. ASSUME NEW c \in consumers, PopBump(c) PROVE SlotsWritten'
  BY <1>7 DEF PopBump
<1>8. ASSUME NEW c \in consumers, PopCopy(c) PROVE SlotsWritten'
  <2>1. crd[c] \in 0 .. wr - 1
    BY <1>8 DEF PopCopy, Indices, ConsumersFit
  <2>2. buf[Cell(crd[c])] # Zero /\ buf[Cell(crd[c])] \in Values
    BY <2>1, CellType
  <2>3. popped' = [popped EXCEPT ![c] = Append(@, buf[Cell(crd[c])])]
    BY <1>8 DEF PopCopy
  <2>4. \A d \in consumers : \A i \in DOMAIN popped'[d] : popped'[d][i] # Zero
    BY <2>2, <2>3, NewPops
  <2>5. QED
    BY <1>8, <2>4 DEF PopCopy
<1>9. CASE UNCHANGED vars
  BY <1>9 DEF vars
<1>10. QED
  BY <1>1, <1>2, <1>3, <1>4, <1>5, <1>6, <1>7, <1>8, <1>9
  DEF Next, Producer, Consumer, Finished
-----------------------------------------------------------------------------
(* The numbers *)

\* Nobody has pushed or popped at the start.
LEMMA CountedInit == Init => Counted
<1> SUFFICES ASSUME Init PROVE Counted
  OBVIOUS
<1>1. Pops = {} /\ Pushes = {}
  BY DEF Init, Pops, Pushes
<1>2. Taken = 0 /\ wr = 0
  BY DEF Init, Taken
<1>3. \A p \in producers : ppc[p] # "end"
  BY DEF Init
<1>4. QED
  BY <1>1, <1>2, <1>3, FS_EmptySet DEF Counted

\* What counts depends on few variables.
LEMMA CountedUnchanged ==
    ASSUME MpTypeOK, Counted, UNCHANGED <<ppc, pushed, popped, wr, program>>, Taken' = Taken
    PROVE  Counted'
<1>1. Pops' = Pops /\ Pushes' = Pushes /\ Quota' = Quota
  BY DEF Pops, Pushes, Quota, program
<1>2. QED
  BY <1>1 DEF Counted, program

\* A successful swap is one push or pop more, a lost one none.
LEMMA CountedStep ==
    MpTypeOK /\ Indices /\ Counted /\ [Next]_vars => Counted'
<1> SUFFICES ASSUME MpTypeOK, Indices, Counted, [Next]_vars PROVE Counted'
  OBVIOUS
<1> USE DEF prodVars, consVars, program
<1>0. /\ rd \in Nat /\ wr \in Nat /\ pushed \in [Producers -> Nat]
      /\ cpc \in [Consumers -> {"load", "read", "cas"}]
      /\ ppc \in [Producers -> {"load", "store", "cas", "end"}]
      /\ producers \subseteq Producers /\ consumers \subseteq Consumers
  BY DEF MpTypeOK
<1>a. ASSUME UNCHANGED <<rd, cpc, MultiCons, consumers>> PROVE Taken' = Taken
  BY <1>a DEF Taken
<1>1. ASSUME NEW p \in producers, PushLoad(p) PROVE Counted'
  <2>1. Pops' = Pops /\ Pushes' = Pushes /\ Quota' = Quota /\ Taken' = Taken
    BY <1>1, <1>a DEF PushLoad, Pops, Pushes, Quota
  <2>2. \A q \in producers : ppc'[q] = "end" => ppc[q] = "end"
    BY <1>0, <1>1 DEF PushLoad
  <2>3. QED
    BY <1>1, <2>1, <2>2 DEF PushLoad, Counted
<1>2. ASSUME NEW p \in producers, PushStore(p) PROVE Counted'
  <2>1. Pops' = Pops /\ Pushes' = Pushes /\ Quota' = Quota /\ Taken' = Taken
    BY <1>2, <1>a DEF PushStore, Pops, Pushes, Quota
  <2>2. \A q \in producers : ppc'[q] = "end" => ppc[q] = "end"
    BY <1>0, <1>2 DEF PushStore
  <2>3. QED
    BY <1>2, <2>1, <2>2 DEF PushStore, Counted
<1>3. ASSUME NEW p \in producers, PushCas(p) PROVE Counted'
  <2>1. Pops' = Pops /\ Quota' = Quota /\ Taken' = Taken
    BY <1>3, <1>a DEF PushCas, Pops, Quota
  <2>2. CASE wr = pwr[p]
    <3>1. /\ wr' = wr + 1 /\ pushed' = [pushed EXCEPT ![p] = @ + 1]
          /\ ppc' = [ppc EXCEPT ![p] = IF pushed'[p] = Quota THEN "end" ELSE "load"]
          /\ UNCHANGED producers
      BY <1>3, <2>2 DEF PushCas
    <3>2. Pushes' = Pushes \cup {<<p, pushed[p] + 1>>} /\ <<p, pushed[p] + 1>> \notin Pushes
      BY <1>0, <3>1 DEF Pushes
    <3>3. IsFiniteSet(Pushes') /\ Cardinality(Pushes') = wr'
      BY <3>1, <3>2, FS_AddElement DEF Counted
    <3>4. \A q \in producers : ppc'[q] = "end" => pushed'[q] = Quota
      BY <1>0, <3>1 DEF Counted
    <3>5. QED
      BY <2>1, <3>1, <3>3, <3>4 DEF Counted
  <2>3. CASE wr # pwr[p]
    <3>1. UNCHANGED <<wr, pushed, producers>> /\ ppc' = [ppc EXCEPT ![p] = "load"]
      BY <1>3, <2>3 DEF PushCas
    <3>2. Pushes' = Pushes
      BY <3>1 DEF Pushes
    <3>3. QED
      BY <1>0, <2>1, <3>1, <3>2 DEF Counted
  <2>4. QED
    BY <2>2, <2>3
<1>b. ASSUME NEW c \in consumers, NEW v, popped' = [popped EXCEPT ![c] = Append(@, v)],
             v \in Values, Taken' = Taken + 1,
             UNCHANGED <<wr, prodVars, program>>
      PROVE  Counted'
  <2>1. /\ Pops' = Pops \cup {<<c, Len(popped[c]) + 1>>}
        /\ <<c, Len(popped[c]) + 1>> \notin Pops
    BY <1>b, NewPops
  <2>2. Pushes' = Pushes /\ Quota' = Quota
    BY <1>b DEF Pushes, Quota
  <2>3. IsFiniteSet(Pops') /\ Cardinality(Pops') = Taken'
    BY <1>b, <2>1, FS_AddElement DEF Counted
  <2>4. QED
    BY <1>b, <2>2, <2>3 DEF Counted
<1>4. ASSUME NEW c \in consumers, PopLoad(c) PROVE Counted'
  <2>1. Taken' = Taken
    BY <1>4 DEF PopLoad, Taken
  <2>2. QED
    BY <1>4, <2>1, CountedUnchanged DEF PopLoad
<1>5. ASSUME NEW c \in consumers, PopRead(c) PROVE Counted'
  <2>1. Taken' = Taken
    BY <1>5 DEF PopRead, Taken
  <2>2. QED
    BY <1>5, <2>1, CountedUnchanged DEF PopRead
<1>6. ASSUME NEW c \in consumers, PopCas(c) PROVE Counted'
  <2>1. MultiCons /\ MultiCons'
    BY <1>6 DEF PopCas, Indices, ConsumersFit
  <2>2. Taken = rd /\ Taken' = rd'
    BY <2>1 DEF Taken
  <2>3. CASE rd = crd[c]
    <3>1. rd' = rd + 1 /\ popped' = [popped EXCEPT ![c] = Append(@, cres[c])]
      BY <1>6, <2>3 DEF PopCas
    <3>2. cres[c] \in Values
      BY DEF MpTypeOK
    <3>3. QED
      BY <1>6, <1>b, <2>2, <3>1, <3>2 DEF PopCas
  <2>4. CASE rd # crd[c]
    BY <1>6, <2>2, <2>4, CountedUnchanged DEF PopCas
  <2>5. QED
    BY <2>3, <2>4
<1>7. ASSUME NEW c \in consumers, PopBump(c) PROVE Counted'
  <2>1. consumers = {c} /\ ~MultiCons
    BY <1>7, OnlyConsumer DEF PopBump
  <2>2. Taken = rd /\ Taken' = rd' - 1 /\ rd' = rd + 1
    BY <1>0, <1>7, <2>1 DEF PopBump, Taken
  <2>3. QED
    BY <1>0, <1>7, <2>2, CountedUnchanged DEF PopBump
<1>8. ASSUME NEW c \in consumers, PopCopy(c) PROVE Counted'
  <2>1. consumers = {c} /\ ~MultiCons
    BY <1>8, OnlyConsumer DEF PopCopy
  <2>2. Taken = rd - 1 /\ Taken' = rd
    BY <1>0, <1>8, <2>1 DEF PopCopy, Taken
  <2>3. buf[Cell(crd[c])] \in Values
    BY CellType DEF MpTypeOK
  <2>4. QED
    <3>1. Taken' = Taken + 1
      BY <1>0, <2>2
    <3>2. /\ popped' = [popped EXCEPT ![c] = Append(@, buf[Cell(crd[c])])]
          /\ UNCHANGED <<wr, prodVars, program>>
      BY <1>8 DEF PopCopy
    <3>3. QED
      BY <1>b, <2>3, <3>1, <3>2
<1>9. CASE UNCHANGED vars
  BY <1>9, <1>a, CountedUnchanged DEF vars
<1>10. QED
  BY <1>1, <1>2, <1>3, <1>4, <1>5, <1>6, <1>7, <1>8, <1>9
  DEF Next, Producer, Consumer, Finished
-----------------------------------------------------------------------------
(* The values of one producer *)

\* An empty window.
LEMMA OneProducerInit == Init => OneProducer
<1> SUFFICES ASSUME Init, NEW p \in producers PROVE InWindow(p)
  BY DEF OneProducer
<1> USE DEF Init
<1>1. p \in Producers
  OBVIOUS
<1>2. Popped = {} /\ Taken = 0
  BY DEF Popped, PoppedBy, Taken
<1>3. {Value(p, k) : k \in 1 .. Taken} = {}
  BY <1>2
<1>4. QED
  BY <1>1, <1>2, <1>3 DEF InWindow

\* The first k values of a producer, and one more.
LEMMA ValuesUpTo ==
    ASSUME NEW p, NEW k \in Nat
    PROVE  {Value(p, j) : j \in 1 .. k + 1} = {Value(p, j) : j \in 1 .. k} \cup {Value(p, k + 1)}
<1>1. 1 .. k + 1 = (1 .. k) \cup {k + 1}
  OBVIOUS
<1>2. QED
  BY <1>1

\* The only producer's swap never fails, its stores stay outside the window, and
\* a consumer's swap succeeds only with the value at its head.
LEMMA OneProducerStep ==
    MpTypeOK /\ Indices /\ OneProducer /\ [Next]_vars => OneProducer'
<1> SUFFICES ASSUME MpTypeOK, Indices, OneProducer, [Next]_vars,
                    NEW p \in producers', producers' = {p}
             PROVE  InWindow(p)'
  BY DEF OneProducer
<1> USE DEF prodVars, consVars, program
<1>0. /\ UNCHANGED program /\ producers = {p} /\ p \in Producers
      /\ InWindow(p)
  <2>1. UNCHANGED program
    BY DEF Next, Finished, vars, Producer, Consumer, PushLoad, PushStore, PushCas,
           PopLoad, PopRead, PopCas, PopBump, PopCopy
  <2>2. QED
    BY <2>1 DEF OneProducer, MpTypeOK
<1>t. /\ rd \in Nat /\ wr \in Nat /\ N \in Nat /\ rd <= wr /\ wr - rd <= N - 1
      /\ buf \in [0 .. N - 1 -> Values]
      /\ ppc \in [Producers -> {"load", "store", "cas", "end"}]
      /\ pwr \in [Producers -> Nat] /\ pushed \in [Producers -> Nat]
      /\ cpc \in [Consumers -> {"load", "read", "cas"}]
      /\ crd \in [Consumers -> Nat] /\ cres \in [Consumers -> Values]
      /\ consumers \subseteq Consumers
  BY NAssumption DEF MpTypeOK, Indices, Size, StaticSize
<1>p. ASSUME UNCHANGED popped PROVE Popped' = Popped
  BY <1>0, <1>p DEF Popped, PoppedBy
<1>k. ASSUME UNCHANGED <<rd, cpc>> PROVE Taken' = Taken
  BY <1>0, <1>k DEF Taken
<1>1. CASE PushLoad(p)
  BY <1>0, <1>1, <1>p, <1>k, <1>t DEF PushLoad, InWindow
<1>2. CASE PushStore(p)
  <2>1. /\ pwr[p] = wr /\ pushed[p] = wr /\ wr - rd < N - 1
        /\ ppc' = [ppc EXCEPT ![p] = "cas"]
        /\ buf' = [buf EXCEPT ![Cell(wr)] = Value(p, wr + 1)]
        /\ UNCHANGED <<rd, wr, pwr, pushed, consVars>>
    BY <1>0, <1>2, <1>t DEF PushStore, InWindow, Indices, ProducersFit, Size, StaticSize
  <2>2. Cell(wr) \in 0 .. N - 1
    BY <1>t, CellType
  <2>3. ASSUME NEW i \in Nat, i < wr, wr < i + N
        PROVE  buf'[Cell(i)] = buf[Cell(i)]
    <3>1. Cell(i) # Cell(wr) /\ Cell(i) \in 0 .. N - 1
      BY <1>t, <2>3, CellInjective, CellType
    <3>2. QED
      BY <1>t, <2>1, <2>2, <3>1
  <2>4. \A i \in rd .. wr - 1 : buf'[Cell(i)] = Value(p, i + 1)
    BY <1>0, <1>t, <2>1, <2>3 DEF InWindow
  <2>5. buf'[Cell(wr)] = Value(p, wr + 1)
    BY <1>t, <2>1, <2>2
  <2>6. \A c \in consumers : ~MultiCons /\ cpc[c] = "read" => buf'[Cell(crd[c])] = Value(p, rd)
    <3> SUFFICES ASSUME NEW c \in consumers, ~MultiCons, cpc[c] = "read"
                 PROVE  buf'[Cell(crd[c])] = Value(p, rd)
      OBVIOUS
    <3>1. crd[c] \in Nat /\ crd[c] + 1 = rd
      BY <1>t DEF Indices, ConsumersFit
    <3>2. buf'[Cell(crd[c])] = buf[Cell(crd[c])]
      BY <1>t, <2>1, <2>3, <3>1
    <3>3. QED
      BY <1>0, <3>2 DEF InWindow
  <2>7. Popped' = {Value(p, k) : k \in 1 .. Taken'}
    BY <1>0, <1>p, <1>k, <2>1 DEF InWindow
  <2>8. QED
    BY <1>0, <1>t, <2>1, <2>4, <2>5, <2>6, <2>7 DEF InWindow
<1>3. CASE PushCas(p)
  <2>1. wr = pwr[p] /\ buf[Cell(wr)] = Value(p, wr + 1)
    BY <1>0, <1>3 DEF PushCas, InWindow
  <2>2. /\ wr' = wr + 1 /\ pushed'[p] = wr' /\ ppc'[p] \in {"load", "end"}
        /\ UNCHANGED <<rd, buf, pwr, consVars>>
    BY <1>0, <1>3, <1>t, <2>1 DEF PushCas, InWindow
  <2>3. \A i \in rd .. wr' - 1 : buf'[Cell(i)] = Value(p, i + 1)
    BY <1>0, <1>t, <2>1, <2>2 DEF InWindow
  <2>4. Popped' = {Value(p, k) : k \in 1 .. Taken'}
    BY <1>0, <1>p, <1>k, <2>2 DEF InWindow
  <2>5. QED
    BY <1>0, <2>2, <2>3, <2>4 DEF InWindow
<1>4. ASSUME NEW c \in consumers, PopLoad(c) PROVE InWindow(p)'
  <2>1. Taken' = Taken
    BY <1>4, <1>0 DEF PopLoad, Taken
  <2>2. QED
    BY <1>0, <1>4, <1>p, <1>t, <2>1 DEF PopLoad, InWindow
<1>5. ASSUME NEW c \in consumers, PopRead(c) PROVE InWindow(p)'
  <2>1. Taken' = Taken
    BY <1>5, <1>0 DEF PopRead, Taken
  <2>2. crd[c] < wr
    BY <1>5, <1>t DEF PopRead, Indices, ConsumersFit
  <2>3. crd[c] = rd => buf[Cell(crd[c])] = Value(p, rd + 1)
    BY <1>0, <1>t, <2>2 DEF InWindow
  <2>4. QED
    BY <1>0, <1>5, <1>p, <1>t, <2>1, <2>3 DEF PopRead, InWindow
<1>6. ASSUME NEW c \in consumers, PopCas(c) PROVE InWindow(p)'
  <2>1. MultiCons /\ MultiCons' /\ Taken = rd /\ Taken' = rd'
    BY <1>0, <1>6 DEF PopCas, Indices, ConsumersFit, Taken
  <2>2. CASE rd = crd[c]
    <3>1. /\ rd' = rd + 1 /\ popped' = [popped EXCEPT ![c] = Append(@, cres[c])]
          /\ cpc' = [cpc EXCEPT ![c] = "load"]
          /\ UNCHANGED <<wr, buf, prodVars, crd, cres>>
      BY <1>6, <2>2 DEF PopCas
    <3>2. cres[c] = Value(p, rd + 1) /\ cres[c] \in Values
      BY <1>0, <1>6, <1>t, <2>2 DEF PopCas, InWindow
    <3>3. Popped' = Popped \cup {Value(p, rd + 1)}
      BY <1>0, <3>1, <3>2, NewPops
    <3>4. Popped' = {Value(p, k) : k \in 1 .. Taken'}
      BY <1>0, <1>t, <2>1, <3>1, <3>3, ValuesUpTo DEF InWindow
    <3>5. \A d \in consumers : cpc'[d] = "cas" => crd[d] <= rd
      BY <1>t, <2>1, <3>1 DEF Indices, ConsumersFit
    <3>6. QED
      BY <1>0, <1>t, <2>1, <3>1, <3>4, <3>5 DEF InWindow
  <2>3. CASE rd # crd[c]
    BY <1>0, <1>6, <1>p, <1>t, <2>1, <2>3 DEF PopCas, InWindow
  <2>4. QED
    BY <2>2, <2>3
<1>7. ASSUME NEW c \in consumers, PopBump(c) PROVE InWindow(p)'
  <2>1. consumers = {c} /\ ~MultiCons
    BY <1>7, OnlyConsumer DEF PopBump
  <2>2. /\ rd' = rd + 1 /\ rd < wr /\ crd'[c] = rd /\ cpc'[c] = "read"
        /\ UNCHANGED <<wr, buf, prodVars, popped>>
    BY <1>7, <1>t DEF PopBump, Empty
  <2>3. Taken = rd /\ Taken' = rd
    BY <1>0, <1>7, <1>t, <2>1, <2>2 DEF PopBump, Taken
  <2>4. buf[Cell(rd)] = Value(p, rd + 1)
    BY <1>0, <1>t, <2>2 DEF InWindow
  <2>5. QED
    BY <1>0, <1>p, <1>t, <2>1, <2>2, <2>3, <2>4 DEF InWindow
<1>8. ASSUME NEW c \in consumers, PopCopy(c) PROVE InWindow(p)'
  <2>1. consumers = {c} /\ ~MultiCons /\ crd[c] + 1 = rd /\ rd - 1 \in Nat
    BY <1>8, <1>t, OnlyConsumer DEF PopCopy, Indices, ConsumersFit
  <2>2. /\ popped' = [popped EXCEPT ![c] = Append(@, buf[Cell(crd[c])])]
        /\ cpc'[c] = "load"
        /\ UNCHANGED <<rd, wr, buf, prodVars, crd, cres>>
    BY <1>8, <1>t DEF PopCopy
  <2>3. Taken = rd - 1 /\ Taken' = rd
    BY <1>0, <1>8, <1>t, <2>1, <2>2 DEF PopCopy, Taken
  <2>4. buf[Cell(crd[c])] = Value(p, rd) /\ Value(p, rd) \in Values
    BY <1>0, <1>8, <1>t, <2>1, ValueType DEF PopCopy, InWindow
  <2>5. Popped' = Popped \cup {Value(p, rd)}
    BY <1>0, <2>2, <2>4, NewPops
  <2>6. Popped' = {Value(p, k) : k \in 1 .. Taken'}
    <3>1. rd - 1 + 1 = rd
      BY <1>t
    <3>2. QED
      BY <1>0, <2>1, <2>3, <2>5, <3>1, ValuesUpTo DEF InWindow
  <2>7. QED
    BY <1>0, <2>1, <2>2, <2>6 DEF InWindow
<1>9. CASE UNCHANGED vars
  BY <1>0, <1>9, <1>p, <1>k DEF vars, InWindow
<1>10. QED
  BY <1>0, <1>1, <1>2, <1>3, <1>4, <1>5, <1>6, <1>7, <1>8, <1>9
  DEF Next, Producer, Consumer, Finished
-----------------------------------------------------------------------------
(* What the program can rely on *)

\* Types, indices, slots, numbers and, with one producer, values: together they
\* are kept by every step.
THEOREM MpInvariant == SafeSpec => []MpInv
<1>1. Init => MpInv
  BY MpTypeInit, IndicesInit, SlotsInit, CountedInit, OneProducerInit DEF MpInv
<1>2. MpInv /\ [Next]_vars => MpInv'
  BY MpTypeStep, IndicesStep, SlotsStep, CountedStep, OneProducerStep DEF MpInv
<1>3. QED
  BY <1>1, <1>2, PTL DEF SafeSpec

\* The ring never holds more than static_size elements, although each producer
\* asked whether it is full long before its swap.
THEOREM AlwaysNoOverrun == SafeSpec => []NoOverrun
<1>1. MpInv => NoOverrun
  BY DEF MpInv, MpTypeOK, Indices, NoOverrun, Size
<1>2. QED
  BY <1>1, MpInvariant, PTL

\* No pop returns fresh memory, and none is counted as an element.
THEOREM AlwaysNothingUnwritten == SafeSpec => []NothingUnwritten
<1>1. MpInv => NothingUnwritten
  <2> SUFFICES ASSUME MpInv PROVE NothingUnwritten
    OBVIOUS
  <2>1. Zero \notin Popped
    BY DEF MpInv, SlotsWritten, Popped, PoppedBy
  <2>2. \A i \in rd .. wr - 1 : buf[Cell(i)] # Zero
    BY DEF MpInv, MpTypeOK, SlotsWritten
  <2>3. QED
    BY <2>1, <2>2 DEF NothingUnwritten
<1>2. QED
  BY <1>1, MpInvariant, PTL

\* At the end there were as many pops as pushes, whoever lost which race.
THEOREM AlwaysCountPreserved == SafeSpec => []CountPreserved
<1>1. MpInv => CountPreserved
  <2> SUFFICES ASSUME MpInv, Drained PROVE Cardinality(Pops) = Cardinality(producers) * Quota
    BY DEF CountPreserved
  <2> USE DEF MpInv
  <2>1. Cardinality(Pops) = wr
    BY DEF Counted, Taken, Drained, Empty
  <2>2. IsFiniteSet(producers)
    BY MpAssumption, FS_Subset DEF MpTypeOK
  <2>3. \A p \in producers : pushed[p] = Quota /\ Quota \in Nat
    BY DEF Counted, Drained, MpTypeOK
  <2>4. Pushes = producers \X (1 .. Quota)
    BY <2>3 DEF Pushes
  <2>5. Quota \in Nat
    BY <2>3 DEF MpTypeOK
  <2>6. IsFiniteSet(1 .. Quota) /\ Cardinality(1 .. Quota) = Quota
    BY <2>5, FS_Interval
  <2>7. Cardinality(Pushes) = Cardinality(producers) * Quota
    BY <2>2, <2>4, <2>6, FS_Product
  <2>8. QED
    BY <2>1, <2>7 DEF Counted
<1>2. QED
  BY <1>1, MpInvariant, PTL

\* With one producer, however many consumers there are and of either class,
\* what was pushed is what is popped.
THEOREM AlwaysEveryValuePopped == SafeSpec => []EveryValuePopped
<1>1. MpInv => EveryValuePopped
  <2> SUFFICES ASSUME MpInv, Drained, Cardinality(producers) = 1 PROVE Popped = Pushed
    BY DEF EveryValuePopped
  <2> USE DEF MpInv
  <2>1. PICK p : producers = {p}
    BY MpAssumption, FS_Subset, FS_Singleton DEF MpTypeOK
  <2>2. InWindow(p) /\ pushed[p] = Quota
    BY <2>1 DEF OneProducer, Counted, Drained
  <2>3. Taken = wr /\ wr = Quota
    BY <2>2 DEF InWindow, Taken, Drained, Empty
  <2>4. Pushed = {Value(p, k) : k \in 1 .. Quota}
    BY <2>1 DEF Pushed
  <2>5. QED
    BY <2>2, <2>3, <2>4 DEF InWindow
<1>2. QED
  BY <1>1, MpInvariant, PTL
=============================================================================
