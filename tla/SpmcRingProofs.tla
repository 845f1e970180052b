--------------------------- MODULE SpmcRingProofs ----------------------------
(***************************************************************************)
(* MultiConsRingBuffer for every capacity, number of consumers and number  *)
(* of pushes: type correctness whatever the order of the plain stores, and *)
(* the inductive invariant when they become visible in program order.      *)
(***************************************************************************)
EXTENDS SpmcRing, BasicLemmas, SequenceTheorems

-----------------------------------------------------------------------------
(* Cells *)

\* The mask to 2 * N slots and the mirror leave the remainder of a raw index:
\* every index has one of the N cells.
LEMMA CellType == \A i \in Nat : Cell(i) = i % N /\ Cell(i) \in 0 .. N - 1
    BY NAssumption, RemainderOfRemainder, DivMod DEF Cell, PhysicalCell, Masked

\* Any N consecutive raw indices use N different cells, so a ring that never
\* holds more than N elements never overwrites one of them (idx_mask and the
\* mirrored mapping, RingBuffer.h:43-47 and 333-354).
THEOREM CellInjective ==
    ASSUME NEW i \in Nat, NEW j \in Nat, i < j, j < i + N
    PROVE  Cell(i) # Cell(j)
    BY CellType, RemaindersDiffer, NAssumption

-----------------------------------------------------------------------------
(* Types *)

LEMMA TypeInit == Init => TypeOK
BY NAssumption, NumPushAssumption, RoundsAssumption DEF Init, TypeOK, CPc, Stores

LEMMA TypeStep == TypeOK /\ [Next]_vars => TypeOK'
<1> SUFFICES ASSUME TypeOK, [Next]_vars PROVE TypeOK'
  OBVIOUS
<1> USE NAssumption, NumPushAssumption, RoundsAssumption
    DEF TypeOK, CPc, Stores, shared, producer, consumers
<1>1. CASE Emplace
  BY <1>1 DEF Emplace
<1>2. CASE LandSlot
  <2>1. Cell(pwr) \in 0 .. N - 1
    BY CellType
  <2>2. pnext - 1 \in Nat
    OBVIOUS
  <2> QED BY <1>2, <2>1, <2>2 DEF LandSlot
<1>3. CASE LandIdx
  BY <1>3 DEF LandIdx, NewWr
<1>4. CASE Finish
  BY <1>4 DEF Finish
<1>5. CASE LandDone
  BY <1>5 DEF LandDone, MayLand, Earlier
<1>6. ASSUME NEW c \in Consumers, TestDone(c) PROVE TypeOK'
  BY <1>6 DEF TestDone
<1>7. ASSUME NEW c \in Consumers, TestEmpty(c) PROVE TypeOK'
  BY <1>7 DEF TestEmpty
<1>8. ASSUME NEW c \in Consumers, PopLoad(c) PROVE TypeOK'
  <2>1. UNCHANGED <<shared, producer, cres, results, round>>
    BY ONLY <1>8 DEF PopLoad
  <2>2. /\ cpc' = [cpc EXCEPT ![c] = "test"] \/ cpc' = [cpc EXCEPT ![c] = "read"]
        /\ crd' = crd \/ crd' = [crd EXCEPT ![c] = rd]
    BY ONLY <1>8 DEF PopLoad
  <2>3. cpc' \in [Consumers -> CPc]
    BY <2>2
  <2>4. crd' \in [Consumers -> Nat]
    BY <2>2
  <2> QED BY <2>1, <2>3, <2>4
<1>9. ASSUME NEW c \in Consumers, PopRead(c) PROVE TypeOK'
  BY <1>9, CellType DEF PopRead
<1>10. ASSUME NEW c \in Consumers, PopCas(c) PROVE TypeOK'
  <2>1. Append(results[c], cres[c]) \in Seq(Nat)
    BY AppendProperties
  <2>2. results' \in [Consumers -> Seq(Nat)]
    BY <1>10, <2>1 DEF PopCas
  <2>3. cpc' \in [Consumers -> CPc]
    BY <1>10 DEF PopCas
  <2>4. rd' \in Nat
    BY <1>10 DEF PopCas
  <2> QED BY <1>10, <2>2, <2>3, <2>4 DEF PopCas
<1>11. CASE Restart
  <2>1. <<>> \in Seq(Nat)
    OBVIOUS
  <2>2. results' \in [Consumers -> Seq(Nat)] /\ cpc' \in [Consumers -> CPc]
    BY <1>11, <2>1 DEF Restart, Cleared
  <2>3. crd' \in [Consumers -> Nat] /\ cres' \in [Consumers -> Nat]
    BY <1>11 DEF Restart, Cleared
  <2>4. buf' \in [0 .. N - 1 -> Nat] /\ round' \in 1 .. Rounds
    BY <1>11 DEF Restart, Cleared
  <2>5. /\ ppc' \in {"push", "finish", "end"}
        /\ pnext' \in Nat \ {0}
        /\ pend' \subseteq Stores
    BY <1>11 DEF Restart, Cleared
  <2>6. rd' \in Nat /\ wr' \in Nat /\ pwr' \in Nat /\ done' \in BOOLEAN
    BY <1>11 DEF Restart, Cleared
  <2> QED BY <2>2, <2>3, <2>4, <2>5, <2>6
<1>12. CASE Finished
  BY <1>12 DEF Finished, vars
<1>13. CASE UNCHANGED vars
  BY <1>13 DEF vars
<1>14. QED
  BY <1>1, <1>2, <1>3, <1>4, <1>5, <1>6, <1>7, <1>8, <1>9, <1>10, <1>11, <1>12,
     <1>13 DEF Next, Producer, Consumer

\* Type correctness, for both orders of the stores.
THEOREM TypeCorrect == SafeSpec => []TypeOK
<1>1. QED
  BY TypeInit, TypeStep, PTL DEF SafeSpec

-----------------------------------------------------------------------------
(* The inductive invariant *)

LEMMA InvInit == Init => IInv
<1> SUFFICES ASSUME Init PROVE IInv
  OBVIOUS
<1> USE NAssumption, NumPushAssumption
<1>1. TypeOK
  BY TypeInit
<1>2. WindowIntact
  BY DEF Init, WindowIntact, Size, StaticSize
<1>3. PushInFlight
  BY DEF Init, PushInFlight
<1>4. PopInFlight /\ CasValid
  BY DEF Init, PopInFlight, CasValid
<1>5. IsSorted /\ PoppedOnce
  BY DEF Init, IsSorted, PoppedOnce
<1>6. QED
  BY <1>1, <1>2, <1>3, <1>4, <1>5 DEF IInv

LEMMA InvStep == Ordered /\ IInv /\ [Next]_vars => IInv'
<1> SUFFICES ASSUME Ordered, IInv, [Next]_vars PROVE IInv'
  OBVIOUS
<1>t. TypeOK /\ TypeOK'
  BY TypeStep DEF IInv
<1>n. rd \in Nat /\ wr \in Nat /\ pwr \in Nat /\ rd' \in Nat
  BY <1>t DEF TypeOK
<1>f. cpc \in [Consumers -> CPc] /\ crd \in [Consumers -> Nat]
  BY <1>t DEF TypeOK
<1>w. WindowIntact
  BY DEF IInv
<1>p. PopInFlight
  BY DEF IInv
<1>s. IsSorted
  BY DEF IInv
<1> USE NAssumption, NumPushAssumption
<1>1. CASE Emplace
  <2>1. WindowIntact'
    BY <1>1, <1>t DEF Emplace, shared, IInv, WindowIntact
  <2>2. PushInFlight'
    BY <1>1, <1>t DEF Emplace, shared, IInv, WindowIntact, PushInFlight, TypeOK,
                      Full, RdFullVal, Size, StaticSize
  <2>3. PopInFlight' /\ CasValid'
    BY <1>1, <1>t DEF Emplace, shared, consumers, IInv, PopInFlight, CasValid
  <2>4. IsSorted' /\ PoppedOnce'
    BY <1>1, <1>t DEF Emplace, shared, consumers, IInv, IsSorted, PoppedOnce
  <2>5. QED
    BY <2>1, <2>2, <2>3, <2>4, <1>t DEF IInv
<1>2. CASE LandSlot
  <2>1. /\ pwr = wr
        /\ Size(rd, wr) < StaticSize
        /\ pnext - 1 = wr + 1
    BY <1>2, <1>t DEF LandSlot, MayLand, Earlier, IInv, PushInFlight, TypeOK
  <2>2. \A i \in rd .. wr - 1 : Cell(i) # Cell(wr)
    <3> SUFFICES ASSUME NEW i \in rd .. wr - 1 PROVE Cell(i) # Cell(wr)
      OBVIOUS
    <3>1. i \in Nat /\ wr \in Nat /\ i < wr /\ wr < i + N
      BY <2>1, <1>t DEF TypeOK, Size, StaticSize
    <3>2. QED
      BY <3>1, CellInjective
  <2>3. \A i \in Nat : Cell(i) \in 0 .. N - 1
    BY CellType
  <2>4. WindowIntact'
    <3>1. /\ UNCHANGED <<rd, wr>>
          /\ buf' = [buf EXCEPT ![Cell(wr)] = wr + 1]
      BY <1>2, <2>1 DEF LandSlot
    <3>2. ASSUME NEW i \in rd .. wr - 1 PROVE buf'[Cell(i)] = i + 1
      <4>1. Cell(i) \in 0 .. N - 1 /\ Cell(i) # Cell(wr) /\ Cell(wr) \in 0 .. N - 1
        BY <1>n, <2>2, <2>3
      <4>2. buf[Cell(i)] = i + 1
        BY DEF IInv, WindowIntact
      <4>3. QED
        BY <1>t, <3>1, <4>1, <4>2 DEF TypeOK
    <3>3. QED
      BY <3>1, <3>2 DEF IInv, WindowIntact
  <2>5. PushInFlight'
    BY <1>2, <1>t, <2>1, <2>3 DEF LandSlot, IInv, PushInFlight, TypeOK
  <2>6. PopInFlight' /\ CasValid'
    BY <1>2, <1>t DEF LandSlot, MayLand, Earlier, consumers, IInv, PopInFlight, CasValid,
                      PushInFlight, TypeOK
  <2>7. IsSorted' /\ PoppedOnce'
    BY <1>2, <1>t DEF LandSlot, consumers, IInv, IsSorted, PoppedOnce
  <2>8. QED
    BY <2>4, <2>5, <2>6, <2>7, <1>t DEF IInv
<1>3. CASE LandIdx
  <2>1. /\ "idx" \in pend /\ "slot" \notin pend
        /\ wr' = wr + 1
        /\ buf[Cell(wr)] = wr + 1 /\ Size(rd, wr) < StaticSize
    BY <1>3, <1>t DEF LandIdx, MayLand, Earlier, NewWr, IInv, PushInFlight
  <2>2. WindowIntact'
    BY <1>3, <1>t, <2>1 DEF LandIdx, NewWr, IInv, WindowIntact, TypeOK, Size, StaticSize
  <2>3. PushInFlight'
    BY <1>3, <1>t, <2>1 DEF LandIdx, NewWr, IInv, PushInFlight, TypeOK
  <2>4. PopInFlight'
    BY <1>3, <1>t, <2>1 DEF LandIdx, NewWr, consumers, IInv, PopInFlight, PushInFlight,
                            TypeOK
  <2>5. CasValid'
    BY <1>3, <1>t, <2>1 DEF LandIdx, NewWr, consumers, IInv, CasValid, TypeOK
  <2>6. IsSorted' /\ PoppedOnce'
    BY <1>3, <1>t DEF LandIdx, NewWr, consumers, IInv, IsSorted, PoppedOnce
  <2>7. QED
    BY <2>2, <2>3, <2>4, <2>5, <2>6, <1>t DEF IInv
<1>4. CASE Finish
  <2>1. WindowIntact'
    BY <1>4, <1>t DEF Finish, shared, IInv, WindowIntact
  <2>2. PushInFlight'
    BY <1>4, <1>t DEF Finish, shared, IInv, PushInFlight, TypeOK
  <2>3. PopInFlight' /\ CasValid' /\ IsSorted' /\ PoppedOnce'
    BY <1>4, <1>t DEF Finish, shared, consumers, IInv, PopInFlight, CasValid,
                      IsSorted, PoppedOnce
  <2>4. QED
    BY <2>1, <2>2, <2>3, <1>t DEF IInv
<1>5. CASE LandDone
  <2>1. WindowIntact'
    BY <1>5, <1>t DEF LandDone, IInv, WindowIntact
  <2>2. PushInFlight'
    <3>1. pend = {"done"}
      BY <1>5, <1>t DEF LandDone, MayLand, Earlier, TypeOK, Stores
    <3>2. QED
      BY <1>5, <1>t, <3>1 DEF LandDone, IInv, PushInFlight, TypeOK
  <2>3. PopInFlight' /\ CasValid' /\ IsSorted' /\ PoppedOnce'
    BY <1>5, <1>t DEF LandDone, consumers, IInv, PopInFlight, CasValid,
                      IsSorted, PoppedOnce
  <2>4. QED
    BY <2>1, <2>2, <2>3, <1>t DEF IInv
<1>6. ASSUME NEW c \in Consumers, TestDone(c) \/ TestEmpty(c) \/ PopLoad(c)
      PROVE  IInv'
  <2>1. UNCHANGED <<rd, wr, buf, done, producer, cres, results>>
    BY <1>6 DEF TestDone, TestEmpty, PopLoad, shared
  <2>2. WindowIntact' /\ PushInFlight'
    BY <2>1, <1>t DEF IInv, WindowIntact, PushInFlight, producer
  <2>3. PopInFlight'
    <3>1. CASE TestDone(c)
      BY <3>1, <1>t, <2>1 DEF TestDone, IInv, PopInFlight, TypeOK
    <3>2. CASE TestEmpty(c)
      BY <3>2, <1>t, <2>1 DEF TestEmpty, IInv, PopInFlight, TypeOK, Empty
    <3>3. CASE PopLoad(c)
      <4>1. rd <= wr /\ (~Empty(rd, wr) => rd < wr)
        BY <1>n DEF IInv, WindowIntact, Empty
      <4>2. QED
        BY ONLY <1>6, <3>3, <1>f, <1>n, <1>p, <2>1, <4>1 DEF PopLoad, PopInFlight, producer
    <3>4. QED
      BY <1>6, <3>1, <3>2, <3>3
  <2>4. CasValid'
    BY <1>6, <1>t, <2>1 DEF TestDone, TestEmpty, PopLoad, IInv, CasValid, TypeOK
  <2>5. IsSorted' /\ PoppedOnce'
    BY <2>1 DEF IInv, IsSorted, PoppedOnce
  <2>6. QED
    BY <2>2, <2>3, <2>4, <2>5, <1>t DEF IInv
<1>7. ASSUME NEW c \in Consumers, PopRead(c) PROVE IInv'
  <2>1. UNCHANGED <<rd, wr, buf, done, producer, crd, results>>
    BY <1>7 DEF PopRead, shared
  <2>2. WindowIntact' /\ PushInFlight'
    BY <2>1, <1>t DEF IInv, WindowIntact, PushInFlight, producer
  <2>3. PopInFlight'
    BY <1>7, <1>t, <2>1 DEF PopRead, IInv, PopInFlight, TypeOK
  <2>4. crd[c] = rd => rd < wr /\ buf[Cell(rd)] = rd + 1
    BY <1>7, <1>t DEF PopRead, IInv, PopInFlight, WindowIntact, TypeOK
  <2>5. CasValid'
    BY <1>7, <1>t, <2>1, <2>4 DEF PopRead, IInv, CasValid, TypeOK
  <2>6. IsSorted' /\ PoppedOnce'
    BY <2>1 DEF IInv, IsSorted, PoppedOnce
  <2>7. QED
    BY <2>2, <2>3, <2>5, <2>6, <1>t DEF IInv
<1>8. ASSUME NEW c \in Consumers, PopCas(c), rd # crd[c] PROVE IInv'
  <2>1. UNCHANGED <<rd, wr, buf, done, producer, crd, cres, results>>
    BY <1>8 DEF PopCas
  <2>2. WindowIntact' /\ PushInFlight'
    BY <2>1, <1>t DEF IInv, WindowIntact, PushInFlight, producer
  <2>3. PopInFlight' /\ CasValid'
    BY <1>8, <1>t, <2>1 DEF PopCas, IInv, PopInFlight, CasValid, TypeOK
  <2>4. IsSorted' /\ PoppedOnce'
    BY <2>1 DEF IInv, IsSorted, PoppedOnce
  <2>5. QED
    BY <2>2, <2>3, <2>4, <1>t DEF IInv
<1>9. ASSUME NEW c \in Consumers, PopCas(c), rd = crd[c] PROVE IInv'
  <2>1. /\ rd' = rd + 1
        /\ results' = [results EXCEPT ![c] = Append(@, cres[c])]
        /\ cpc' = [cpc EXCEPT ![c] = "test"]
        /\ UNCHANGED <<wr, buf, done, producer, crd, cres>>
    BY <1>9 DEF PopCas
  <2>2. rd < wr /\ cres[c] = rd + 1
    BY <1>9, <1>t DEF PopCas, IInv, CasValid
  <2>3. WindowIntact'
    BY ONLY <1>n, <1>w, <2>1, <2>2, NAssumption DEF WindowIntact, Size, StaticSize
  <2>4. PushInFlight'
    BY <1>t, <2>1 DEF IInv, PushInFlight, TypeOK, Size, StaticSize, producer
  <2>5. PopInFlight'
    BY ONLY <1>9, <1>f, <1>n, <1>p, <2>1, <2>2 DEF PopInFlight
  <2>6. CasValid'
    BY <1>t, <2>1, <2>2, <1>9 DEF PopCas, IInv, CasValid, PopInFlight, TypeOK
  <2>7. /\ results'[c] = Append(results[c], rd + 1)
        /\ \A d \in Consumers \ {c} : results'[d] = results[d]
    BY <1>t, <2>1, <2>2 DEF TypeOK
  <2>8. /\ Len(results[c]) \in Nat
        /\ DOMAIN results[c] = 1 .. Len(results[c])
        /\ DOMAIN results'[c] = 1 .. Len(results[c]) + 1
        /\ \A i \in 1 .. Len(results[c]) : results'[c][i] = results[c][i]
        /\ results'[c][Len(results[c]) + 1] = rd + 1
    <3>1. results[c] \in Seq(Nat) /\ rd + 1 \in Nat
      BY <1>t DEF TypeOK
    <3>2. QED
      BY <3>1, <2>7, AppendProperties, LenProperties
  <2>9. \A d \in Consumers : \A i \in DOMAIN results[d] : results[d][i] \in 1 .. rd
    BY DEF IInv, PoppedOnce
  <2>10. IsSorted'
    <3> SUFFICES ASSUME NEW d \in Consumers, NEW i \in DOMAIN results'[d],
                        NEW j \in DOMAIN results'[d], i < j
                 PROVE  results'[d][i] < results'[d][j]
      BY DEF IsSorted
    <3>1. CASE d # c
      BY <3>1, <2>7 DEF IInv, IsSorted
    <3>2. CASE d = c /\ j # Len(results[c]) + 1
      <4>1. i \in 1 .. Len(results[c]) /\ j \in 1 .. Len(results[c]) /\ i < j
        BY <3>2, <2>8
      <4>2. results[c][i] < results[c][j]
        BY ONLY <1>s, <1>9, <2>8, <4>1 DEF IsSorted
      <4> QED BY ONLY <2>8, <3>2, <4>1, <4>2
    <3>3. CASE d = c /\ j = Len(results[c]) + 1
      <4>1. i \in DOMAIN results[c]
        BY <3>3, <2>8
      <4>2. QED
        <5>1. results'[d][i] = results[c][i] /\ results[c][i] \in 1 .. rd
          BY <3>3, <4>1, <2>8, <2>9
        <5>2. QED
          BY <5>1, <3>3, <2>8, <1>n
    <3>4. QED
      BY <3>1, <3>2, <3>3
  <2>11. PoppedOnce'
    <3>1. ASSUME NEW v \in 1 .. rd + 1
          PROVE  \E d \in Consumers : \E i \in DOMAIN results'[d] : results'[d][i] = v
      <4>1. CASE v = rd + 1
        BY <4>1, <2>8
      <4>2. CASE v \in 1 .. rd
        <5>1. PICK d \in Consumers : \E i \in DOMAIN results[d] : results[d][i] = v
          BY <4>2 DEF IInv, PoppedOnce
        <5>2. PICK i \in DOMAIN results[d] : results[d][i] = v
          BY <5>1
        <5>3. i \in DOMAIN results'[d] /\ results'[d][i] = v
          <6>1. CASE d = c
            BY ONLY <6>1, <5>2, <2>8
          <6>2. CASE d # c
            BY ONLY <6>2, <5>1, <5>2, <2>7
          <6> QED BY <6>1, <6>2
        <5>4. QED
          BY <5>3
      <4>3. QED
        BY <4>1, <4>2, <1>t DEF TypeOK
    <3>2. ASSUME NEW d \in Consumers, NEW i \in DOMAIN results'[d]
          PROVE  results'[d][i] \in 1 .. rd + 1
      <4>1. CASE d # c
        <5>1. results'[d] = results[d] /\ results[d][i] \in 1 .. rd
          BY <4>1, <2>7, <2>9
        <5>2. QED
          BY <5>1, <1>n
      <4>2. CASE d = c
        <5>1. CASE i = Len(results[c]) + 1
          BY <5>1, <4>2, <2>8, <1>n
        <5>2. CASE i \in 1 .. Len(results[c])
          <6>1. results'[d][i] = results[c][i]
            BY ONLY <5>2, <4>2, <2>8
          <6>2. results[c][i] \in 1 .. rd
            BY ONLY <1>9, <5>2, <2>8, <2>9
          <6> QED BY ONLY <6>1, <6>2, <1>n
        <5>3. QED
          BY <5>1, <5>2, <4>2, <2>8
      <4>3. QED
        BY <4>1, <4>2
    <3>3. ASSUME NEW d \in Consumers, NEW e \in Consumers,
                 NEW i \in DOMAIN results'[d], NEW j \in DOMAIN results'[e],
                 results'[d][i] = results'[e][j]
          PROVE  d = e /\ i = j
      <4> DEFINE New(f, k) == f = c /\ k = Len(results[c]) + 1
      <4>1. ASSUME NEW f \in Consumers, NEW k \in DOMAIN results'[f]
            PROVE  /\ New(f, k) => results'[f][k] = rd + 1
                   /\ ~New(f, k) => /\ k \in DOMAIN results[f]
                                    /\ results'[f][k] = results[f][k]
                                    /\ results'[f][k] \in 1 .. rd
        <5>1. CASE f # c
          BY <5>1, <2>7, <2>9
        <5>2. CASE f = c
          BY <5>2, <2>8, <2>9
        <5>3. QED
          BY <5>1, <5>2
      <4>2. CASE New(d, i) /\ New(e, j)
        BY <4>2
      <4>3. CASE ~New(d, i) /\ ~New(e, j)
        <5>1. /\ i \in DOMAIN results[d] /\ j \in DOMAIN results[e]
              /\ results[d][i] = results[e][j]
          BY <4>3, <4>1, <3>3
        <5>2. QED
          BY <5>1 DEF IInv, PoppedOnce
      <4>4. CASE New(d, i) /\ ~New(e, j)
        BY <4>4, <4>1, <3>3, <1>n
      <4>5. CASE ~New(d, i) /\ New(e, j)
        BY <4>5, <4>1, <3>3, <1>n
      <4>6. QED
        BY <4>2, <4>3, <4>4, <4>5
    <3>4. QED
      BY <3>1, <3>2, <3>3, <2>1 DEF PoppedOnce
  <2>12. QED
    BY <2>3, <2>4, <2>5, <2>6, <2>10, <2>11, <1>t DEF IInv
<1>10. CASE Restart
  <2>1. WindowIntact' /\ PushInFlight'
    BY <1>10 DEF Restart, Cleared, WindowIntact, PushInFlight, Size, StaticSize
  <2>2. PopInFlight' /\ CasValid'
    BY <1>10 DEF Restart, Cleared, PopInFlight, CasValid
  <2>3. IsSorted' /\ PoppedOnce'
    BY <1>10 DEF Restart, Cleared, IsSorted, PoppedOnce
  <2>4. QED
    BY <2>1, <2>2, <2>3, <1>t DEF IInv
<1>11. CASE Finished \/ UNCHANGED vars
  <2>1. UNCHANGED vars
    BY <1>11 DEF Finished
  <2>2. QED
    BY <2>1, <1>t DEF vars, shared, producer, consumers, IInv, WindowIntact,
       PushInFlight, PopInFlight, CasValid, IsSorted, PoppedOnce
<1>12. QED
  BY <1>1, <1>2, <1>3, <1>4, <1>5, <1>6, <1>7, <1>8, <1>9, <1>10, <1>11
  DEF Next, Producer, Consumer

THEOREM InductiveInvariant == Ordered => (SafeSpec => []IInv)
<1> SUFFICES ASSUME Ordered PROVE SafeSpec => []IInv
  OBVIOUS
<1>1. Init => IInv
  BY InvInit
<1>2. IInv /\ [Next]_vars => IInv'
  BY InvStep
<1>3. QED
  BY <1>1, <1>2, PTL DEF SafeSpec

\* The window between rd and wr always holds what was pushed, for every
\* capacity: masking, mirror and full test together never lose an element.
THEOREM WindowAlwaysIntact == Ordered => (SafeSpec => []WindowIntact)
BY InductiveInvariant, PTL DEF IInv

\* A successful compare-and-swap always follows a copy of the right element.
THEOREM CasAlwaysValid == Ordered => (SafeSpec => []CasValid)
BY InductiveInvariant, PTL DEF IInv

\* The store buffer and every pop in progress agree with the indices.
THEOREM AlwaysInFlight == Ordered => (SafeSpec => []InFlight)
BY InductiveInvariant, PTL DEF IInv, InFlight

\* Every consumer pops in the order of the pushes (RingBufferTest.cpp:184).
THEOREM AlwaysSorted == Ordered => (SafeSpec => []IsSorted)
BY InductiveInvariant, PTL DEF IInv

\* What was popped is 1 .. rd, each value once, at every moment.
THEOREM AlwaysPoppedOnce == Ordered => (SafeSpec => []PoppedOnce)
BY InductiveInvariant, PTL DEF IInv

\* After the joins the results are complete (RingBufferTest.cpp:187-188).
THEOREM AlwaysAllPopped == Ordered => (SafeSpec => []AllPopped)
<1> SUFFICES ASSUME Ordered PROVE SafeSpec => []AllPopped
  OBVIOUS
<1>1. IInv => AllPopped
  <2> SUFFICES ASSUME IInv, Joined PROVE rd = NumPush /\ wr = NumPush /\ PoppedOnce
    BY DEF AllPopped
  <2>1. PICK c \in Consumers : cpc[c] = "exit"
    BY ConsumersAssumption DEF Joined
  <2>2. rd = wr
    BY <2>1 DEF IInv, PopInFlight
  <2>3. wr = NumPush
    BY NumPushAssumption DEF IInv, PushInFlight, TypeOK, Joined
  <2>4. QED
    BY <2>2, <2>3 DEF IInv
<1>2. QED
  BY <1>1, InductiveInvariant, PTL

-----------------------------------------------------------------------------
(* The ring implements the FIFO queue *)

\* The elements rd + 1, .. wr, which is what the invariant says is in the ring.
Run(r, w) == [k \in 1 .. w - r |-> r + k]

LEMMA RunIsSeq ==
    ASSUME NEW r \in Nat, NEW w \in Nat, r <= w
    PROVE  /\ Run(r, w) \in Seq(Nat)
           /\ Len(Run(r, w)) = w - r
<1>1. Run(r, w) \in [1 .. w - r -> Nat] /\ w - r \in Nat
  BY DEF Run
<1>2. Run(r, w) \in Seq(Nat)
  BY <1>1, SeqDef
<1>3. Len(Run(r, w)) \in Nat /\ DOMAIN Run(r, w) = 1 .. Len(Run(r, w))
  BY <1>2, LenProperties
<1>4. 1 .. w - r = 1 .. Len(Run(r, w))
  BY <1>1, <1>3
<1>5. QED
  BY <1>1, <1>2, <1>3, <1>4

LEMMA RunAppend ==
    ASSUME NEW r \in Nat, NEW w \in Nat, r <= w
    PROVE  Run(r, w + 1) = Append(Run(r, w), w + 1)
<1>1. Run(r, w) \in Seq(Nat) /\ Len(Run(r, w)) = w - r
  BY RunIsSeq
<1>2. Run(r, w + 1) \in Seq(Nat) /\ Len(Run(r, w + 1)) = w + 1 - r
  BY RunIsSeq
<1>3. /\ Append(Run(r, w), w + 1) \in Seq(Nat)
      /\ Len(Append(Run(r, w), w + 1)) = w + 1 - r
  BY <1>1, AppendProperties
<1>4. ASSUME NEW k \in 1 .. w + 1 - r
      PROVE  Run(r, w + 1)[k] = Append(Run(r, w), w + 1)[k]
  <2>1. CASE k = w + 1 - r
    BY <2>1, <1>1, AppendProperties DEF Run
  <2>2. CASE k \in 1 .. w - r
    BY <2>2, <1>1, AppendProperties DEF Run
  <2>3. k = w + 1 - r \/ k \in 1 .. w - r
    OBVIOUS
  <2>4. QED
    BY <2>1, <2>2, <2>3
<1>5. QED
  BY <1>2, <1>3, <1>4, SeqEqual

LEMMA RunHeadTail ==
    ASSUME NEW r \in Nat, NEW w \in Nat, r < w
    PROVE  /\ Run(r, w) # <<>>
           /\ Head(Run(r, w)) = r + 1
           /\ Tail(Run(r, w)) = Run(r + 1, w)
<1>1. Run(r, w) \in Seq(Nat) /\ Len(Run(r, w)) = w - r
  BY RunIsSeq
<1>2. Run(r + 1, w) \in Seq(Nat) /\ Len(Run(r + 1, w)) = w - r - 1
  BY RunIsSeq
<1>3. Run(r, w) # <<>>
  BY <1>1, EmptySeq
<1>4. Head(Run(r, w)) = r + 1
  BY <1>1, <1>3 DEF Run
<1>5. /\ Tail(Run(r, w)) \in Seq(Nat)
      /\ Len(Tail(Run(r, w))) = w - r - 1
      /\ \A k \in 1 .. w - r - 1 : Tail(Run(r, w))[k] = Run(r, w)[k + 1]
  BY <1>1, <1>3, HeadTailProperties
<1>6. \A k \in 1 .. w - r - 1 : Tail(Run(r, w))[k] = Run(r + 1, w)[k]
  BY <1>5 DEF Run
<1>7. Tail(Run(r, w)) = Run(r + 1, w)
  BY <1>2, <1>5, <1>6, SeqEqual
<1>8. QED
  BY <1>3, <1>4, <1>7

LEMMA CellsHoldRun ==
    ASSUME NEW r \in Nat, NEW w \in Nat, NEW f,
           \A i \in r .. w - 1 : f[Cell(i)] = i + 1
    PROVE  [k \in 1 .. w - r |-> f[Cell(r + k - 1)]] = Run(r, w)
<1>1. ASSUME NEW k \in 1 .. w - r PROVE f[Cell(r + k - 1)] = r + k
  <2>1. r + k - 1 \in r .. w - 1 /\ (r + k - 1) + 1 = r + k
    OBVIOUS
  <2>2. QED
    BY <2>1
<1>2. QED
  BY <1>1 DEF Run

LEMMA ContentsIsRun == IInv => Contents = Run(rd, wr)
BY CellsHoldRun DEF IInv, WindowIntact, TypeOK, Contents, Size

LEMMA QueueInit == Init => Queue!Init
<1> SUFFICES ASSUME Init PROVE Queue!Init
  OBVIOUS
<1>1. Contents = Run(0, 0)
  BY InvInit, ContentsIsRun DEF Init
<1>2. Run(0, 0) = <<>>
  BY RunIsSeq, EmptySeq
<1>3. QED
  BY <1>1, <1>2 DEF Init, Queue!Init

LEMMA QueueStep == Ordered /\ IInv /\ [Next]_vars => [Queue!Next]_Queue!vars
<1> SUFFICES ASSUME Ordered, IInv, [Next]_vars
             PROVE  Queue!Next \/ UNCHANGED Queue!vars
  OBVIOUS
<1>t. TypeOK /\ IInv'
  BY InvStep DEF IInv
<1>n. rd \in Nat /\ wr \in Nat /\ rd <= wr
  BY <1>t DEF TypeOK, IInv, WindowIntact
<1>r. Contents = Run(rd, wr) /\ Contents' = Run(rd', wr')
  <2>1. Contents = Run(rd, wr)
    BY ContentsIsRun
  <2>2. Contents' = Run(rd', wr')
    <3>1. rd' \in Nat /\ wr' \in Nat
      BY <1>t DEF IInv, TypeOK
    <3>2. \A i \in rd' .. wr' - 1 : buf'[Cell(i)] = i + 1
      BY <1>t DEF IInv, WindowIntact
    <3>3. QED
      BY <3>1, <3>2, CellsHoldRun DEF Contents, Size
  <2>3. QED
    BY <2>1, <2>2
<1>l. Len(Contents) = wr - rd
  BY <1>n, <1>r, RunIsSeq
<1>u. UNCHANGED <<rd, wr, done, results, round>> => UNCHANGED Queue!vars
  BY <1>r DEF Queue!vars
<1>1. CASE Emplace \/ LandSlot \/ Finish \/ Finished \/ UNCHANGED vars
  BY <1>1, <1>u DEF Emplace, LandSlot, Finish, Finished, vars, shared, consumers
<1>2. CASE LandIdx
  <2>1. wr' = wr + 1 /\ UNCHANGED <<rd, done, results, round>>
    BY <1>2 DEF LandIdx, MayLand, Earlier, NewWr, IInv, PushInFlight, consumers
  <2>2. wr < NumPush /\ Len(Contents) < StaticSize
    BY <1>2, <1>l, NumPushAssumption
    DEF LandIdx, MayLand, Earlier, NewWr, IInv, PushInFlight, TypeOK, Size
  <2>3. Contents' = Append(Contents, wr + 1)
    BY <2>1, <1>r, <1>n, RunAppend
  <2>4. QED
    BY <2>1, <2>2, <2>3 DEF Queue!Next, Queue!Push
<1>3. CASE LandDone
  <2>1. UNCHANGED <<rd, wr, results, round>> /\ done'
    BY <1>3 DEF LandDone, consumers
  <2>2. wr = NumPush /\ ~done
    BY <1>3, NumPushAssumption DEF LandDone, MayLand, Earlier, IInv, PushInFlight, TypeOK
  <2>3. QED
    BY <2>1, <2>2, <1>r DEF Queue!Next, Queue!Close
<1>4. ASSUME NEW c \in Consumers, TestDone(c) \/ TestEmpty(c) \/ PopLoad(c) \/ PopRead(c)
      PROVE  Queue!Next \/ UNCHANGED Queue!vars
  BY <1>4, <1>u DEF TestDone, TestEmpty, PopLoad, PopRead, shared
<1>5. ASSUME NEW c \in Consumers, PopCas(c)
      PROVE  Queue!Next \/ UNCHANGED Queue!vars
  <2>1. CASE rd # crd[c]
    BY <1>5, <2>1, <1>u DEF PopCas
  <2>2. CASE rd = crd[c]
    <3>1. /\ rd' = rd + 1
          /\ results' = [results EXCEPT ![c] = Append(@, cres[c])]
          /\ UNCHANGED <<wr, done, round>>
      BY <1>5, <2>2 DEF PopCas
    <3>2. rd < wr /\ cres[c] = rd + 1
      BY <1>5, <2>2 DEF PopCas, IInv, CasValid
    <3>3. Contents # <<>> /\ Head(Contents) = cres[c] /\ Contents' = Tail(Contents)
      BY <3>1, <3>2, <1>n, <1>r, RunHeadTail
    <3>4. QED
      BY <3>1, <3>3 DEF Queue!Next, Queue!Take
  <2>3. QED
    BY <2>1, <2>2
<1>6. CASE Restart
  <2>1. done /\ rd = wr
    BY <1>6, ConsumersAssumption DEF Restart, Cleared, Joined, IInv, PopInFlight
  <2>2. Contents = <<>> /\ Contents' = <<>>
    <3>1. Run(wr, wr) = <<>> /\ Run(0, 0) = <<>>
      BY <1>n, RunIsSeq, EmptySeq
    <3>2. QED
      BY <3>1, <2>1, <1>6, <1>r DEF Restart, Cleared
  <2>3. QED
    BY <1>6, <2>1, <2>2 DEF Restart, Cleared, Queue!Next, Queue!Reuse
<1>7. QED
  BY <1>1, <1>2, <1>3, <1>4, <1>5, <1>6 DEF Next, Producer, Consumer

\* Every behaviour of the ring, seen through Contents, is a behaviour of the
\* bounded FIFO queue (the safety part of ImplementsQueue).
THEOREM RingImplementsQueue == Ordered => (SafeSpec => Queue!SafeSpec)
<1> SUFFICES ASSUME Ordered PROVE SafeSpec => Queue!SafeSpec
  OBVIOUS
<1>1. Init => Queue!Init
  BY QueueInit
<1>2. IInv /\ [Next]_vars => [Queue!Next]_Queue!vars
  BY QueueStep
<1>3. QED
  BY <1>1, <1>2, InductiveInvariant, PTL DEF SafeSpec, Queue!SafeSpec
=============================================================================
