-------------------------- MODULE RingObjectProofs ---------------------------
(***************************************************************************)
(* A RingBuffer object from constructor to destructor, for every capacity, *)
(* number of tries, pushes and rounds: the memory is mapped when the ring  *)
(* is used and gone when the object is, values come out in order, and the  *)
(* spare cell protects the pop under way.                                  *)
(***************************************************************************)
EXTENDS RingObject, BasicLemmas, SequenceTheorems

-----------------------------------------------------------------------------
(* Cells *)

\* The mask to 2 * N slots and the mirror leave the remainder of a raw index:
\* every index has one of the N cells.
LEMMA CellType == \A i \in Nat : Cell(i) = i % N /\ Cell(i) \in 0 .. N - 1
    BY NAssumption, RemainderOfRemainder, DivMod DEF Cell, PhysicalCell, Masked

\* Any N consecutive raw indices use N different cells, so a ring that never
\* holds more than N elements never overwrites one of them (idx_mask and the
\* mirrored mapping, RingBuffer.h:43-47 and 333-354).
LEMMA CellInjective ==
    ASSUME NEW i \in Nat, NEW j \in Nat, i < j, j < i + N
    PROVE  Cell(i) # Cell(j)
    BY CellType, RemaindersDiffer, NAssumption

\* Two raw indices less than N apart, in whichever order, have different cells.
LEMMA CellsDiffer ==
    ASSUME NEW i \in Nat, NEW j \in Nat, i # j, i < j + N, j < i + N
    PROVE  Cell(i) # Cell(j)
<1>1. CASE i < j
    BY <1>1, CellInjective
<1>2. CASE j < i
    BY <1>2, CellInjective
<1> QED BY <1>1, <1>2

-----------------------------------------------------------------------------
(* The memory *)

LinuxSteps == {"memfd", "ftruncate", "map", "mirror", "close"}
AppleSteps == {"map both", "cut", "remap"}
Steps == LinuxSteps \cup AppleSteps
           \cup {"check", "ready", "gone", "aborted", "crashed"}

MapTypeOK ==
    /\ step \in Steps
    /\ tryNum \in Nat
    /\ m_memfd \in Int
    /\ {m_buf, m_buf_mirror} \subseteq {"null", "mapped", "failed"}
    /\ apple \in BOOLEAN /\ NDebug \in BOOLEAN /\ fd0Free \in BOOLEAN

\* The steps of the other system are never reached.
OwnSystem == step \notin IF apple THEN LinuxSteps ELSE AppleSteps

\* The file of the current try is the only one open, but for descriptor 0, and
\* the calls behind memfd_create have it.
FileOfTry ==
    /\ fds \subseteq {0, m_memfd}
    /\ apple => fds = {}
    /\ step \in {"memfd", "gone"} => fds \subseteq {0}
    /\ step \in {"ftruncate", "map", "mirror"} => m_memfd \in fds

ThisBuf == <<"buf", tryNum>>
ThisMirror == <<"mirror", tryNum>>

NoObject == m_buf = "null" /\ m_buf_mirror = "null"

\* Buffer and mirror of the current try, on Linux with its file.
WholeObject ==
    /\ {ThisBuf, ThisMirror} \subseteq maps
    /\ m_memfd \in fds \/ apple
    /\ m_buf = "mapped" /\ m_buf_mirror = "mapped"

\* What the calls of the current try have made so far.
ObjectOfTry ==
    /\ step \in {"memfd", "ftruncate", "map", "map both"} => NoObject
    /\ step \in {"mirror", "remap"} =>
           /\ ThisBuf \in maps
           /\ m_buf = "mapped" /\ m_buf_mirror = "mapped"
    /\ step = "cut" => \/ m_buf = "failed" /\ m_buf_mirror = "failed"
                       \/ /\ ThisBuf \in maps
                          /\ m_buf = "mapped" /\ m_buf_mirror = "mapped"
    /\ step = "check" => NoObject \/ WholeObject
    /\ step = "ready" => (NDebug /\ NoObject) \/ WholeObject

\* With assertions no try leaves a mapping behind.
NoMapsLeft ==
    ~NDebug =>
        /\ maps \subseteq {ThisBuf, ThisMirror}
        /\ step \in {"memfd", "ftruncate", "map", "map both", "close", "gone"} => maps = {}
        /\ step = "cut" /\ m_buf = "failed" => maps = {}
        /\ step \in {"mirror", "remap"} => maps = {ThisBuf}
        /\ step = "check" /\ NoObject => maps = {}

MapInv == MapTypeOK /\ OwnSystem /\ FileOfTry /\ ObjectOfTry /\ NoMapsLeft

-----------------------------------------------------------------------------
(* The ring *)

RingTypeOK ==
    /\ rd \in Nat /\ wr \in Nat /\ done \in BOOLEAN
    /\ buf \in [0 .. N - 1 -> Nat]
    /\ ppc \in {"idle", "construct", "copied"}
    /\ pwr \in Nat /\ pcnt \in Nat /\ pushed \in Nat
    /\ cpc \in {"idle", "copy"} /\ crd \in Nat
    /\ popped \in Seq(Nat)
    /\ strayed \in BOOLEAN /\ round \in Nat /\ threads \in {1, 2}

\* Where the producer is writing, next to wr, and that it has room for it.
PushFits ==
    /\ rd <= wr /\ Size(rd, wr) <= StaticSize
    /\ ppc = "construct" => pwr + 1 = wr
    /\ ppc = "copied" => pwr = wr /\ pcnt <= Remaining(rd, wr)

\* The slot being copied is the one right before rd.
PopFits == cpc = "copy" => rd = crd + 1

\* How many elements there are in memory, and how many have been taken out.
Written == CASE ppc = "construct" -> wr - 1
             [] ppc = "copied" -> wr + pcnt
             [] OTHER -> wr
Taken == IF cpc = "copy" THEN crd ELSE rd

\* In one thread: what is in memory and not yet taken out is what was pushed.
OneThread ==
    threads = 1 /\ ~strayed =>
        /\ ppc = "idle" \/ cpc = "idle"
        /\ pushed = IF ppc = "copied" THEN wr + pcnt ELSE wr
        /\ \A i \in Taken .. Written - 1 : buf[Cell(i)] = i + 1
        /\ Len(popped) = Taken
        /\ \A i \in 1 .. Taken : popped[i] = i

RingInv == RingTypeOK /\ PushFits /\ PopFits /\ OneThread

IInv == MapInv /\ RingInv
-----------------------------------------------------------------------------
(* Construction and destruction *)

\* The first try starts without a file, a mapping or a pointer.
LEMMA MapInitInv == MapInit => MapInv
<1> SUFFICES ASSUME MapInit PROVE MapInv
  OBVIOUS
<1> USE DEF MapInit, FirstStep, NoFd
<1>1. MapTypeOK
  <2>1. apple \in BOOLEAN /\ NDebug \in BOOLEAN /\ fd0Free \in BOOLEAN
    OBVIOUS
  <2>2. step \in Steps
    BY DEF Steps, LinuxSteps, AppleSteps
  <2>3. tryNum \in Nat /\ m_memfd \in Int
    <3>1. tryNum = 0 /\ m_memfd = -1
      OBVIOUS
    <3>2. QED
      BY ONLY <3>1
  <2>4. {m_buf, m_buf_mirror} \subseteq {"null", "mapped", "failed"}
    OBVIOUS
  <2>5. QED
    BY ONLY <2>1, <2>2, <2>3, <2>4 DEF MapTypeOK
<1>2. OwnSystem
  BY DEF OwnSystem, LinuxSteps, AppleSteps
<1>3. FileOfTry
  BY DEF FileOfTry
<1>4. ObjectOfTry /\ NoMapsLeft
  BY DEF ObjectOfTry, NoObject, NoMapsLeft
<1>5. QED
  BY <1>1, <1>2, <1>3, <1>4 DEF MapInv

\* Whatever leaves the memory alone keeps what is known of it.
LEMMA MapUnchanged == MapInv /\ UNCHANGED mapVars => MapInv'
<1> SUFFICES ASSUME MapInv, UNCHANGED mapVars PROVE MapInv'
  OBVIOUS
<1> USE DEF MapInv, mapVars, object, build
<1>1. MapTypeOK'
  BY DEF MapTypeOK
<1>2. OwnSystem'
  BY DEF OwnSystem
<1>3. FileOfTry'
  BY DEF FileOfTry
<1>4. ObjectOfTry'
  BY DEF ObjectOfTry, NoObject, WholeObject, ThisBuf, ThisMirror
<1>5. NoMapsLeft'
  BY DEF NoMapsLeft, NoObject, ThisBuf, ThisMirror
<1>6. QED
  BY <1>1, <1>2, <1>3, <1>4, <1>5

\* continue, with nothing left of the try but what the code forgot: the next
\* step is another try of this system or the last check, and all that is known
\* of the memory holds.
LEMMA TryAgain ==
    ASSUME MapTypeOK, Continue, UNCHANGED build,
           m_memfd' \in Int, fd0Free' \in BOOLEAN, NoObject',
           IF apple THEN fds' = {} ELSE fds' \subseteq {0},
           ~NDebug => maps' = {}
    PROVE  MapInv'
<1> USE DEF Steps, LinuxSteps, AppleSteps
<1>1. tryNum' \in Nat
  <2>1. tryNum \in Nat
    BY DEF MapTypeOK
  <2>2. tryNum' = tryNum + 1
    BY DEF Continue
  <2>3. QED
    BY <2>1, <2>2
<1>2. apple' = apple /\ NDebug' = NDebug /\ apple \in BOOLEAN /\ NDebug \in BOOLEAN
  BY DEF build, MapTypeOK
<1>3. step' = "check" \/ (step' = IF apple THEN "map both" ELSE "memfd")
  BY DEF Continue, FirstStep
<1>4. MapTypeOK'
  BY <1>1, <1>2, <1>3 DEF MapTypeOK, NoObject
<1>5. OwnSystem'
  BY <1>2, <1>3 DEF OwnSystem
<1>6. FileOfTry'
  <2>1. fds' \subseteq {0} /\ (apple' => fds' = {})
    BY <1>2
  <2>2. step' \notin {"ftruncate", "map", "mirror"}
    BY <1>3
  <2>3. QED
    BY <2>1, <2>2 DEF FileOfTry
<1>7. ObjectOfTry'
  <2>1. step' \in {"check", "map both", "memfd"}
    BY <1>3
  <2>2. QED
    BY <2>1 DEF ObjectOfTry
<1>8. NoMapsLeft'
  <2>1. step' \in {"check", "map both", "memfd"}
    BY <1>3
  <2>2. ~NDebug' => maps' = {}
    BY <1>2
  <2>3. QED
    BY <2>1, <2>2 DEF NoMapsLeft
<1>9. QED
  BY <1>4, <1>5, <1>6, <1>7, <1>8 DEF MapInv

\* Every call of constructor and destructor keeps the record of what the current
\* try has made: a retry starts from nothing, and what it forgets is only what a
\* build without assertions never unmaps.
LEMMA MapStepInv == MapInv /\ (Construct \/ Destroy) => MapInv'
<1> SUFFICES ASSUME MapInv, Construct \/ Destroy PROVE MapInv'
  OBVIOUS
<1> USE DEF MapTypeOK, Steps, LinuxSteps, AppleSteps, object, build
<1>t. MapTypeOK /\ OwnSystem
  BY DEF MapInv
<1>1. CASE MemfdCreate
  <2>1. step = "memfd" /\ ~apple /\ NoObject /\ fds \subseteq {0}
    BY <1>1, <1>t DEF MemfdCreate, MapInv, OwnSystem, FileOfTry, ObjectOfTry
  <2>2. ~NDebug => maps = {}
    BY <1>1 DEF MemfdCreate, MapInv, NoMapsLeft
  <2>3. UNCHANGED <<m_buf, m_buf_mirror, maps, build>>
    BY <1>1 DEF MemfdCreate
  <2>4. CASE step' = "ftruncate" /\ m_memfd' = tryNum + 3 /\ fds' = fds \cup {tryNum + 3}
             /\ UNCHANGED <<tryNum, fd0Free>>
    <3>1. MapTypeOK' /\ OwnSystem' /\ FileOfTry'
      BY <2>1, <2>3, <2>4, <1>t DEF OwnSystem, FileOfTry
    <3>2. ObjectOfTry' /\ NoMapsLeft'
      BY <2>1, <2>2, <2>3, <2>4 DEF ObjectOfTry, NoObject, NoMapsLeft, ThisBuf, ThisMirror
    <3>3. QED
      BY <3>1, <3>2 DEF MapInv
  <2>5. CASE Continue /\ m_memfd' \in {0, NoFd} /\ fd0Free' \in BOOLEAN /\ fds' \subseteq {0}
    <3>1. NoObject' /\ (~NDebug => maps' = {}) /\ UNCHANGED build
      BY <2>1, <2>2, <2>3 DEF NoObject
    <3>2. m_memfd' \in Int
      BY <2>5 DEF NoFd
    <3>3. QED
      BY <2>1, <2>5, <3>1, <3>2, <1>t, TryAgain
  <2>6. CASE /\ ~fd0Free /\ m_memfd' = tryNum + 3 /\ fds' = fds \cup {tryNum + 3}
             /\ step' = "ftruncate" /\ UNCHANGED <<tryNum, fd0Free>>
    BY <2>4, <2>6
  <2>7. CASE /\ fd0Free /\ m_memfd' = 0 /\ fds' = fds \cup {0} /\ fd0Free' = FALSE /\ Continue
    <3>1. fds' \subseteq {0}
      BY <2>1, <2>7
    <3>2. QED
      BY <2>5, <2>7, <3>1
  <2>8. CASE m_memfd' = NoFd /\ Continue /\ UNCHANGED <<fds, fd0Free>>
    <3>1. fds' \subseteq {0} /\ fd0Free' \in BOOLEAN
      BY <2>1, <2>8, <1>t
    <3>2. QED
      BY <2>5, <2>8, <3>1
  <2>9. QED
    BY <1>1, <2>6, <2>7, <2>8 DEF MemfdCreate
<1>2. CASE Ftruncate
  <2>1. step = "ftruncate" /\ ~apple /\ NoObject /\ fds \subseteq {0, m_memfd} /\ m_memfd \in fds
    BY <1>2, <1>t DEF Ftruncate, MapInv, OwnSystem, FileOfTry, ObjectOfTry
  <2>2. ~NDebug => maps = {}
    BY <2>1 DEF MapInv, NoMapsLeft
  <2>3. UNCHANGED <<m_buf, m_buf_mirror, maps, fd0Free, build>>
    BY <1>2 DEF Ftruncate
  <2>4. CASE step' = "map" /\ UNCHANGED <<tryNum, m_memfd, fds>>
    <3>1. MapTypeOK' /\ OwnSystem' /\ FileOfTry'
      BY <2>1, <2>3, <2>4, <1>t DEF OwnSystem, FileOfTry
    <3>2. ObjectOfTry' /\ NoMapsLeft'
      BY <2>1, <2>2, <2>3, <2>4 DEF ObjectOfTry, NoObject, NoMapsLeft
    <3>3. QED
      BY <3>1, <3>2 DEF MapInv
  <2>5. CASE fds' = fds \ {m_memfd} /\ m_memfd' = NoFd /\ Continue
    <3>1. NoObject' /\ (~NDebug => maps' = {}) /\ UNCHANGED build /\ fd0Free' \in BOOLEAN
      BY <2>1, <2>2, <2>3, <1>t DEF NoObject
    <3>2. fds' \subseteq {0} /\ m_memfd' \in Int
      BY <2>1, <2>5 DEF NoFd
    <3>3. QED
      BY <2>1, <2>5, <3>1, <3>2, <1>t, TryAgain
  <2>6. QED
    BY <1>2, <2>4, <2>5 DEF Ftruncate
<1>3. CASE MapBuffer
  <2>1. step = "map" /\ ~apple /\ fds \subseteq {0, m_memfd} /\ m_memfd \in fds
    BY <1>3, <1>t DEF MapBuffer, MapInv, OwnSystem, FileOfTry
  <2>2. ~NDebug => maps = {}
    BY <2>1 DEF MapInv, NoMapsLeft
  <2>3. MapTypeOK' /\ OwnSystem' /\ FileOfTry'
    BY <1>3, <2>1, <1>t DEF MapBuffer, OwnSystem, FileOfTry
  <2>4. ObjectOfTry' /\ NoMapsLeft'
    BY <1>3, <2>1, <2>2 DEF MapBuffer, ObjectOfTry, NoMapsLeft, ThisBuf, ThisMirror
  <2>5. QED
    BY <2>3, <2>4 DEF MapInv
<1>4. CASE MapMirror
  <2>1. /\ step = "mirror" /\ ~apple /\ fds \subseteq {0, m_memfd} /\ m_memfd \in fds
        /\ ThisBuf \in maps /\ m_buf = "mapped" /\ m_buf_mirror = "mapped"
    BY <1>4, <1>t DEF MapMirror, MapInv, OwnSystem, FileOfTry, ObjectOfTry
  <2>2. ~NDebug => maps = {ThisBuf}
    BY <2>1 DEF MapInv, NoMapsLeft
  <2>3. UNCHANGED <<fd0Free, build>>
    BY <1>4 DEF MapMirror
  <2>4. CASE /\ maps' = maps \cup {ThisMirror} /\ step' = "check"
             /\ UNCHANGED <<tryNum, object, fds>>
    <3>1. MapTypeOK' /\ OwnSystem' /\ FileOfTry'
      BY <2>1, <2>3, <2>4, <1>t DEF OwnSystem, FileOfTry
    <3>2. ObjectOfTry' /\ NoMapsLeft'
      BY <2>1, <2>2, <2>3, <2>4
      DEF ObjectOfTry, NoMapsLeft, NoObject, WholeObject, ThisBuf, ThisMirror
    <3>3. QED
      BY <3>1, <3>2 DEF MapInv
  <2>5. CASE ~NDebug /\ step' = "aborted" /\ UNCHANGED <<tryNum, object, fds, maps>>
    <3>1. MapTypeOK' /\ OwnSystem' /\ FileOfTry'
      BY <2>1, <2>3, <2>5, <1>t DEF OwnSystem, FileOfTry
    <3>2. ObjectOfTry' /\ NoMapsLeft'
      BY <2>1, <2>2, <2>3, <2>5 DEF ObjectOfTry, NoMapsLeft, ThisBuf, ThisMirror
    <3>3. QED
      BY <3>1, <3>2 DEF MapInv
  <2>6. CASE /\ NDebug /\ m_buf_mirror' = "null" /\ m_buf' = "null"
             /\ fds' = fds \ {m_memfd} /\ m_memfd' = NoFd /\ Continue
    <3>1. NoObject' /\ UNCHANGED build /\ fd0Free' \in BOOLEAN
      BY <2>3, <2>6, <1>t DEF NoObject
    <3>2. fds' \subseteq {0} /\ m_memfd' \in Int
      BY <2>1, <2>6 DEF NoFd
    <3>3. QED
      BY <2>1, <2>6, <3>1, <3>2, <1>t, TryAgain
  <2>7. QED
    BY <1>4, <2>4, <2>5, <2>6 DEF MapMirror, ThisMirror
<1>5. CASE MapBoth
  <2>1. step = "map both" /\ apple /\ fds = {}
    BY <1>5, <1>t DEF MapBoth, MapInv, OwnSystem, FileOfTry
  <2>2. ~NDebug => maps = {}
    BY <2>1 DEF MapInv, NoMapsLeft
  <2>3. MapTypeOK' /\ OwnSystem' /\ FileOfTry'
    BY <1>5, <2>1, <1>t DEF MapBoth, OwnSystem, FileOfTry
  <2>4. ObjectOfTry' /\ NoMapsLeft'
    BY <1>5, <2>1, <2>2 DEF MapBoth, ObjectOfTry, NoMapsLeft, ThisBuf, ThisMirror
  <2>5. QED
    BY <2>3, <2>4 DEF MapInv
<1>6. CASE CutMirror
  <2>1. /\ step = "cut" /\ apple /\ fds = {}
        /\ \/ m_buf = "failed" /\ m_buf_mirror = "failed"
           \/ ThisBuf \in maps /\ m_buf = "mapped" /\ m_buf_mirror = "mapped"
    BY <1>6, <1>t DEF CutMirror, MapInv, OwnSystem, FileOfTry, ObjectOfTry
  <2>2. ~NDebug => /\ maps \subseteq {ThisBuf, ThisMirror}
                   /\ m_buf = "failed" => maps = {}
    BY <2>1 DEF MapInv, NoMapsLeft
  <2>3. UNCHANGED <<fds, fd0Free, build>>
    BY <1>6 DEF CutMirror
  <2>4. CASE /\ m_buf = "mapped" /\ maps' = maps \ {ThisMirror} /\ step' = "remap"
             /\ UNCHANGED <<tryNum, object>>
    <3>1. MapTypeOK' /\ OwnSystem' /\ FileOfTry'
      BY <2>1, <2>3, <2>4, <1>t DEF OwnSystem, FileOfTry
    <3>2. ObjectOfTry' /\ NoMapsLeft'
      BY <2>1, <2>2, <2>3, <2>4 DEF ObjectOfTry, NoMapsLeft, ThisBuf, ThisMirror
    <3>3. QED
      BY <3>1, <3>2 DEF MapInv
  <2>5. CASE ~NDebug /\ step' = "aborted" /\ UNCHANGED <<tryNum, object, maps>>
    <3>1. MapTypeOK' /\ OwnSystem' /\ FileOfTry'
      BY <2>1, <2>3, <2>5, <1>t DEF OwnSystem, FileOfTry
    <3>2. ObjectOfTry' /\ NoMapsLeft'
      BY <2>1, <2>2, <2>3, <2>5 DEF ObjectOfTry, NoMapsLeft, ThisBuf, ThisMirror
    <3>3. QED
      BY <3>1, <3>2 DEF MapInv
  <2>6. CASE /\ maps' = IF NDebug THEN maps ELSE maps \ {ThisBuf, ThisMirror}
             /\ m_buf' = "null" /\ m_buf_mirror' = "null" /\ Continue /\ UNCHANGED m_memfd
    <3>1. NoObject' /\ UNCHANGED build /\ fd0Free' \in BOOLEAN
      BY <2>3, <2>6, <1>t DEF NoObject
    <3>2. fds' = {} /\ m_memfd' \in Int /\ (~NDebug => maps' = {})
      BY <2>1, <2>2, <2>3, <2>6, <1>t
    <3>3. QED
      BY <2>1, <2>6, <3>1, <3>2, <1>t, TryAgain
  <2>7. QED
    BY <1>6, <2>4, <2>5, <2>6 DEF CutMirror, ThisBuf, ThisMirror
<1>7. CASE Remap
  <2>1. /\ step = "remap" /\ apple /\ fds = {}
        /\ ThisBuf \in maps /\ m_buf = "mapped" /\ m_buf_mirror = "mapped"
    BY <1>7, <1>t DEF Remap, MapInv, OwnSystem, FileOfTry, ObjectOfTry
  <2>2. ~NDebug => maps = {ThisBuf}
    BY <2>1 DEF MapInv, NoMapsLeft
  <2>3. UNCHANGED <<tryNum, fds, fd0Free, build>>
    BY <1>7 DEF Remap
  <2>4. MapTypeOK' /\ OwnSystem' /\ FileOfTry'
    BY <1>7, <2>1, <2>3, <1>t DEF Remap, OwnSystem, FileOfTry
  <2>5. CASE maps' = maps \cup {ThisMirror} /\ step' = "check" /\ UNCHANGED object
    <3>1. ObjectOfTry'
      <4>1. WholeObject'
        BY <2>1, <2>3, <2>5 DEF WholeObject, ThisBuf, ThisMirror
      <4>2. QED
        BY <2>5, <4>1 DEF ObjectOfTry
    <3>2. NoMapsLeft'
      BY <2>1, <2>2, <2>3, <2>5 DEF NoMapsLeft, NoObject, ThisBuf, ThisMirror
    <3>3. QED
      BY <2>4, <3>1, <3>2 DEF MapInv
  <2>6. CASE ~NDebug /\ step' = "aborted" /\ UNCHANGED <<object, maps>>
    <3>1. ObjectOfTry' /\ NoMapsLeft'
      BY <2>2, <2>3, <2>6 DEF ObjectOfTry, NoMapsLeft, ThisBuf, ThisMirror
    <3>2. QED
      BY <2>4, <3>1 DEF MapInv
  <2>7. CASE /\ maps' = IF NDebug THEN maps ELSE maps \ {ThisBuf}
             /\ m_buf' = "null" /\ m_buf_mirror' = "null" /\ step' = "check"
    <3>1. ObjectOfTry'
      BY <2>7 DEF ObjectOfTry, NoObject
    <3>2. NoMapsLeft'
      BY <2>2, <2>3, <2>7 DEF NoMapsLeft, ThisBuf, ThisMirror
    <3>3. QED
      BY <2>4, <3>1, <3>2 DEF MapInv
  <2>8. QED
    BY <1>7, <2>5, <2>6, <2>7 DEF Remap, ThisBuf, ThisMirror
<1>8. CASE FinalCheck
  <2>1. step = "check" /\ (NoObject \/ WholeObject) /\ fds \subseteq {0, m_memfd}
    BY <1>8 DEF FinalCheck, MapInv, FileOfTry, ObjectOfTry
  <2>2. MapTypeOK' /\ OwnSystem'
    BY <1>8, <1>t DEF FinalCheck, OwnSystem
  <2>3. FileOfTry'
    BY <1>8, <2>1 DEF FinalCheck, MapInv, FileOfTry
  <2>4. ObjectOfTry' /\ NoMapsLeft'
    BY <1>8, <2>1 DEF FinalCheck, MapInv, ObjectOfTry, NoMapsLeft, NoObject, WholeObject,
                      ThisBuf, ThisMirror
  <2>5. QED
    BY <2>2, <2>3, <2>4 DEF MapInv
<1>9. CASE Unmap
  <2>1. step = "ready" /\ fds \subseteq {0, m_memfd} /\ (apple => fds = {})
    BY <1>9 DEF Unmap, MapInv, FileOfTry
  <2>2. MapTypeOK' /\ OwnSystem' /\ FileOfTry'
    BY <1>9, <2>1, <1>t DEF Unmap, OwnSystem, FileOfTry
  <2>3. ObjectOfTry'
    BY <1>9 DEF Unmap, ObjectOfTry
  <2>4. NoMapsLeft'
    BY <1>9 DEF Unmap, MapInv, NoMapsLeft, ThisBuf, ThisMirror
  <2>5. QED
    BY <2>2, <2>3, <2>4 DEF MapInv
<1>10. CASE Close
  <2>1. step = "close" /\ fds \subseteq {0, m_memfd} /\ ~apple
    BY <1>10, <1>t DEF Close, MapInv, FileOfTry, OwnSystem
  <2>2. MapTypeOK' /\ OwnSystem' /\ FileOfTry'
    BY <1>10, <2>1, <1>t DEF Close, OwnSystem, FileOfTry, NoFd
  <2>3. ObjectOfTry' /\ NoMapsLeft'
    BY <1>10, <2>1 DEF Close, MapInv, ObjectOfTry, NoMapsLeft, ThisBuf, ThisMirror
  <2>4. QED
    BY <2>2, <2>3 DEF MapInv
<1>11. QED
  BY <1>1, <1>2, <1>3, <1>4, <1>5, <1>6, <1>7, <1>8, <1>9, <1>10 DEF Construct, Destroy
-----------------------------------------------------------------------------
(* The use of the ring *)

\* An empty ring before its first call.
LEMMA RingInitInv == RingInit => RingInv
<1> SUFFICES ASSUME RingInit PROVE RingInv
  OBVIOUS
<1> USE DEF RingInit
<1>1. RingTypeOK
  <2>1. buf \in [0 .. N - 1 -> Nat]
    BY DEF EmptyBuf
  <2>2. done \in BOOLEAN /\ strayed \in BOOLEAN
    OBVIOUS
  <2>3. popped \in Seq(Nat)
    OBVIOUS
  <2>4. QED
    BY <2>1, <2>2, <2>3 DEF RingTypeOK
<1>2. PushFits /\ PopFits
  BY NAssumption DEF PushFits, PopFits, Size, StaticSize
<1>3. OneThread
  BY DEF OneThread, Written, Taken
<1>4. QED
  BY <1>1, <1>2, <1>3 DEF RingInv

\* The ring is nothing but its variables.
LEMMA RingUnchanged == RingInv /\ UNCHANGED ringVars => RingInv'
<1> SUFFICES ASSUME RingInv, UNCHANGED ringVars PROVE RingInv'
  OBVIOUS
<1> USE DEF RingInv, ringVars, context
<1>1. RingTypeOK'
  BY DEF RingTypeOK
<1>2. PushFits' /\ PopFits'
  BY DEF PushFits, PopFits
<1>3. OneThread'
  BY DEF OneThread, Written, Taken
<1>4. QED
  BY <1>1, <1>2, <1>3

\* push counts an element that is not there yet: full() was asked first.
LEMMA PushBeginInv == RingInv /\ PushBegin => RingInv'
<1> SUFFICES ASSUME RingInv, PushBegin PROVE RingInv'
  OBVIOUS
<1> USE DEF RingInv, PushBegin, context
<1>1. RingTypeOK'
  BY DEF RingTypeOK
<1>2. rd \in Nat /\ wr \in Nat /\ pushed \in Nat /\ N \in Nat
  BY NAssumption DEF RingTypeOK
<1>3. PushFits'
  BY <1>2 DEF PushFits, Full, RdFullVal, Size, StaticSize
<1>4. PopFits'
  BY DEF PopFits
<1>5. OneThread'
  <2> SUFFICES ASSUME threads = 1, ~strayed PROVE OneThread'
    BY DEF OneThread
  <2>1. cpc = "idle" /\ ppc = "idle"
    BY DEF ProducerMayStart
  <2>2. Written = wr /\ Taken = rd /\ Written' = wr /\ Taken' = rd
    BY <1>2, <2>1 DEF Written, Taken
  <2>3. pushed' = wr'
    BY <1>2, <2>1 DEF OneThread
  <2>4. QED
    BY <2>1, <2>2, <2>3 DEF OneThread
<1>6. QED
  BY <1>1, <1>3, <1>4, <1>5

\* The new element goes to a cell of its own.
LEMMA PushConstructInv == RingInv /\ PushConstruct => RingInv'
<1> SUFFICES ASSUME RingInv, PushConstruct PROVE RingInv'
  OBVIOUS
<1> USE DEF RingInv, PushConstruct, context
<1>1. /\ rd \in Nat /\ wr \in Nat /\ pwr \in Nat /\ pushed \in Nat /\ N \in Nat
      /\ buf \in [0 .. N - 1 -> Nat]
  BY NAssumption DEF RingTypeOK
<1>2. Cell(pwr) \in 0 .. N - 1
  BY <1>1, CellType
<1>3. RingTypeOK'
  BY <1>1 DEF RingTypeOK
<1>4. PushFits' /\ PopFits'
  BY DEF PushFits, PopFits
<1>5. OneThread'
  <2> SUFFICES ASSUME threads = 1, ~strayed PROVE OneThread'
    BY DEF OneThread
  <2>1. cpc = "idle" /\ pushed = wr /\ pwr = wr - 1
    BY <1>1 DEF OneThread, PushFits
  <2>2. Written = wr - 1 /\ Taken = rd /\ Written' = wr /\ Taken' = rd
    BY <1>1, <2>1 DEF Written, Taken
  <2>3. ASSUME NEW i \in rd .. wr - 1 PROVE buf'[Cell(i)] = i + 1
    <3>1. CASE i = pwr
      BY <1>1, <1>2, <2>1, <3>1
    <3>2. CASE i # pwr
      <4>1. i \in Nat /\ i < pwr /\ pwr < i + N
        BY <1>1, <2>1, <3>2 DEF PushFits, Size, StaticSize
      <4>2. Cell(i) # Cell(pwr) /\ Cell(i) \in 0 .. N - 1
        BY <1>1, <4>1, CellInjective, CellType
      <4>3. buf[Cell(i)] = i + 1
        BY <1>1, <2>1, <2>2, <4>1 DEF OneThread
      <4>4. QED
        BY <1>1, <4>2, <4>3
    <3>3. QED
      BY <3>1, <3>2
  <2>4. Len(popped) = Taken /\ \A i \in 1 .. Taken : popped[i] = i
    BY DEF OneThread
  <2>5. QED
    BY <1>1, <2>1, <2>2, <2>3, <2>4 DEF OneThread
<1>6. QED
  BY <1>3, <1>4, <1>5

\* A block that stays in the mapping is written whole, each value to its cell,
\* and no element before it is touched.
LEMMA EmplaceMultipleCopyInv ==
    RingInv /\ (\E n \in 1 .. StaticSize : EmplaceMultipleCopy(n)) => RingInv'
<1> SUFFICES ASSUME RingInv, NEW n \in 1 .. StaticSize, EmplaceMultipleCopy(n)
             PROVE  RingInv'
  OBVIOUS
<1> DEFINE copied == {i \in wr .. wr + n - 1 : Masked(wr) + (i - wr) < 2 * N}
           ValueFor(cell) == {pushed + i - wr + 1 : i \in {j \in copied : Cell(j) = cell}}
           Written1(cell) == IF ValueFor(cell) = {} THEN buf[cell]
                             ELSE CHOOSE v \in ValueFor(cell) : TRUE
<1>1. /\ rd \in Nat /\ wr \in Nat /\ pushed \in Nat /\ n \in Nat /\ N \in Nat
      /\ buf \in [0 .. N - 1 -> Nat]
  BY NAssumption DEF RingInv, RingTypeOK, StaticSize
<1>2. buf' = [cell \in 0 .. N - 1 |-> Written1(cell)]
  BY DEF EmplaceMultipleCopy
<1>3. strayed' = (strayed \/ copied # wr .. wr + n - 1)
  BY DEF EmplaceMultipleCopy
<1>4. /\ ProducerMayStart /\ ~done /\ n <= Remaining(rd, wr)
      /\ pwr' = wr /\ pcnt' = n /\ pushed' = pushed + n /\ ppc' = "copied"
      /\ UNCHANGED <<rd, wr, done, cpc, crd, popped, round, threads>>
  BY DEF EmplaceMultipleCopy
<1> HIDE DEF copied
<1>5. copied \subseteq wr .. wr + n - 1
  BY DEF copied
<1>6. RingTypeOK'
  <2>1. ASSUME NEW cell \in 0 .. N - 1 PROVE Written1(cell) \in Nat
    <3>1. ValueFor(cell) \subseteq Nat
      BY <1>1, <1>5
    <3>2. CASE ValueFor(cell) = {}
      BY <1>1, <2>1, <3>2
    <3>3. CASE ValueFor(cell) # {}
      <4>1. (CHOOSE v \in ValueFor(cell) : TRUE) \in ValueFor(cell)
        BY <3>3
      <4> HIDE DEF ValueFor
      <4>2. QED
        BY <3>1, <3>3, <4>1
    <3>4. QED
      BY <3>2, <3>3
  <2>2. buf' \in [0 .. N - 1 -> Nat]
    <3> HIDE DEF Written1
    <3>1. QED
      BY <1>2, <2>1
  <2>3. strayed' \in BOOLEAN
    BY <1>3
  <2>4. QED
    BY <1>1, <1>4, <2>2, <2>3 DEF RingInv, RingTypeOK
<1>7. PushFits' /\ PopFits'
  BY <1>1, <1>4 DEF RingInv, PushFits, PopFits
<1>8. OneThread'
  <2> SUFFICES ASSUME threads = 1, ~strayed' PROVE OneThread'
    BY <1>4 DEF OneThread
  <2>1. /\ ~strayed /\ copied = wr .. wr + n - 1
        /\ cpc = "idle" /\ ppc = "idle"
    <3>1. ~(strayed \/ copied # wr .. wr + n - 1)
      BY <1>3, Zenon
    <3>2. cpc = "idle" /\ ppc = "idle"
      BY <1>4 DEF ProducerMayStart
    <3>3. QED
      BY <3>1, <3>2
  <2>2. /\ pushed = wr /\ Len(popped) = rd /\ \A i \in 1 .. rd : popped[i] = i
        /\ \A i \in rd .. wr - 1 : buf[Cell(i)] = i + 1
    BY <1>1, <2>1 DEF RingInv, OneThread, Written, Taken
  <2>3. Taken' = rd /\ Written' = wr + n
    BY <1>1, <1>4, <2>1 DEF Written, Taken
  <2>4. rd <= wr /\ wr + n - rd <= N - 1
    BY <1>1, <1>4 DEF RingInv, PushFits, Remaining, Size, StaticSize
  <2>5. ASSUME NEW i \in rd .. wr + n - 1 PROVE buf'[Cell(i)] = i + 1
    <3>1. i \in Nat /\ Cell(i) \in 0 .. N - 1
      <4>1. i \in Nat
        BY <1>1
      <4>2. QED
        BY <4>1, CellType
    <3>2. buf'[Cell(i)] = Written1(Cell(i))
      BY <1>2, <3>1
    <3>3. ASSUME NEW j \in copied, Cell(j) = Cell(i) PROVE j = i
      <4>1. j \in Nat /\ i < j + N /\ j < i + N
        BY <1>1, <2>1, <2>4, <3>1
      <4>2. QED
        BY <3>1, <3>3, <4>1, CellsDiffer
    <3>4. CASE i < wr
      <4>1. ValueFor(Cell(i)) = {}
        BY <1>1, <2>1, <3>1, <3>3, <3>4
      <4>2. QED
        BY <1>1, <2>2, <3>2, <3>4, <4>1
    <3>5. CASE i >= wr
      <4>1. i \in copied
        BY <1>1, <2>1, <3>1, <3>5
      <4>2. {j \in copied : Cell(j) = Cell(i)} = {i}
        BY <3>3, <4>1
      <4>3. ValueFor(Cell(i)) = {pushed + i - wr + 1}
        BY <4>2
      <4>4. pushed + i - wr + 1 = i + 1
        BY <1>1, <2>2, <3>1
      <4>5. Written1(Cell(i)) = i + 1
        BY <4>3, <4>4
      <4>6. QED
        BY <3>2, <4>5
    <3>6. QED
      BY <1>1, <3>1, <3>4, <3>5
  <2>6. cpc' = "idle" /\ ppc' = "copied" /\ pushed' = wr' + pcnt'
    BY <1>4, <2>1, <2>2
  <2>7. Len(popped') = rd /\ \A i \in 1 .. rd : popped'[i] = i
    BY <1>4, <2>2
  <2>8. \A i \in Taken' .. Written' - 1 : buf'[Cell(i)] = i + 1
    <3>1. ASSUME NEW i \in Taken' .. Written' - 1 PROVE buf'[Cell(i)] = i + 1
      <4>1. i \in rd .. wr + n - 1
        BY <1>1, <2>3
      <4>2. QED
        BY <2>5, <4>1
    <3>2. QED
      BY <3>1
  <2>9. QED
    BY ONLY <2>3, <2>6, <2>7, <2>8 DEF OneThread
<1>9. QED
  BY <1>6, <1>7, <1>8 DEF RingInv

\* The elements counted are those that were copied.
LEMMA EmplaceMultiplePublishInv == RingInv /\ EmplaceMultiplePublish => RingInv'
<1> SUFFICES ASSUME RingInv, EmplaceMultiplePublish PROVE RingInv'
  OBVIOUS
<1> USE DEF RingInv, EmplaceMultiplePublish, context
<1>1. rd \in Nat /\ wr \in Nat /\ pcnt \in Nat /\ N \in Nat
  BY NAssumption DEF RingTypeOK
<1>2. RingTypeOK'
  BY <1>1 DEF RingTypeOK
<1>3. PushFits' /\ PopFits'
  BY <1>1 DEF PushFits, PopFits, Remaining, Size, StaticSize
<1>4. OneThread'
  <2> SUFFICES ASSUME threads = 1, ~strayed PROVE OneThread'
    BY DEF OneThread
  <2>1. Written' = Written /\ Taken' = Taken
    BY DEF Written, Taken
  <2>2. QED
    BY <2>1 DEF OneThread
<1>5. QED
  BY <1>2, <1>3, <1>4

\* finish changes neither the indices nor the memory.
LEMMA FinishInv == RingInv /\ Finish => RingInv'
<1> SUFFICES ASSUME RingInv, Finish PROVE RingInv'
  OBVIOUS
<1> USE DEF RingInv, Finish, context
<1>1. RingTypeOK'
  BY DEF RingTypeOK
<1>2. PushFits' /\ PopFits'
  BY DEF PushFits, PopFits
<1>3. OneThread'
  BY DEF OneThread, Written, Taken
<1>4. QED
  BY <1>1, <1>2, <1>3

\* pop hands back the slot of the oldest element, which stays in memory.
LEMMA PopBeginInv == RingInv /\ PopBegin => RingInv'
<1> SUFFICES ASSUME RingInv, PopBegin PROVE RingInv'
  OBVIOUS
<1> USE DEF RingInv, PopBegin, context
<1>1. rd \in Nat /\ wr \in Nat /\ pcnt \in Nat /\ N \in Nat
  BY NAssumption DEF RingTypeOK
<1>2. RingTypeOK'
  BY <1>1 DEF RingTypeOK
<1>3. PushFits' /\ PopFits'
  BY <1>1 DEF PushFits, PopFits, Empty, Remaining, Size, StaticSize
<1>4. OneThread'
  <2> SUFFICES ASSUME threads = 1, ~strayed PROVE OneThread'
    BY DEF OneThread
  <2>1. ppc = "idle" /\ cpc = "idle"
    BY DEF ConsumerMayStart
  <2>2. Written' = Written /\ Taken' = Taken
    BY <2>1 DEF Written, Taken
  <2>3. QED
    BY <2>1, <2>2 DEF OneThread
<1>5. QED
  BY <1>2, <1>3, <1>4

\* The element copied is the one that was pushed next.
LEMMA PopCopyInv == RingInv /\ PopCopy => RingInv'
<1> SUFFICES ASSUME RingInv, PopCopy PROVE RingInv'
  OBVIOUS
<1> USE DEF RingInv, PopCopy, context
<1>1. /\ rd \in Nat /\ wr \in Nat /\ crd \in Nat /\ N \in Nat
      /\ buf \in [0 .. N - 1 -> Nat] /\ popped \in Seq(Nat)
  BY NAssumption DEF RingTypeOK
<1>2. Cell(crd) \in 0 .. N - 1
  BY <1>1, CellType
<1>3. buf[Cell(crd)] \in Nat
  BY <1>1, <1>2
<1>4. /\ popped' \in Seq(Nat) /\ Len(popped') = Len(popped) + 1
      /\ \A i \in 1 .. Len(popped) : popped'[i] = popped[i]
      /\ popped'[Len(popped) + 1] = buf[Cell(crd)]
  BY <1>1, <1>3, AppendProperties
<1>5. RingTypeOK'
  BY <1>4 DEF RingTypeOK
<1>6. PushFits' /\ PopFits'
  BY DEF PushFits, PopFits
<1>7. OneThread'
  <2> SUFFICES ASSUME threads = 1, ~strayed PROVE OneThread'
    BY DEF OneThread
  <2>1. ppc = "idle" /\ rd = crd + 1 /\ rd <= wr
    BY DEF OneThread, PopFits, PushFits
  <2>2. Written = wr /\ Taken = crd /\ Written' = wr /\ Taken' = rd
    BY <2>1 DEF Written, Taken
  <2>3. /\ pushed = wr /\ Len(popped) = crd /\ \A i \in 1 .. crd : popped[i] = i
        /\ \A i \in crd .. wr - 1 : buf[Cell(i)] = i + 1
    BY <2>1, <2>2 DEF OneThread
  <2>4. buf[Cell(crd)] = rd
    BY <1>1, <2>1, <2>3
  <2>5. Len(popped') = rd
    BY <1>4, <2>1, <2>3
  <2>6. ASSUME NEW i \in 1 .. rd PROVE popped'[i] = i
    <3>1. CASE i = rd
      BY <1>4, <2>1, <2>3, <2>4, <3>1
    <3>2. CASE i # rd
      BY <1>1, <1>4, <2>1, <2>3, <3>2
    <3>3. QED
      BY <3>1, <3>2
  <2>7. QED
    BY <1>1, <2>1, <2>2, <2>3, <2>5, <2>6 DEF OneThread
<1>8. QED
  BY <1>5, <1>6, <1>7

\* A cleared ring starts again.
LEMMA ClearInv == RingInv /\ Clear => RingInv'
<1> SUFFICES ASSUME RingInv, Clear PROVE RingInv'
  OBVIOUS
<1> USE DEF RingInv, Clear
<1>1. RingTypeOK'
  <2>1. buf' \in [0 .. N - 1 -> Nat]
    BY DEF EmptyBuf
  <2>2. popped' \in Seq(Nat)
    OBVIOUS
  <2>d. done' \in BOOLEAN
    OBVIOUS
  <2>r. round' \in Nat
    <3>1. round \in Nat /\ round' = round + 1
      BY DEF RingTypeOK
    <3>2. QED
      BY ONLY <3>1
  <2>3. /\ ppc \in {"idle", "construct", "copied"} /\ cpc \in {"idle", "copy"}
        /\ pwr \in Nat /\ pcnt \in Nat /\ crd \in Nat
        /\ strayed \in BOOLEAN /\ threads \in {1, 2}
    BY DEF RingTypeOK
  <2>4. QED
    BY <2>1, <2>2, <2>d, <2>r, <2>3 DEF RingTypeOK
<1>2. PushFits' /\ PopFits'
  BY NAssumption DEF PushFits, PopFits, Size, StaticSize
<1>3. OneThread'
  BY DEF OneThread, Written, Taken
<1>4. QED
  BY <1>1, <1>2, <1>3

\* Every operation of the ring keeps what is known of it.
LEMMA UseInv == RingInv /\ Use => RingInv'
BY PushBeginInv, PushConstructInv, EmplaceMultipleCopyInv, EmplaceMultiplePublishInv,
   FinishInv, PopBeginInv, PopCopyInv, ClearInv
DEF Use, Producer, Consumer
-----------------------------------------------------------------------------
(* The object *)

\* A step of the object is one of its memory, which leaves the ring alone, or
\* one of the ring, which leaves the memory alone.
LEMMA StepInv == IInv /\ [Next]_vars => IInv'
<1> SUFFICES ASSUME IInv, [Next]_vars PROVE IInv'
  OBVIOUS
<1> USE DEF IInv
<1>1. CASE Constructing \/ Destroying
  BY <1>1, MapStepInv, RingUnchanged DEF Constructing, Destroying
<1>2. CASE Using
  BY <1>2, MapUnchanged, UseInv DEF Using
<1>3. CASE UseOfNull
  <2>1. RingInv'
    BY <1>3, RingUnchanged DEF UseOfNull
  <2>2. /\ step = "ready" /\ step' = "crashed"
        /\ UNCHANGED <<tryNum, object, fds, maps, fd0Free, build>>
    BY <1>3 DEF UseOfNull
  <2> USE DEF object, build
  <2>3. MapTypeOK'
    BY <2>2 DEF MapInv, MapTypeOK, Steps
  <2>4. OwnSystem' /\ FileOfTry' /\ ObjectOfTry' /\ NoMapsLeft'
    BY <2>2 DEF MapInv, OwnSystem, FileOfTry, ObjectOfTry, NoMapsLeft,
                LinuxSteps, AppleSteps, ThisBuf, ThisMirror
  <2>5. QED
    BY <2>1, <2>3, <2>4 DEF MapInv
<1>4. CASE UNCHANGED vars
  BY <1>4, MapUnchanged, RingUnchanged DEF vars
<1>5. QED
  BY <1>1, <1>2, <1>3, <1>4 DEF Next

\* From the constructor to the destructor: the memory is what the current try
\* made of it, and the ring what its operations did.
THEOREM ObjectInvariant == Spec => []IInv
<1>1. Init => IInv
  BY MapInitInv, RingInitInv DEF Init, IInv
<1>2. QED
  BY <1>1, StepInv, PTL DEF Spec

\* A constructed ring has its buffer and its mirror, both of the same try, or
\* no memory at all (only without assertions).
THEOREM AlwaysReadyIsMapped == Spec => []ReadyIsMapped
<1>1. IInv => ReadyIsMapped
  BY DEF IInv, MapInv, ObjectOfTry, ReadyIsMapped, NoObject, WholeObject, ThisBuf, ThisMirror
<1>2. QED
  BY <1>1, ObjectInvariant, PTL

\* No failing try and no destructor leaves a file of the ring open, but for
\* descriptor 0.
THEOREM AlwaysFilesClosed == Spec => []FilesClosed
<1>1. IInv => FilesClosed
  BY DEF IInv, MapInv, FileOfTry, FilesClosed
<1>2. QED
  BY <1>1, ObjectInvariant, PTL

\* With assertions nothing of the ring is mapped behind its destructor.
THEOREM AlwaysDestroyedIsUnmapped == Spec => []DestroyedIsUnmapped
<1>1. IInv => DestroyedIsUnmapped
  BY DEF IInv, MapInv, NoMapsLeft, DestroyedIsUnmapped
<1>2. QED
  BY <1>1, ObjectInvariant, PTL

\* The spare cell protects the slot a pop has handed back and not copied yet,
\* from one thread or from two.
THEOREM AlwaysCopyProtected == Spec => []CopyProtected
<1>1. IInv => CopyProtected
  <2> SUFFICES ASSUME IInv, cpc = "copy" PROVE CopyProtected
    BY DEF CopyProtected
  <2> USE DEF IInv, RingInv
  <2>1. rd \in Nat /\ wr \in Nat /\ pwr \in Nat /\ pcnt \in Nat /\ crd \in Nat /\ N \in Nat
    BY NAssumption DEF RingTypeOK
  <2>2. rd = crd + 1 /\ rd <= wr /\ wr - rd <= N - 1
    BY DEF PopFits, PushFits, Size, StaticSize
  <2>3. ASSUME NEW i \in Nat, crd < i, i < crd + N PROVE Cell(i) # Cell(crd)
    BY <2>1, <2>3, CellInjective
  <2>4. ASSUME NEW i \in crd + 1 .. wr - 1 PROVE Cell(i) # Cell(crd)
    BY <2>1, <2>2, <2>3
  <2>5. ASSUME NEW i \in Pushing, i # crd PROVE Cell(i) # Cell(crd)
    <3>1. CASE ppc = "construct"
      <4>1. i = pwr /\ pwr + 1 = wr
        BY <3>1 DEF Pushing, PushFits
      <4>2. QED
        BY <2>1, <2>2, <2>3, <2>5, <4>1
    <3>2. CASE ppc = "copied"
      <4>1. i \in wr .. wr + pcnt - 1 /\ pcnt <= N - 1 - (wr - rd)
        BY <3>2 DEF Pushing, PushFits, Remaining, Size, StaticSize
      <4>2. QED
        BY <2>1, <2>2, <2>3, <4>1
    <3>3. QED
      BY <3>1, <3>2 DEF Pushing
  <2>6. QED
    BY <2>4, <2>5 DEF CopyProtected
<1>2. QED
  BY <1>1, ObjectInvariant, PTL

\* In one thread the n-th pop returns the n-th value pushed.
THEOREM AlwaysPopsInOrder == Spec => []PopsInOrder
<1>1. IInv => PopsInOrder
  BY DEF IInv, RingInv, OneThread, PopsInOrder
<1>2. QED
  BY <1>1, ObjectInvariant, PTL
=============================================================================
