---------------------------- MODULE FunctionStarts ----------------------------
(***************************************************************************)
(* FUNCTION_STARTS: the distances from each function to the next as        *)
(* unsigned LEB128 numbers, read by LEB128Iterator and summed on the way   *)
(* by psum_view.  A byte b is the digit b % Base, and another byte of the  *)
(* same number follows if b >= Base; the code's Base is 128.               *)
(***************************************************************************)
EXTENDS Integers, SequencesExt, FiniteSetsExt

CONSTANT Base

ASSUME BaseAssumption == Base \in Nat /\ Base > 1

More(b) == b >= Base

\* The value of a number: its first byte is the least digit.
Uleb128(number) ==
    LET from[i \in 1 .. Len(number) + 1] ==
            IF i > Len(number) THEN 0 ELSE (number[i] % Base) + Base * from[i + 1]
    IN from[1]

\* bfs::DecodeUleb128: how many bytes the first number takes, and its value.
DecodeUleb128(bytes) ==
    LET n == SelectInSeq(bytes, LAMBDA b : ~More(b))
    IN [nbytes |-> n, val |-> Uleb128(SubSeq(bytes, 1, n))]

\* The number that ends where prev_data ends: it begins behind the last byte
\* before that which ends a number, or where the data begins.
DecodeUleb128Backwards(prev_data) ==
    LET sz == Len(prev_data)
        ends == {i \in 1 .. sz - 1 : ~More(prev_data[i])}
    IN DecodeUleb128(SubSeq(prev_data, 1 + (IF ends = {} THEN 0 ELSE Max(ends)), sz))

-----------------------------------------------------------------------------
\* LEB128Iterator: nbytes = 0 marks the sentinel.
At(idx, read) == [idx |-> idx, nbytes |-> read.nbytes, val |-> read.val]

ReadAt(buf, idx) == At(idx, DecodeUleb128(SubSeq(buf, idx + 1, Len(buf))))

isSentinel(leb) == leb.nbytes = 0

LebNext(buf, leb) ==
    IF leb.idx + leb.nbytes = Len(buf)
      THEN [leb EXCEPT !.idx = Len(buf), !.nbytes = 0]
      ELSE ReadAt(buf, leb.idx + leb.nbytes)

\* operator-- asserts that as many bytes precede as the number it stands on has,
\* the one FOLLOWING the number it is about to read.
PrevAborts(leb) == leb.idx < leb.nbytes

LebPrev(buf, leb) ==
    LET read == DecodeUleb128Backwards(SubSeq(buf, 1, leb.idx))
    IN At(leb.idx - read.nbytes, read)

-----------------------------------------------------------------------------
\* psum_view: an iterator stands on a number and knows the sum of the ones
\* BEFORE it.
PsumBegin(buf, init) == [leb |-> ReadAt(buf, 0), psum |-> init]

\* Mutation of PsumNext: the sum includes the number the iterator stands on.
PsumNextIncluding(buf, it) ==
    LET leb == LebNext(buf, it.leb) IN [leb |-> leb, psum |-> it.psum + leb.val]

PsumNext(buf, it) ==
    [leb |-> LebNext(buf, it.leb), psum |-> it.psum + it.leb.val]

PsumPrev(buf, it) ==
    LET leb == LebPrev(buf, it.leb) IN [leb |-> leb, psum |-> it.psum - leb.val]

\* The positions an iteration visits, up to the sentinel.
Positions(buf, init) ==
    LET step[k \in 1 .. Len(buf) + 1] ==
            IF k = 1 THEN PsumBegin(buf, init)
            ELSE LET prev == step[k - 1]
                 IN IF isSentinel(prev.leb) THEN prev ELSE PsumNext(buf, prev)
    IN SubSeq(step, 1, SelectInSeq(step, LAMBDA it : isSentinel(it.leb)) - 1)

\* Data that ends within a number, which readAndUpdateVal asserts it does not.
BreaksOff(buf) == More(buf[Len(buf)])

\* What the search gives when one of the iterator's assertions fails.
Aborted == -1

\* func_start_for_offsets: the sum before the first one beyond off; the last
\* sum if there is none, and 0 for what precedes them all.
func_start_for_offsets(off, buf, init) ==
    LET offs == Positions(buf, init)
        following_func == SelectInSeq(offs, LAMBDA it : it.psum > off)
    IN IF offs = <<>> THEN Aborted
       ELSE IF off < init THEN 0
       ELSE IF following_func = 0
         THEN IF BreaksOff(buf) THEN Aborted ELSE offs[Len(offs)].psum
       ELSE IF PrevAborts(offs[following_func].leb) THEN Aborted
       ELSE PsumPrev(buf, offs[following_func]).psum

\* file_offsets: the sums begin with the file offset of __TEXT.
func_start_for_file_offset(fileoff, buf, text_seg) ==
    func_start_for_offsets(fileoff, buf, text_seg.fileoff)

-----------------------------------------------------------------------------
\* What the data says: from a first offset on, the sum of the numbers that end
\* at or before each byte.
EndsBefore(buf, i) == {0} \cup {e \in 1 .. i - 1 : ~More(buf[e])}
NumberEndingAt(buf, i) == SubSeq(buf, Max(EndsBefore(buf, i)) + 1, i)
Sums(buf, init) ==
    LET sum[i \in 0 .. Len(buf)] ==
            IF i = 0 THEN init
            ELSE sum[i - 1] + (IF More(buf[i]) THEN 0 ELSE Uleb128(NumberEndingAt(buf, i)))
    IN sum

\* The data is a list of numbers of which the last is 0, and the sums are the
\* functions.
SaysWhere(buf, init, functions) ==
    /\ buf \in Seq(Nat) \ {<<>>}
    /\ ~More(buf[Len(buf)])
    /\ Sums(buf, init)[Len(buf)] = Sums(buf, init)[Len(buf) - 1]
    /\ functions \cup {init} = {Sums(buf, init)[i] : i \in 0 .. Len(buf)}

\* A number has more bytes than all the numbers before it together, of which
\* there is one.
HasOverlong(buf) ==
    \E i \in 1 .. Len(buf) :
        LET before == Max(EndsBefore(buf, i))
        IN ~More(buf[i]) /\ before > 0 /\ i - before > before
=============================================================================
