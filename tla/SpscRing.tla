------------------------------ MODULE SpscRing -------------------------------
(***************************************************************************)
(* RingBuffer: one producer and one consumer, no atomics.  The indices are *)
(* plain counters and both operations advance theirs FIRST: emplace bumps  *)
(* wr while it computes the slot's address and constructs the value there  *)
(* afterwards, pop bumps rd and copies the value out afterwards.           *)
(*                                                                         *)
(* `threads' says whether producer and consumer are two threads: the tests *)
(* call both from one; the comments of full() and empty() speak of         *)
(* "others" that update the other index.  The steps are executed in the    *)
(* order of the C++ abstract machine and visible at once.  RingObject      *)
(* composes the ring with the memory it lives in.                          *)
(***************************************************************************)
EXTENDS RingIndex, Sequences

CONSTANTS
    MaxPush,        \* elements pushed before a clear (a bound)
    Rounds          \* uses of the ring, with a clear between (a bound)

ASSUME SpscAssumption ==
    /\ MaxPush \in Nat \ {0}
    /\ Rounds \in Nat \ {0}

VARIABLES
    rd, wr, done,
    buf,        \* physical cell -> value
    ppc,        \* producer: "idle", "construct", "copied"
    pwr, pcnt,  \* producer: raw index and number of the elements being pushed
    pushed,     \* values the producer has pushed since the last clear: 1, 2, ..
    cpc, crd,   \* consumer: "idle" or "copy", raw index being popped
    popped,     \* every value popped since the last clear
    strayed,    \* emplace_multiple copied past the end of the mapping
    round,
    threads     \* 1 or 2, chosen when the program starts

context == <<strayed, round, threads>>
ringVars == <<rd, wr, done, buf, ppc, pwr, pcnt, pushed, cpc, crd, popped, context>>

EmptyBuf == [cell \in 0 .. N - 1 |-> 0]

RingInit ==
    /\ rd = 0 /\ wr = 0 /\ done = FALSE
    /\ buf = EmptyBuf
    /\ ppc = "idle" /\ pwr = 0 /\ pcnt = 0 /\ pushed = 0
    /\ cpc = "idle" /\ crd = 0
    /\ popped = <<>>
    /\ strayed = FALSE
    /\ round = 1
    /\ threads \in {1, 2}

\* In one thread an operation returns before the next one starts.
ProducerMayStart == ppc = "idle" /\ (threads = 2 \/ cpc = "idle")
ConsumerMayStart == cpc = "idle" /\ (threads = 2 \/ ppc = "idle")

\* push: assert(!full()); new (&m_buf[wr_idx_raw++ & idx_mask]) ...
PushBegin ==
    /\ ProducerMayStart
    /\ ~done
    /\ pushed < MaxPush
    /\ ~Full(rd, wr)
    /\ pwr' = wr
    /\ wr' = wr + 1
    /\ pushed' = pushed + 1
    /\ ppc' = "construct"
    /\ UNCHANGED <<rd, done, buf, pcnt, cpc, crd, popped, context>>

\* ... value_type{...}: the value is constructed in the slot already counted.
PushConstruct ==
    /\ ppc = "construct"
    /\ buf' = [buf EXCEPT ![Cell(pwr)] = pushed]
    /\ ppc' = "idle"
    /\ UNCHANGED <<rd, wr, done, pwr, pcnt, pushed, cpc, crd, popped, context>>

\* emplace_multiple: assert(span.size() <= remaining()); memcpy to the slots
\* from wr_idx() on.  The mirror makes slots N .. 2N-1 usable; a copy that
\* starts in the mirror may run past it.
EmplaceMultipleCopy(n) ==
    /\ ProducerMayStart
    /\ ~done
    /\ pushed + n <= MaxPush
    /\ n <= Remaining(rd, wr)
    /\ LET copied == {i \in wr .. wr + n - 1 : Masked(wr) + (i - wr) < 2 * N}
           ValueFor(cell) == {pushed + i - wr + 1 : i \in {j \in copied : Cell(j) = cell}}
       IN /\ buf' = [cell \in 0 .. N - 1 |->
                        IF ValueFor(cell) = {} THEN buf[cell]
                        ELSE CHOOSE v \in ValueFor(cell) : TRUE]
          /\ strayed' = (strayed \/ copied # wr .. wr + n - 1)
    /\ pwr' = wr
    /\ pcnt' = n
    /\ pushed' = pushed + n
    /\ ppc' = "copied"
    /\ UNCHANGED <<rd, wr, done, cpc, crd, popped, round, threads>>

\* Mutation of EmplaceMultiplePublish: one element is counted.
EmplaceMultiplePublishOne ==
    /\ ppc = "copied"
    /\ wr' = wr + 1
    /\ ppc' = "idle"
    /\ UNCHANGED <<rd, done, buf, pwr, pcnt, pushed, cpc, crd, popped, context>>

\* emplace_multiple: wr_idx_raw += span.size().
EmplaceMultiplePublish ==
    /\ ppc = "copied"
    /\ wr' = wr + pcnt
    /\ ppc' = "idle"
    /\ UNCHANGED <<rd, done, buf, pwr, pcnt, pushed, cpc, crd, popped, context>>

\* finish: assert(!is_done()); done = true.
Finish ==
    /\ ProducerMayStart
    /\ ~done
    /\ done' = TRUE
    /\ UNCHANGED <<rd, wr, buf, ppc, pwr, pcnt, pushed, cpc, crd, popped, context>>

\* pop: empty() returns nothing and changes nothing; otherwise rd_idx_raw++,
\* which hands the slot back to the producer.  Only this thread moves rd, so
\* loading wr and advancing rd may be one step.
PopBegin ==
    /\ ConsumerMayStart
    /\ ~Empty(rd, wr)
    /\ crd' = rd
    /\ rd' = rd + 1
    /\ cpc' = "copy"
    /\ UNCHANGED <<wr, done, buf, ppc, pwr, pcnt, pushed, popped, context>>

\* pop: the value is moved out of the slot already handed back.
PopCopy ==
    /\ cpc = "copy"
    /\ popped' = Append(popped, buf[Cell(crd)])
    /\ cpc' = "idle"
    /\ UNCHANGED <<rd, wr, done, buf, ppc, pwr, pcnt, pushed, crd, context>>

\* clear: both indices, the memory and done; whoever uses the ring is idle.
Clear ==
    /\ ppc = "idle" /\ cpc = "idle"
    /\ done
    /\ round < Rounds
    /\ round' = round + 1
    /\ rd' = 0 /\ wr' = 0 /\ done' = FALSE
    /\ buf' = EmptyBuf
    /\ pushed' = 0
    /\ popped' = <<>>
    /\ UNCHANGED <<ppc, pwr, pcnt, cpc, crd, strayed, threads>>

Producer ==
    \/ PushBegin
    \/ PushConstruct
    \/ \E n \in 1 .. StaticSize : EmplaceMultipleCopy(n)
    \/ EmplaceMultiplePublish
    \/ Finish

Consumer == PopBegin \/ PopCopy

Use == Producer \/ Consumer \/ Clear

-----------------------------------------------------------------------------
\* What comes out is what went in, in the same order and from the first on:
\* the n-th pop since the ring was cleared returns the n-th value pushed, as
\* long as one thread makes all calls (the plain ring counts an element before
\* it exists) and no copy has left the mapping (CopyInMapping).
PopsInOrder == threads = 1 /\ ~strayed => \A i \in DOMAIN popped : popped[i] = i

\* The raw indices the producer is writing, or has written and not yet counted.
Pushing ==
    CASE ppc = "construct" -> {pwr}
      [] ppc = "copied" -> pwr .. pwr + pcnt - 1
      [] OTHER -> {}

\* The one cell that always stays empty protects a pop that has handed its
\* slot back and not copied it yet: no later push uses that cell, even when
\* the ring was full and the producer refills it at once.
CopyProtected ==
    cpc = "copy" =>
        /\ \A i \in Pushing : i # crd => Cell(i) # Cell(crd)
        /\ \A i \in crd + 1 .. wr - 1 : Cell(i) # Cell(crd)

\* A copy that fits in remaining() elements stays inside the two mappings:
\* its assertion (RingBuffer.h:130) asks for nothing else.
CopyInMapping == ~strayed
=============================================================================
