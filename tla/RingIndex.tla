------------------------------ MODULE RingIndex ------------------------------
(***************************************************************************)
(* Index arithmetic of RingBufferBase (include/jevmachopp/RingBuffer.h).   *)
(* Two raw counters, rd and wr, only ever grow; a raw counter is masked to *)
(* the doubly mapped buffer (2 * N slots of address space, N physical      *)
(* cells), and the second half of the mapping is the mirror of the first.  *)
(* The counters are 64 bits wide in every build the source accepts, so the *)
(* wrap at 2^64 pushes is left out and they are natural numbers here.      *)
(***************************************************************************)
EXTENDS Integers

CONSTANT N      \* static_size_raw: a page multiple over sizeof(T)

ASSUME NAssumption == N \in Nat \ {0}

\* static_size: one physical cell always stays empty.
StaticSize == N - 1

\* raw & idx_mask, with idx_mask = 2 * static_size_raw - 1 (a power of 2).
Masked(raw) == raw % (2 * N)

\* Slots N .. 2N-1 of the mapping are the mirror of slots 0 .. N-1.
PhysicalCell(slot) == slot % N

\* The cell that holds the element with this raw index.
Cell(raw) == PhysicalCell(Masked(raw))

\* The value of rd at which a ring with this wr is full.
RdFullVal(wr) == wr - N + 1

\* Mutations of Full: no spare cell, no test at all, and full taken for empty.
FullNoSpare(rd, wr) == rd = RdFullVal(wr) - 1
FullNever(rd, wr) == FALSE
FullWhenEmpty(rd, wr) == rd = wr

Full(rd, wr) == rd = RdFullVal(wr)
Empty(rd, wr) == rd = wr
Size(rd, wr) == wr - rd

Remaining(rd, wr) == StaticSize - Size(rd, wr)
=============================================================================
