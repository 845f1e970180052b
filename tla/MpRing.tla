------------------------------- MODULE MpRing --------------------------------
(***************************************************************************)
(* MultiProdRingBuffer and MultiProdConsRingBuffer: several producers      *)
(* compete for wr by compare-and-swap.  emplace constructs its value in    *)
(* the slot BEFORE the swap that claims it.  With MultiCons the consumers  *)
(* compete for rd in the same way; without it the only consumer advances   *)
(* rd and copies the value afterwards.  Every swap and every load of the   *)
(* index pair is sequentially consistent, and each orders the plain slot   *)
(* accesses before it, so the steps are visible in program order.          *)
(***************************************************************************)
EXTENDS RingIndex, Sequences, FiniteSets

CONSTANTS
    Producers,
    Consumers,
    Total           \* how many values are pushed, divided among the producers

ASSUME MpAssumption ==
    /\ Total \in Nat \ {0}
    /\ Producers # {} /\ IsFiniteSet(Producers)
    /\ Consumers # {} /\ IsFiniteSet(Consumers)

VARIABLES
    rd, wr,
    buf,        \* physical cell -> value
    ppc,        \* producer: "load", "store", "cas", "end"
    pwr,        \* producer: wr_raw
    pushed,     \* producer -> pushes that have returned
    cpc,        \* consumer: "load", "read", "cas"
    crd,        \* consumer: rd_raw
    cres,       \* consumer: res
    popped,     \* consumer -> what it popped, in order
    MultiCons,  \* the class: MultiProdConsRingBuffer, or MultiProdRingBuffer
    producers, consumers    \* the threads the program starts, of all possible

prodVars == <<ppc, pwr, pushed>>
consVars == <<cpc, crd, cres, popped>>
program == <<MultiCons, producers, consumers>>
vars == <<rd, wr, buf, prodVars, consVars, program>>

\* How many values each producer pushes, and the k-th of producer p; Zero is fresh memory.
Quota == Total \div Cardinality(producers)
Value(p, k) == <<p, k>>
Zero == <<>>

Init ==
    /\ rd = 0
    /\ wr = 0
    /\ buf = [cell \in 0 .. N - 1 |-> Zero]
    /\ ppc = [p \in Producers |-> "load"]
    /\ pwr = [p \in Producers |-> 0]
    /\ pushed = [p \in Producers |-> 0]
    /\ cpc = [c \in Consumers |-> "load"]
    /\ crd = [c \in Consumers |-> 0]
    /\ cres = [c \in Consumers |-> Zero]
    /\ popped = [c \in Consumers |-> <<>>]
    /\ MultiCons \in BOOLEAN
    /\ producers \in SUBSET Producers \ {{}}
    /\ consumers \in SUBSET Consumers \ {{}}
    /\ MultiCons \/ Cardinality(consumers) = 1

-----------------------------------------------------------------------------
\* Mutation of PushLoad: the value is not constructed before the swap.
PushLoadNoStore(p) ==
    /\ ppc[p] = "load"
    /\ ~Full(rd, wr)
    /\ pwr' = [pwr EXCEPT ![p] = wr]
    /\ ppc' = [ppc EXCEPT ![p] = "cas"]
    /\ UNCHANGED <<rd, wr, buf, pushed, consVars, program>>

\* emplace: load both indices and go round again while the ring is full.
PushLoad(p) ==
    /\ ppc[p] = "load"
    /\ ~Full(rd, wr)
    /\ pwr' = [pwr EXCEPT ![p] = wr]
    /\ ppc' = [ppc EXCEPT ![p] = "store"]
    /\ UNCHANGED <<rd, wr, buf, pushed, consVars, program>>

\* emplace: construct the value in a slot that is not claimed yet.
PushStore(p) ==
    /\ ppc[p] = "store"
    /\ buf' = [buf EXCEPT ![Cell(pwr[p])] = Value(p, pushed[p] + 1)]
    /\ ppc' = [ppc EXCEPT ![p] = "cas"]
    /\ UNCHANGED <<rd, wr, pwr, pushed, consVars, program>>

\* emplace: compare_exchange_strong(wr_raw, wr_raw + 1); the loser starts over.
PushCas(p) ==
    /\ ppc[p] = "cas"
    /\ \/ /\ wr = pwr[p]
          /\ wr' = wr + 1
          /\ pushed' = [pushed EXCEPT ![p] = @ + 1]
          /\ ppc' = [ppc EXCEPT ![p] =
                        IF pushed'[p] = Quota THEN "end" ELSE "load"]
       \/ /\ wr # pwr[p]
          /\ ppc' = [ppc EXCEPT ![p] = "load"]
          /\ UNCHANGED <<wr, pushed>>
    /\ UNCHANGED <<rd, buf, pwr, consVars, program>>

-----------------------------------------------------------------------------
\* pop with several consumers: load both indices; an empty ring returns.
PopLoad(c) ==
    /\ MultiCons
    /\ cpc[c] = "load"
    /\ ~Empty(rd, wr)
    /\ crd' = [crd EXCEPT ![c] = rd]
    /\ cpc' = [cpc EXCEPT ![c] = "read"]
    /\ UNCHANGED <<rd, wr, buf, prodVars, cres, popped, program>>

\* pop with several consumers: copy the slot before claiming it.
PopRead(c) ==
    /\ MultiCons
    /\ cpc[c] = "read"
    /\ cres' = [cres EXCEPT ![c] = buf[Cell(crd[c])]]
    /\ cpc' = [cpc EXCEPT ![c] = "cas"]
    /\ UNCHANGED <<rd, wr, buf, prodVars, crd, popped, program>>

\* Mutation of PopCas: a store instead of the compare-and-swap.
PopStore(c) ==
    /\ cpc[c] = "cas"
    /\ rd' = crd[c] + 1
    /\ popped' = [popped EXCEPT ![c] = Append(@, cres[c])]
    /\ cpc' = [cpc EXCEPT ![c] = "load"]
    /\ UNCHANGED <<wr, buf, prodVars, crd, cres, program>>

\* pop with several consumers: compare_exchange_strong(rd_raw, rd_raw + 1).
PopCas(c) ==
    /\ cpc[c] = "cas"
    /\ \/ /\ rd = crd[c]
          /\ rd' = rd + 1
          /\ popped' = [popped EXCEPT ![c] = Append(@, cres[c])]
       \/ /\ rd # crd[c]
          /\ UNCHANGED <<rd, popped>>
    /\ cpc' = [cpc EXCEPT ![c] = "load"]
    /\ UNCHANGED <<wr, buf, prodVars, crd, cres, program>>

\* pop of the only consumer: not empty, so rd_idx_raw++ ...
PopBump(c) ==
    /\ ~MultiCons
    /\ cpc[c] = "load"
    /\ ~Empty(rd, wr)
    /\ crd' = [crd EXCEPT ![c] = rd]
    /\ rd' = rd + 1
    /\ cpc' = [cpc EXCEPT ![c] = "read"]
    /\ UNCHANGED <<wr, buf, prodVars, cres, popped, program>>

\* ... and then the value is moved out of the slot.
PopCopy(c) ==
    /\ ~MultiCons
    /\ cpc[c] = "read"
    /\ popped' = [popped EXCEPT ![c] = Append(@, buf[Cell(crd[c])])]
    /\ cpc' = [cpc EXCEPT ![c] = "load"]
    /\ UNCHANGED <<rd, wr, buf, prodVars, crd, cres, program>>

Producer(p) == PushLoad(p) \/ PushStore(p) \/ PushCas(p)

Consumer(c) ==
    PopLoad(c) \/ PopRead(c) \/ PopCas(c) \/ PopBump(c) \/ PopCopy(c)

\* Every push has returned and every pop finds the ring empty.
Drained ==
    /\ \A p \in producers : ppc[p] = "end"
    /\ \A c \in consumers : cpc[c] = "load"
    /\ Empty(rd, wr)

Finished == Drained /\ UNCHANGED vars

Next ==
    \/ \E p \in producers : Producer(p)
    \/ \E c \in consumers : Consumer(c)
    \/ Finished

SafeSpec == Init /\ [][Next]_vars

\* Every thread that can take a step takes one in the end.
Spec ==
    /\ SafeSpec
    /\ \A p \in Producers : WF_vars(p \in producers /\ Producer(p))
    /\ \A c \in Consumers : WF_vars(c \in consumers /\ Consumer(c))

-----------------------------------------------------------------------------
PoppedBy(c) == {popped[c][i] : i \in DOMAIN popped[c]}
Popped == UNION {PoppedBy(c) : c \in consumers}
Pops == UNION {{c} \X DOMAIN popped[c] : c \in consumers}
Pushed == {Value(p, k) : p \in producers, k \in 1 .. Quota}

\* A producer that passed the full test on a stale pair of indices still never
\* makes the ring hold more than static_size elements when its swap succeeds:
\* rd can only have grown and wr has not moved (RingBuffer.h:105, 171).
NoOverrun == 0 <= Size(rd, wr) /\ Size(rd, wr) <= StaticSize

\* No pop ever returns a slot nobody has written: a slot is written before wr
\* passes it.
NothingUnwritten ==
    /\ Zero \notin Popped
    /\ \A i \in rd .. wr - 1 : buf[Cell(i)] # Zero

\* A value is popped at most as often as swaps succeeded: the numbers agree at
\* the end even where the values do not.
CountPreserved == Drained => Cardinality(Pops) = Cardinality(producers) * Quota

\* With one producer, what was pushed is what is popped, each value once (with
\* CountPreserved).  With two the loser of the swap has already overwritten the
\* winner's published value, so only the number of values is right.
EveryValuePopped ==
    Drained /\ Cardinality(producers) = 1 => Popped = Pushed

\* Whoever loses a race starts again, but every push returns in the end and
\* the ring is drained.
AllPushesReturn == <>[]Drained
=============================================================================
