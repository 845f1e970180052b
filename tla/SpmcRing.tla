------------------------------ MODULE SpmcRing -------------------------------
(***************************************************************************)
(* MultiConsRingBuffer: one producer thread, several consumer threads, as  *)
(* the "triangular numbers" test and tools/jev-ringbuf drive it.           *)
(*                                                                         *)
(* rd is atomic and advanced by compare-and-swap; wr, done and the slots   *)
(* are PLAIN memory that the producer writes while consumers read it.  The *)
(* producer's plain stores are therefore modelled as issued (they enter    *)
(* `pend') and visible later (LandSlot, LandIdx, LandDone).  With Ordered  *)
(* they become visible in program order, as on x86-64; without it in any   *)
(* order, as AArch64 and the compiler may do.  A later push waits for the  *)
(* earlier stores to be visible: exact for x86-64, whose 16-byte load is a *)
(* locked instruction, and a restriction (fewer behaviours) on AArch64.    *)
(***************************************************************************)
EXTENDS RingIndex, Sequences

CONSTANTS
    Consumers,  \* the consumer threads
    NumPush,    \* NUM_PUSH: the producer pushes 1 .. NumPush
    Rounds,     \* how often the ring is cleared and used again (a bound)
    Ordered     \* plain stores are visible in program order

ASSUME ConsumersAssumption == Consumers # {}
ASSUME NumPushAssumption == NumPush \in Nat \ {0}
ASSUME RoundsAssumption == Rounds \in Nat \ {0}
ASSUME OrderedAssumption == Ordered \in BOOLEAN

VARIABLES
    rd, wr,     \* rd_idx_raw, wr_idx_raw
    buf,        \* physical cell -> value
    done,
    ppc,        \* producer: "push", "finish", "end"
    pnext,      \* producer: the loop variable i, the next value to push
    pwr,        \* producer: wr_raw of the latest emplace
    pend,       \* producer: plain stores issued and not visible yet
    cpc,        \* consumer: see CPc
    crd,        \* consumer: rd_raw of its latest pop
    cres,       \* consumer: res of its latest pop
    results,    \* consumer: results[i], every value it popped
    round

shared == <<rd, wr, buf, done>>
producer == <<ppc, pnext, pwr, pend>>
consumers == <<cpc, crd, cres, results>>
vars == <<shared, producer, consumers, round>>

CPc == {"test", "test_empty", "pop", "read", "cas", "exit"}
Stores == {"slot", "idx", "done"}

Init ==
    /\ rd = 0
    /\ wr = 0
    /\ buf = [cell \in 0 .. N - 1 |-> 0]
    /\ done = FALSE
    /\ ppc = "push"
    /\ pnext = 1
    /\ pwr = 0
    /\ pend = {}
    /\ cpc = [c \in Consumers |-> "test"]
    /\ crd = [c \in Consumers |-> 0]
    /\ cres = [c \in Consumers |-> 0]
    /\ results = [c \in Consumers |-> <<>>]
    /\ round = 1

-----------------------------------------------------------------------------
(* The producer: for (i = 1; i <= NUM_PUSH; ++i) push(i); finish();        *)

\* emplace: load both indices at once, spin while full, store the value and
\* then the new wr.  Both stores are plain.
Emplace ==
    /\ ppc = "push"
    /\ pend = {}
    /\ ~Full(rd, wr)
    /\ pwr' = wr
    /\ pend' = {"slot", "idx"}
    /\ pnext' = pnext + 1
    /\ ppc' = IF pnext = NumPush THEN "finish" ELSE "push"
    /\ UNCHANGED <<shared, consumers, round>>

\* Mutations: the new index is issued before the value, and the full value
\* is stored where the new index should be.
EarlierIdxFirst(store) ==
    CASE store = "idx" -> {}
      [] store = "slot" -> {"idx"}
      [] store = "done" -> {"slot", "idx"}
NewWrMixedUp == RdFullVal(pwr)

\* The stores that precede this one in the program.
Earlier(store) ==
    CASE store = "slot" -> {}
      [] store = "idx" -> {"slot"}
      [] store = "done" -> {"slot", "idx"}

\* A plain store becomes visible: in program order, or in any.
MayLand(store) ==
    /\ store \in pend
    /\ Ordered => pend \cap Earlier(store) = {}

NewWr == pwr + 1

\* The store of the value into its slot is visible.
LandSlot ==
    /\ MayLand("slot")
    /\ buf' = [buf EXCEPT ![Cell(pwr)] = pnext - 1]
    /\ pend' = pend \ {"slot"}
    /\ UNCHANGED <<rd, wr, done, ppc, pnext, pwr, consumers, round>>

\* The store wr_idx_raw = wr_raw + 1 is visible.
LandIdx ==
    /\ MayLand("idx")
    /\ wr' = NewWr
    /\ pend' = pend \ {"idx"}
    /\ UNCHANGED <<rd, buf, done, ppc, pnext, pwr, consumers, round>>

\* finish: done = true.
Finish ==
    /\ ppc = "finish"
    /\ ppc' = "end"
    /\ pend' = pend \cup {"done"}
    /\ UNCHANGED <<shared, pnext, pwr, consumers, round>>

\* The store done = true is visible.
LandDone ==
    /\ MayLand("done")
    /\ done' = TRUE
    /\ pend' = pend \ {"done"}
    /\ UNCHANGED <<rd, wr, buf, ppc, pnext, pwr, consumers, round>>

Producer == Emplace \/ LandSlot \/ LandIdx \/ Finish \/ LandDone

-----------------------------------------------------------------------------
(* A consumer: while (!(is_done() && empty())) if (v = pop()) keep v.      *)

\* Mutation of TestDone: done alone ends the loop.
TestDoneExits(c) ==
    /\ cpc[c] = "test"
    /\ cpc' = [cpc EXCEPT ![c] = IF done THEN "exit" ELSE "pop"]
    /\ UNCHANGED <<shared, producer, crd, cres, results, round>>

\* is_done() of the loop condition.
TestDone(c) ==
    /\ cpc[c] = "test"
    /\ cpc' = [cpc EXCEPT ![c] = IF done THEN "test_empty" ELSE "pop"]
    /\ UNCHANGED <<shared, producer, crd, cres, results, round>>

\* empty() of the loop condition: one load of both indices.
TestEmpty(c) ==
    /\ cpc[c] = "test_empty"
    /\ cpc' = [cpc EXCEPT ![c] = IF Empty(rd, wr) THEN "exit" ELSE "pop"]
    /\ UNCHANGED <<shared, producer, crd, cres, results, round>>

\* pop: load both indices; nothing to pop returns to the loop condition.
PopLoad(c) ==
    /\ cpc[c] = "pop"
    /\ \/ /\ Empty(rd, wr)
          /\ cpc' = [cpc EXCEPT ![c] = "test"]
          /\ UNCHANGED crd
       \/ /\ ~Empty(rd, wr)
          /\ cpc' = [cpc EXCEPT ![c] = "read"]
          /\ crd' = [crd EXCEPT ![c] = rd]
    /\ UNCHANGED <<shared, producer, cres, results, round>>

\* pop: copy the value out of the slot, before it is known to be this one's.
PopRead(c) ==
    /\ cpc[c] = "read"
    /\ cres' = [cres EXCEPT ![c] = buf[Cell(crd[c])]]
    /\ cpc' = [cpc EXCEPT ![c] = "cas"]
    /\ UNCHANGED <<shared, producer, crd, results, round>>

\* Mutation of PopCas: a store of rd_raw + 1 instead of the compare-and-swap.
PopStore(c) ==
    /\ cpc[c] = "cas"
    /\ rd' = crd[c] + 1
    /\ results' = [results EXCEPT ![c] = Append(@, cres[c])]
    /\ cpc' = [cpc EXCEPT ![c] = "test"]
    /\ UNCHANGED <<wr, buf, done, producer, crd, cres, round>>

\* pop: compare_exchange_strong(rd_raw, rd_raw + 1).  The winner keeps what
\* it copied, a loser starts the pop again.
PopCas(c) ==
    /\ cpc[c] = "cas"
    /\ \/ /\ rd = crd[c]
          /\ rd' = rd + 1
          /\ results' = [results EXCEPT ![c] = Append(@, cres[c])]
          /\ cpc' = [cpc EXCEPT ![c] = "test"]
       \/ /\ rd # crd[c]
          /\ cpc' = [cpc EXCEPT ![c] = "pop"]
          /\ UNCHANGED <<rd, results>>
    /\ UNCHANGED <<wr, buf, done, producer, crd, cres, round>>

Consumer(c) ==
    TestDone(c) \/ TestEmpty(c) \/ PopLoad(c) \/ PopRead(c) \/ PopCas(c)

-----------------------------------------------------------------------------
\* producer->join() and consumers[i].join() have all returned.
Joined ==
    /\ ppc = "end"
    /\ pend = {}
    /\ \A c \in Consumers : cpc[c] = "exit"

\* Mutation of Cleared: clear() forgets done.
ClearedNotDone ==
    /\ rd' = 0
    /\ wr' = 0
    /\ buf' = [cell \in 0 .. N - 1 |-> 0]
    /\ done' = done

\* clear()
Cleared ==
    /\ rd' = 0
    /\ wr' = 0
    /\ buf' = [cell \in 0 .. N - 1 |-> 0]
    /\ done' = FALSE

\* The tool runs again on the same ring: clear(), empty results, new threads.
Restart ==
    /\ Joined
    /\ round < Rounds
    /\ round' = round + 1
    /\ Cleared
    /\ ppc' = "push"
    /\ pnext' = 1
    /\ pwr' = 0
    /\ pend' = {}
    /\ cpc' = [c \in Consumers |-> "test"]
    /\ crd' = [c \in Consumers |-> 0]
    /\ cres' = [c \in Consumers |-> 0]
    /\ results' = [c \in Consumers |-> <<>>]

\* Nothing is left to run after the last round.
Finished ==
    /\ Joined
    /\ round = Rounds
    /\ UNCHANGED vars

Next ==
    \/ Producer
    \/ \E c \in Consumers : Consumer(c)
    \/ Restart
    \/ Finished

\* The operating system runs every thread that can run and makes every store
\* visible in the end; main() starts the next round.
Fairness ==
    /\ WF_vars(Producer)
    /\ \A c \in Consumers : WF_vars(Consumer(c))
    /\ WF_vars(Restart)

SafeSpec == Init /\ [][Next]_vars
Spec == SafeSpec /\ Fairness

-----------------------------------------------------------------------------
(* Properties.  All but TypeOK hold only when Ordered.                     *)

\* Every variable has the type the code declares; crd and cres are raw
\* indices and values, and only issued stores are pending.
TypeOK ==
    /\ rd \in Nat
    /\ wr \in Nat
    /\ buf \in [0 .. N - 1 -> Nat]
    /\ done \in BOOLEAN
    /\ ppc \in {"push", "finish", "end"}
    /\ pnext \in Nat \ {0}
    /\ pwr \in Nat
    /\ pend \subseteq Stores
    /\ cpc \in [Consumers -> CPc]
    /\ crd \in [Consumers -> Nat]
    /\ cres \in [Consumers -> Nat]
    /\ results \in [Consumers -> Seq(Nat)]
    /\ round \in 1 .. Rounds

\* Every element between rd and wr is in its cell and is the one the producer
\* pushed for that index, however often the ring has wrapped, and rd <= wr as
\* the assertions of pop, full and empty say (RingBuffer.h:105, 171, 249).
WindowIntact ==
    /\ rd <= wr
    /\ Size(rd, wr) <= StaticSize
    /\ \A i \in rd .. wr - 1 : buf[Cell(i)] = i + 1

\* A consumer whose compare-and-swap would succeed copied the element of that
\* index: the copy was taken before the swap, from a slot the producer may
\* since have reused, and only the unmoved rd says that it did not.
CasValid ==
    \A c \in Consumers :
        cpc[c] = "cas" /\ crd[c] = rd => rd < wr /\ cres[c] = rd + 1

\* Each consumer sees the elements in the order they were pushed
\* (RingBufferTest.cpp:184, and the "ordering violation" lines of the tool).
IsSorted ==
    \A c \in Consumers : \A i, j \in DOMAIN results[c] :
        i < j => results[c][i] < results[c][j]

\* What has been popped so far is exactly 1 .. rd, each value by one consumer:
\* no element is skipped, and none is handed out twice.
PoppedOnce ==
    /\ \A v \in 1 .. rd :
          \E c \in Consumers : \E i \in DOMAIN results[c] : results[c][i] = v
    /\ \A c \in Consumers : \A i \in DOMAIN results[c] :
          results[c][i] \in 1 .. rd
    /\ \A c, d \in Consumers :
          \A i \in DOMAIN results[c], j \in DOMAIN results[d] :
              results[c][i] = results[d][j] => c = d /\ i = j

\* When all threads have been joined, every element was popped and none is
\* left in the ring: the sizes and the sum of the results are what the test
\* and the tool expect (RingBufferTest.cpp:187-188, jev-ringbuf.cpp:109-110).
AllPopped == Joined => rd = NumPush /\ wr = NumPush /\ PoppedOnce

\* Every round ends: no thread spins for ever in push, pop or the loop, and
\* the last round is reached.
Terminates == <>[](Joined /\ round = Rounds)

\* What a push in flight owes: its slot is free until the new wr is visible,
\* its value is in the slot before that, and done comes last.
PushInFlight ==
    /\ "slot" \in pend => "idx" \in pend
    /\ "idx" \in pend =>
          /\ pwr = wr
          /\ pnext = wr + 2
          /\ Size(rd, wr) < StaticSize
          /\ "slot" \notin pend => buf[Cell(wr)] = wr + 1
    /\ "idx" \notin pend => pnext = wr + 1
    /\ pnext <= NumPush + 1
    /\ ppc # "push" <=> pnext = NumPush + 1
    /\ ppc = "end" <=> done \/ "done" \in pend
    /\ done => pend = {}

\* What a consumer knows between its steps.
PopInFlight ==
    \A c \in Consumers :
        /\ cpc[c] \in {"read", "cas"} =>
              /\ crd[c] <= rd
              /\ crd[c] = rd => rd < wr
        /\ cpc[c] = "test_empty" => done
        /\ cpc[c] = "exit" => done /\ rd = wr

\* What every thread knows between its steps: with TypeOK, WindowIntact and
\* CasValid this is what makes the other properties inductive.
InFlight == PushInFlight /\ PopInFlight

\* The inductive invariant: every part of it holds because of the others.
IInv ==
    /\ TypeOK
    /\ WindowIntact
    /\ PushInFlight
    /\ PopInFlight
    /\ CasValid
    /\ IsSorted
    /\ PoppedOnce

\* The ring is a bounded FIFO queue: an element enters when the new wr becomes
\* visible and leaves with the successful compare-and-swap.
Contents == [k \in 1 .. Size(rd, wr) |-> buf[Cell(rd + k - 1)]]

Queue == INSTANCE FifoQueue WITH
    Capacity <- StaticSize,
    queue <- Contents,
    pushed <- wr,
    closed <- done,
    taken <- results

ImplementsQueue == Queue!Spec
=============================================================================
