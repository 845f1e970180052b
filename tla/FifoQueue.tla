------------------------------ MODULE FifoQueue ------------------------------
(***************************************************************************)
(* What a ring buffer promises to one producer and a set of consumers: a   *)
(* first-in first-out queue of bounded capacity.  The producer pushes      *)
(* 1, 2, .. NumPush and closes the queue; whoever takes, takes the head.   *)
(* When all is taken the queue may be reused for another round.            *)
(***************************************************************************)
EXTENDS Integers, Sequences

CONSTANTS Capacity, NumPush, Consumers, Rounds

VARIABLES
    queue,      \* elements pushed and not yet taken, oldest first
    pushed,     \* how many elements this round's producer has pushed
    closed,     \* the producer will push no more
    taken,      \* consumer -> the elements it took, in order
    round

vars == <<queue, pushed, closed, taken, round>>

Init ==
    /\ queue = <<>>
    /\ pushed = 0
    /\ closed = FALSE
    /\ taken = [c \in Consumers |-> <<>>]
    /\ round = 1

Push ==
    /\ pushed < NumPush
    /\ Len(queue) < Capacity
    /\ queue' = Append(queue, pushed + 1)
    /\ pushed' = pushed + 1
    /\ UNCHANGED <<closed, taken, round>>

Take(c) ==
    /\ queue # <<>>
    /\ taken' = [taken EXCEPT ![c] = Append(@, Head(queue))]
    /\ queue' = Tail(queue)
    /\ UNCHANGED <<pushed, closed, round>>

Close ==
    /\ pushed = NumPush
    /\ ~closed
    /\ closed' = TRUE
    /\ UNCHANGED <<queue, pushed, taken, round>>

Reuse ==
    /\ closed
    /\ queue = <<>>
    /\ round < Rounds
    /\ round' = round + 1
    /\ pushed' = 0
    /\ closed' = FALSE
    /\ taken' = [c \in Consumers |-> <<>>]
    /\ UNCHANGED queue

Next == Push \/ Close \/ Reuse \/ \E c \in Consumers : Take(c)

SafeSpec == Init /\ [][Next]_vars

\* Everything pushed is taken, every round is closed and followed by the next.
Spec == SafeSpec /\ WF_vars(Next)
=============================================================================
