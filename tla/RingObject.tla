----------------------------- MODULE RingObject ------------------------------
(***************************************************************************)
(* A RingBuffer object from its constructor to its destructor: RingMap     *)
(* makes and frees the memory, SpscRing is its use in between.             *)
(*                                                                         *)
(* A release build may construct a ring whose pointers are null; its first *)
(* element is written through them.  The object is destroyed by a caller   *)
(* that has returned from every operation (the tests and the tool join     *)
(* their threads before the ring leaves its scope).                        *)
(***************************************************************************)
EXTENDS RingMap, SpscRing

vars == <<mapVars, ringVars>>

Init == MapInit /\ RingInit

Constructing == Construct /\ UNCHANGED ringVars

InOperation == ppc # "idle" \/ cpc # "idle"

Using ==
    /\ step = "ready"
    /\ m_buf = "mapped" \/ (~InOperation /\ ~done)
    /\ Use
    /\ UNCHANGED mapVars

\* A slot is written or read, or the buffer cleared, through a null pointer.
UseOfNull ==
    /\ step = "ready"
    /\ m_buf = "null"
    /\ InOperation \/ done
    /\ step' = "crashed"
    /\ UNCHANGED <<tryNum, object, fds, maps, fd0Free, build, ringVars>>

Destroying ==
    /\ Destroy
    /\ ~InOperation
    /\ UNCHANGED ringVars

Next ==
    \/ Constructing
    \/ Using
    \/ UseOfNull
    \/ Destroying

Spec == Init /\ [][Next]_vars /\ WF_vars(Constructing)
=============================================================================
