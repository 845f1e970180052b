------------------------------- MODULE RingMap -------------------------------
(***************************************************************************)
(* Construction and destruction of a ring buffer's memory, tried           *)
(* MMAP_MAX_TRIES times.  On Linux it is an anonymous file, its mapping    *)
(* and the mapping again behind it (the mirror); on Apple's systems twice  *)
(* the memory is mapped, its second half cut off and the first half mapped *)
(* again in its place.  Any system call may fail.  In a build with NDEBUG  *)
(* the assertions are compiled out, and with them the munmap calls that    *)
(* are written inside assert().                                            *)
(***************************************************************************)
EXTENDS Integers

CONSTANT MMAP_MAX_TRIES

ASSUME TriesAssumption == MMAP_MAX_TRIES \in Nat \ {0}

VARIABLES
    step,       \* the next call: "memfd", "ftruncate", "map", "mirror" on Linux,
                \* "map both", "cut", "remap" on Apple's; then "check",
                \* "ready" (constructed), "close", "gone" (destroyed), "aborted", "crashed"
    tryNum,
    m_memfd,    \* a file descriptor, or -1 as NoFd
    m_buf, m_buf_mirror,    \* "null", "mapped" or "failed" (MAP_FAILED)
    fds,        \* descriptors the process has open for the ring
    maps,       \* mappings that exist: <<"buf" or "mirror", the try that made it>>
    fd0Free,    \* standard input is closed, so a new descriptor may be number 0
    apple,      \* the build is for one of Apple's systems
    NDebug      \* the build defines NDEBUG

object == <<m_memfd, m_buf, m_buf_mirror>>
build == <<apple, NDebug>>
mapVars == <<step, tryNum, object, fds, maps, fd0Free, build>>

NoFd == -1

FirstStep == IF apple THEN "map both" ELSE "memfd"

MapInit ==
    /\ apple \in BOOLEAN
    /\ step = FirstStep
    /\ tryNum = 0
    /\ m_memfd = NoFd
    /\ m_buf = "null"
    /\ m_buf_mirror = "null"
    /\ fds = {}
    /\ maps = {}
    /\ fd0Free \in IF apple THEN {FALSE} ELSE BOOLEAN
    /\ NDebug \in BOOLEAN

\* Mutation of Continue: tries are not counted.
ContinueUncounted ==
    /\ tryNum' = tryNum
    /\ step' = FirstStep

\* continue: the loop condition decides between another try and the last check.
Continue ==
    /\ tryNum' = tryNum + 1
    /\ step' = IF tryNum + 1 < MMAP_MAX_TRIES THEN FirstStep ELSE "check"

\* memfd_create; a result of 0 is a descriptor that is treated as an error.
MemfdCreate ==
    /\ step = "memfd"
    /\ \/ /\ ~fd0Free
          /\ m_memfd' = tryNum + 3
          /\ fds' = fds \cup {tryNum + 3}
          /\ step' = "ftruncate"
          /\ UNCHANGED <<tryNum, fd0Free>>
       \/ /\ fd0Free
          /\ m_memfd' = 0
          /\ fds' = fds \cup {0}
          /\ fd0Free' = FALSE
          /\ Continue
       \/ /\ m_memfd' = NoFd
          /\ Continue
          /\ UNCHANGED <<fds, fd0Free>>
    /\ UNCHANGED <<m_buf, m_buf_mirror, maps, build>>

\* Mutation of Ftruncate: the failing path does not close the file.
FtruncateKeepsFile ==
    /\ step = "ftruncate"
    /\ \/ /\ step' = "map"
          /\ UNCHANGED <<tryNum, m_memfd, fds>>
       \/ /\ m_memfd' = NoFd
          /\ Continue
          /\ UNCHANGED fds
    /\ UNCHANGED <<m_buf, m_buf_mirror, maps, fd0Free, build>>

\* ftruncate; on failure the file is closed and the next try begins.
Ftruncate ==
    /\ step = "ftruncate"
    /\ \/ /\ step' = "map"
          /\ UNCHANGED <<tryNum, m_memfd, fds>>
       \/ /\ fds' = fds \ {m_memfd}
          /\ m_memfd' = NoFd
          /\ Continue
    /\ UNCHANGED <<m_buf, m_buf_mirror, maps, fd0Free, build>>

\* mmap of the buffer.  A failure is MAP_FAILED, which is not null: the code
\* takes it for a buffer and stores 0xdeadbeef through it.
MapBuffer ==
    /\ step = "map"
    /\ \/ /\ m_buf' = "mapped"
          /\ m_buf_mirror' = "mapped"
          /\ maps' = maps \cup {<<"buf", tryNum>>}
          /\ step' = "mirror"
       \/ /\ step' = "crashed"
          /\ UNCHANGED <<m_buf, m_buf_mirror, maps>>
    /\ UNCHANGED <<tryNum, m_memfd, fds, fd0Free, build>>

\* mmap of the mirror.  On failure the result is MAP_FAILED and the assertion
\* that it is null stops a debug build; a release build forgets the buffer
\* without the munmap, closes the file and tries again.
MapMirror ==
    /\ step = "mirror"
    /\ \/ /\ maps' = maps \cup {<<"mirror", tryNum>>}
          /\ step' = "check"
          /\ UNCHANGED <<tryNum, object, fds>>
       \/ /\ ~NDebug
          /\ step' = "aborted"
          /\ UNCHANGED <<tryNum, object, fds, maps>>
       \/ /\ NDebug
          /\ m_buf_mirror' = "null"
          /\ m_buf' = "null"
          /\ fds' = fds \ {m_memfd}
          /\ m_memfd' = NoFd
          /\ Continue
          /\ UNCHANGED maps
    /\ UNCHANGED <<fd0Free, build>>

\* mmap of twice the memory.  Here too a failure is not null.
MapBoth ==
    /\ step = "map both"
    /\ step' = "cut"
    /\ \/ /\ m_buf' = "mapped"
          /\ m_buf_mirror' = "mapped"
          /\ maps' = maps \cup {<<"buf", tryNum>>, <<"mirror", tryNum>>}
       \/ /\ m_buf' = "failed"
          /\ m_buf_mirror' = "failed"
          /\ UNCHANGED maps
    /\ UNCHANGED <<tryNum, m_memfd, fds, fd0Free, build>>

\* munmap of the second half, which fails at once behind a mapping that has
\* failed.  Then the rest is unmapped in an assertion that this succeeds, which
\* a release build does not do, and the next try begins.
CutMirror ==
    /\ step = "cut"
    /\ \/ /\ m_buf = "mapped"
          /\ maps' = maps \ {<<"mirror", tryNum>>}
          /\ step' = "remap"
          /\ UNCHANGED <<tryNum, object>>
       \/ /\ ~NDebug
          /\ step' = "aborted"
          /\ UNCHANGED <<tryNum, object, maps>>
       \/ /\ NDebug \/ m_buf = "mapped"
          /\ maps' = IF NDebug THEN maps ELSE maps \ {<<"buf", tryNum>>, <<"mirror", tryNum>>}
          /\ m_buf' = "null"
          /\ m_buf_mirror' = "null"
          /\ Continue
          /\ UNCHANGED m_memfd
    /\ UNCHANGED <<fds, fd0Free, build>>

\* vm_remap.  A failure drops the buffer in the same way, but goes on to the
\* end of the loop: there is no other try.
Remap ==
    /\ step = "remap"
    /\ \/ /\ maps' = maps \cup {<<"mirror", tryNum>>}
          /\ step' = "check"
          /\ UNCHANGED object
       \/ /\ ~NDebug
          /\ step' = "aborted"
          /\ UNCHANGED <<object, maps>>
       \/ /\ maps' = IF NDebug THEN maps ELSE maps \ {<<"buf", tryNum>>}
          /\ m_buf' = "null"
          /\ m_buf_mirror' = "null"
          /\ step' = "check"
          /\ UNCHANGED m_memfd
    /\ UNCHANGED <<tryNum, fds, fd0Free, build>>

\* Mutation of FinalCheck: the assertion is dropped.
FinalCheckNone ==
    /\ step = "check"
    /\ step' = "ready"
    /\ UNCHANGED <<tryNum, object, fds, maps, fd0Free, build>>

\* assert(m_buf && m_buf_mirror) after the loop.
FinalCheck ==
    /\ step = "check"
    /\ step' = IF ~NDebug /\ "null" \in {m_buf, m_buf_mirror}
                 THEN "aborted" ELSE "ready"
    /\ UNCHANGED <<tryNum, object, fds, maps, fd0Free, build>>

\* Mutation of Unmap: the mirror is forgotten.
UnmapBufferOnly ==
    /\ step = "ready"
    /\ m_buf' = "null"
    /\ m_buf_mirror' = "null"
    /\ maps' = maps \ {<<"buf", tryNum>>}
    /\ step' = IF apple THEN "gone" ELSE "close"
    /\ UNCHANGED <<tryNum, m_memfd, fds, fd0Free, build>>

\* ~RingBufferBase: both munmap calls, one for both halves on Apple's systems,
\* are inside assert().
Unmap ==
    /\ step = "ready"
    /\ m_buf' = "null"
    /\ m_buf_mirror' = "null"
    /\ maps' = IF NDebug THEN maps
               ELSE maps \ {<<"buf", tryNum>>, <<"mirror", tryNum>>}
    /\ step' = IF apple THEN "gone" ELSE "close"
    /\ UNCHANGED <<tryNum, m_memfd, fds, fd0Free, build>>

\* ~RingBufferBase: close(m_memfd).
Close ==
    /\ step = "close"
    /\ fds' = fds \ {m_memfd}
    /\ m_memfd' = NoFd
    /\ step' = "gone"
    /\ UNCHANGED <<tryNum, m_buf, m_buf_mirror, maps, fd0Free, build>>

Construct ==
    \/ MemfdCreate
    \/ Ftruncate
    \/ MapBuffer
    \/ MapMirror
    \/ MapBoth
    \/ CutMirror
    \/ Remap
    \/ FinalCheck

Destroy == Unmap \/ Close

-----------------------------------------------------------------------------
\* A constructed ring really has its buffer and its mirror, both made by the
\* same try, on Linux from the file that is still open: no retry mixes two tries.  A
\* release build may also construct a ring without any memory, whose pointers
\* are null, but never one with half of it.
ReadyIsMapped ==
    step = "ready" =>
        \/ /\ {<<"buf", tryNum>>, <<"mirror", tryNum>>} \subseteq maps
           /\ m_memfd \in fds \/ apple
        \/ /\ NDebug
           /\ m_buf = "null" /\ m_buf_mirror = "null"

\* A failed try closes its file before the next one begins, and the destructor
\* closes the last: the only descriptor that can be lost is number 0, which
\* the code cannot tell from an error.
FilesClosed == step \in {"memfd", "gone"} => fds \subseteq {0}

\* After the destructor of a build with assertions no mapping of the ring
\* exists: they say that both munmap calls were made and returned 0
\* (RingBuffer.h:394, 397).  In a release build the calls are not made.
DestroyedIsUnmapped == step = "gone" /\ ~NDebug => maps = {}

\* Construction ends: every retry loop is bounded by MMAP_MAX_TRIES.
ConstructionEnds ==
    <>(step \notin {"memfd", "ftruncate", "map", "mirror", "map both", "cut", "remap", "check"})
=============================================================================
