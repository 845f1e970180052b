------------------------------ MODULE UBootAPFS ------------------------------
(***************************************************************************)
(* The read-only APFS driver for U-Boot (lib/jevmachopp/UBootAPFS.cpp): a  *)
(* single global context that U-Boot probes and closes around each command *)
(* and directory streams that may outlive both.  The APFS library and      *)
(* U-Boot are not in the repository: a partition holds a container, which  *)
(* is a tree of directories, and whose initialisation and whose device may *)
(* fail.  A failed assertion stops the program.                            *)
(***************************************************************************)
EXTENDS Integers, SequencesExt

CONSTANTS
    Partitions, \* what fs_set_blk_dev may hand to the driver, each a container
    Volumes,    \* partition -> the names of its container's volumes, in order
    Dir,        \* <<volume, inode>> -> entries [name, type, ino] of a directory
    Paths,      \* file names U-Boot asks for, split at '/' (a bound)
    Streams,    \* directory streams that may be open at once (a bound)
    MaxLive     \* containers ever constructed and not destroyed (a bound)

ROOT_DIR_PARENT == 1
NoPartition == "none"

\* A volume is known by its partition and its name.
EntryRecord == [name : STRING, type : {"dir", "file", "link"}, ino : Nat]

ASSUME ApfsAssumption ==
    /\ NoPartition \notin Partitions
    /\ Volumes \in [Partitions -> Seq(STRING \ {""})]
    /\ \A p \in Partitions : \A v \in Range(Volumes[p]) :
          <<<<p, v>>, ROOT_DIR_PARENT>> \in DOMAIN Dir
    /\ \A d \in DOMAIN Dir :
          /\ Dir[d] \in Seq(EntryRecord)
          /\ \A i \in DOMAIN Dir[d] :
                Dir[d][i].type = "dir" <=> <<d[1], Dir[d][i].ino>> \in DOMAIN Dir
    /\ Paths \subseteq Seq(STRING) \ {<<>>}

VARIABLES
    dev,            \* m_dev is "open" or "closed"
    m_container,    \* "null", "raw" (constructed, not initialised) or "ready"
    m_opened,
    partition,      \* m_blk_off and m_blk_sz: the one probed last, or NoPartition
    live,           \* ApfsContainer objects constructed and not destroyed
    reprobed,       \* a probe has found the context open
    stream,         \* stream -> NoStream, or its path, nodes and idx
    seen,           \* stream -> what U-Boot has seen of it: the partition the
                    \* context was open on, the entries, -ENOENT behind them
    status          \* "running" or "aborted" (a failed assertion)

context == <<dev, m_container, m_opened, partition, live, reprobed>>
driverVars == <<context, stream, seen, status>>

NoStream == [path |-> <<>>, nodes |-> <<>>, idx |-> 0]
NothingSeen(from) == [from |-> from, dents |-> <<>>, ended |-> FALSE]

DriverInit ==
    /\ dev = "closed" /\ m_container = "null" /\ m_opened = FALSE
    /\ partition = NoPartition /\ live = 0 /\ reprobed = FALSE
    /\ stream = [s \in Streams |-> NoStream]
    /\ seen = [s \in Streams |-> NothingSeen(NoPartition)]
    /\ status = "running"

-----------------------------------------------------------------------------
(* Nodes and paths.  A node is the container of a partition, a volume or an *)
(* entry.                                                                  *)

Node(volume, entry) == [volume |-> volume, entry |-> entry]
NoEntry == [name |-> "", type |-> "none", ino |-> ROOT_DIR_PARENT]
ContainerNode(p) == Node(<<p, "">>, NoEntry)
VolumeNode(v) == Node(v, NoEntry)
NoNode == Node(<<NoPartition, "">>, [NoEntry EXCEPT !.type = "no node"])

IsContainer(n) == n.volume[2] = ""
IsDirUboot(n) == n.entry.type \in {"none", "dir"}
Name(n) ==
    IF n.entry # NoEntry THEN n.entry.name
    ELSE IF IsContainer(n) THEN "/" ELSE n.volume[2]
UbootType(n) ==
    CASE IsDirUboot(n) -> "FS_DT_DIR"
      [] n.entry.type = "link" -> "FS_DT_LNK"
      [] OTHER -> "FS_DT_REG"

Entries(n) == Dir[<<n.volume, n.entry.ino>>]

\* Every child of a directory, in the order of the container.
List(n) ==
    IF IsContainer(n)
    THEN LET p == n.volume[1]
         IN [i \in DOMAIN Volumes[p] |-> VolumeNode(<<p, Volumes[p][i]>>)]
    ELSE [i \in DOMAIN Entries(n) |-> Node(n.volume, Entries(n)[i])]

\* Files and links have no children; nor has what was not found.
ChildNamed(n, name) ==
    LET k == IF IsDirUboot(n) THEN SelectInSeq(List(n), LAMBDA c : Name(c) = name) ELSE 0
    IN IF k = 0 THEN NoNode ELSE List(n)[k]

\* APFSPath: the first component is the volume and the rest is joined with '/',
\* without a leading one.  A path needs a volume.
PathVolume(path) == Head(path)
PathRest(path) == IF Tail(path) = <<"">> THEN <<>> ELSE Tail(path)
PathIsValid(path) == PathRest(path) # <<>> => PathVolume(path) # ""

\* lookup splits the rest at '/' and drops the first part, although the rest
\* has no leading '/': the first directory of a path is skipped.
LookedUp(path) == Tail(PathRest(path))

\* Mutation of Lookup: a missing volume is taken for the container.
LookupNoVolume(p, path) ==
    LET v == PathVolume(path)
    IN IF v \notin Range(Volumes[p]) THEN ContainerNode(p)
       ELSE IF PathRest(path) = <<>> THEN VolumeNode(<<p, v>>)
       ELSE FoldLeft(ChildNamed, VolumeNode(<<p, v>>), LookedUp(path))

\* In the container of a partition.
Lookup(p, path) ==
    LET v == PathVolume(path)
    IN IF v = "" THEN ContainerNode(p)
       ELSE IF v \notin Range(Volumes[p]) THEN NoNode
       ELSE IF PathRest(path) = <<>> THEN VolumeNode(<<p, v>>)
       ELSE FoldLeft(ChildNamed, VolumeNode(<<p, v>>), LookedUp(path))

-----------------------------------------------------------------------------
Abort == status' = "aborted" /\ UNCHANGED <<context, stream, seen>>

\* Mutation of OpenCommon: opened before the container is initialised.
OpenCommonEarly ==
    /\ live' = live + 1
    /\ m_container' \in {"ready", "raw"}
    /\ m_opened' = TRUE

\* open_common: construct a container in the storage of the context, whatever
\* is there, and initialise it.
OpenCommon ==
    /\ live' = live + 1
    /\ \/ m_container' = "ready" /\ m_opened' = TRUE
       \/ m_container' = "raw" /\ UNCHANGED m_opened

\* apfs_probe: the device may not open; then the context is as it was.
Probe(p) ==
    /\ live < MaxLive
    /\ reprobed' = (reprobed \/ m_opened)
    /\ \/ UNCHANGED <<dev, m_container, m_opened, partition, live>>
       \/ dev' = "open" /\ partition' = p /\ OpenCommon
    /\ UNCHANGED <<stream, seen, status>>

\* uboot_apfs_doit: opens the context by name, the first partition there, and
\* leaves it open, then a second container of its own that it never destroys.
Doit(p) ==
    \/ Abort
    \/ /\ live + 1 < MaxLive
       /\ reprobed' = (reprobed \/ m_opened)
       /\ dev' = "open" /\ partition' = p
       /\ m_container' = "ready" /\ m_opened' = TRUE
       /\ live' = live + 2
       /\ UNCHANGED <<stream, seen, status>>

\* apfs_close: assert(opened), destroy the container, close the device.
Close ==
    \/ ~m_opened /\ Abort
    \/ /\ m_opened
       /\ m_opened' = FALSE /\ m_container' = "null" /\ live' = live - 1
       /\ dev' = "closed"
       /\ UNCHANGED <<partition, reprobed, stream, seen, status>>

Begins(s, path, from, nodes) ==
    /\ stream' = [stream EXCEPT ![s] = [path |-> path, nodes |-> nodes, idx |-> 0]]
    /\ seen' = [seen EXCEPT ![s] = NothingSeen(from)]
    /\ UNCHANGED <<context, status>>

\* apfs_opendir: the context must be open, the path valid and a directory; the
\* nodes are those of the container that is open now.  What one that failed to
\* initialise has is not known: nothing, no such directory or what it should.
Opendir(s, path) ==
    /\ stream[s] = NoStream
    /\ LET ok == m_opened /\ PathIsValid(path)
           found == ok /\ IsDirUboot(Lookup(partition, path))
           nodes == List(Lookup(partition, path))
       IN \/ (~found \/ m_container = "raw") /\ Abort
          \/ found /\ m_container = "ready" /\ Begins(s, path, partition, nodes)
          \/ found /\ m_container = "raw" /\ Begins(s, path, NoPartition, nodes)
          \/ ok /\ m_container = "raw" /\ Begins(s, path, NoPartition, <<>>)

Dent(n) == <<Name(n), UbootType(n)>>

\* The next of the nodes; behind the last -ENOENT, and the stream is as it was.
ReaddirOf(s, nodes) ==
    /\ stream[s] # NoStream
    /\ LET idx == stream[s].idx
       IN \/ /\ idx >= Len(nodes)
             /\ seen' = [seen EXCEPT ![s].ended = TRUE]
             /\ UNCHANGED stream
          \/ /\ idx < Len(nodes)
             /\ stream' = [stream EXCEPT ![s].idx = @ + 1]
             /\ seen' = [seen EXCEPT ![s].dents = Append(@, Dent(nodes[idx + 1]))]
    /\ UNCHANGED <<context, status>>

\* Mutation of Readdir: the stream keeps its path alone, and looks it up in the
\* context at every call.
ReaddirAgain(s) ==
    LET n == Lookup(partition, stream[s].path)
    IN stream[s] # NoStream /\ ReaddirOf(s, IF IsDirUboot(n) THEN List(n) ELSE <<>>)

\* apfs_readdir: from the nodes that opendir took, whatever is open by now.
Readdir(s) == ReaddirOf(s, stream[s].nodes)

\* apfs_closedir
Closedir(s) ==
    /\ stream[s] # NoStream
    /\ stream' = [stream EXCEPT ![s] = NoStream]
    /\ seen' = [seen EXCEPT ![s] = NothingSeen(NoPartition)]
    /\ UNCHANGED <<context, status>>

\* apfs_exists changes nothing, but its path is checked; apfs_size, apfs_read
\* and apfs_uuid are assertions that fail.
Exists(path) == ~PathIsValid(path) /\ Abort
Unsupported == Abort

DriverNext ==
    /\ status = "running"
    /\ \/ Close \/ Unsupported
       \/ \E p \in Partitions : Probe(p) \/ Doit(p)
       \/ \E p \in Paths : Exists(p)
       \/ \E s \in Streams : \/ \E p \in Paths : Opendir(s, p)
                             \/ Readdir(s) \/ Closedir(s)

-----------------------------------------------------------------------------
\* As long as U-Boot closes the context before it probes again, whatever probes
\* fail: an open context has an initialised container and an open device, so
\* container() never hands out one that was destroyed or never initialised.
OpenedIsReady ==
    m_opened /\ ~reprobed => m_container = "ready" /\ dev = "open" /\ live > 0

Dents(nodes) == [i \in DOMAIN nodes |-> Dent(nodes[i])]

\* A stream returns a directory of the partition that was probed when it was
\* opened: every entry once and in order, and -ENOENT behind the last alone;
\* also when the context is closed, and another partition probed, before the
\* stream is read to its end.
ReaddirIsWhole ==
    \A s \in Streams : seen[s].from # NoPartition =>
        LET whole == Dents(List(Lookup(seen[s].from, stream[s].path)))
            read == seen[s].dents
        IN /\ Len(read) <= Len(whole)
           /\ \A i \in DOMAIN read : read[i] = whole[i]
           /\ seen[s].ended => Len(read) = Len(whole)

\* What a stream lists belongs to one place: the volumes of the partition that
\* was probed then, when the path names none, and else entries of the volume
\* there that the path names.
ListsItsVolume ==
    \A s \in Streams : seen[s].from # NoPartition =>
        LET from == seen[s].from
            volume == PathVolume(stream[s].path)
        IN \A i \in DOMAIN stream[s].nodes :
              LET n == stream[s].nodes[i]
              IN IF volume = "" THEN n = VolumeNode(<<from, Volumes[from][i]>>)
                 ELSE n.volume = <<from, volume>> /\ n.entry # NoEntry
=============================================================================
