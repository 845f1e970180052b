------------------------------- MODULE ApfsDump -------------------------------
(***************************************************************************)
(* jev-apfs-dump (tools/jev-apfs-dump/jev-apfs-dump.cpp): it looks for the *)
(* preboot volume of a disk image and for a directory in there, with a     *)
(* lookup of its own.  It is composed with the driver for U-Boot, of which *)
(* it is the prototype, over the same containers: one of the two runs.     *)
(* What the library does may fail, and every call of it is asserted.       *)
(***************************************************************************)
EXTENDS UBootAPFS

CONSTANTS
    MainPartition, \* the first APFS partition of the image
    Roles,      \* its volumes' roles: volume -> role
    DirPaths    \* directories to look for, split at '/' behind the leading one

ROOT_DIR_INO_NUM == 2

ASSUME ApfsDumpAssumption ==
    /\ MainPartition \in Partitions
    /\ \A r \in Roles : DOMAIN r = Range(Volumes[MainPartition])
    /\ DirPaths \subseteq Seq(STRING) \ {<<>>}

VARIABLES
    program,    \* "u-boot" or "jev-apfs-dump"
    step,       \* the step of the dump to take, "done" or "aborted"
    role,       \* volume -> its role
    volidx,     \* the loop over the volumes
    preboot_vol,\* the volume found, or <<>>
    dirPath,    \* the directory looked for
    childIdx,   \* the component of it that is looked up next
    res         \* the record found so far, or NoEntry

dumpVars == <<step, role, volidx, preboot_vol, dirPath, childIdx, res>>
vars == <<program, driverVars, dumpVars>>

DumpInit ==
    /\ step = "container" /\ role \in Roles /\ volidx = 1 /\ preboot_vol = <<>>
    /\ dirPath \in DirPaths /\ childIdx = 1 /\ res = NoEntry

\* A library call that fails its assertion.
DumpAbort == step' = "aborted" /\ UNCHANGED <<role, volidx, preboot_vol, dirPath, childIdx, res>>

\* The device, its partitions and the container.
Container ==
    /\ step = "container"
    /\ \/ DumpAbort
       \/ step' = "volumes" /\ UNCHANGED <<role, volidx, preboot_vol, dirPath, childIdx, res>>

\* The loop ends at the first volume with the role; there must be one.
FindPreboot ==
    /\ step = "volumes"
    /\ \/ volidx > Len(Volumes[MainPartition]) /\ DumpAbort
       \/ /\ volidx <= Len(Volumes[MainPartition])
          /\ IF role[Volumes[MainPartition][volidx]] = "preboot"
               THEN /\ preboot_vol' = <<MainPartition, Volumes[MainPartition][volidx]>>
                    /\ step' = "asserted lookups"
                    /\ UNCHANGED volidx
               ELSE volidx' = volidx + 1 /\ UNCHANGED <<preboot_vol, step>>
          /\ UNCHANGED <<role, dirPath, childIdx, res>>

\* ApfsDir::LookupName: the record of that name below an inode.
LookupName(parent, name) ==
    LET dir == <<preboot_vol, parent>>
        k == IF dir \in DOMAIN Dir THEN SelectInSeq(Dir[dir], LAMBDA e : e.name = name) ELSE 0
    IN IF k = 0 THEN NoEntry ELSE Dir[dir][k]

\* The volume group's directory must be in the root directory, and the root
\* directory below its parent; lookupDir then starts at that one.
AssertedLookups ==
    /\ step = "asserted lookups"
    /\ LET ok == /\ LookupName(ROOT_DIR_INO_NUM, Head(dirPath)) # NoEntry
                 /\ LookupName(ROOT_DIR_PARENT, "root") # NoEntry
       IN \/ ~ok /\ DumpAbort
          \/ /\ ok /\ step' = "lookupDir" /\ res' = LookupName(ROOT_DIR_PARENT, "root")
             /\ UNCHANGED <<role, volidx, preboot_vol, dirPath, childIdx>>

\* Mutation of childDirNamed: below the root directory's parent every time.
childDirNamedTop(parentDir, childDirName) == LookupName(ROOT_DIR_PARENT, childDirName)

childDirNamed(parentDir, childDirName) == LookupName(parentDir.ino, childDirName)

\* One round of the loop in lookupDir, which gives up at the first component
\* that is not found.
LookupDir ==
    /\ step = "lookupDir"
    /\ res' = childDirNamed(res, dirPath[childIdx])
    /\ IF res' # NoEntry /\ childIdx < Len(dirPath) THEN childIdx' = childIdx + 1 /\ UNCHANGED step
       ELSE step' = "done" /\ UNCHANGED childIdx
    /\ UNCHANGED <<role, volidx, preboot_vol, dirPath>>

DumpNext == Container \/ FindPreboot \/ AssertedLookups \/ LookupDir

-----------------------------------------------------------------------------
\* The image of the program that does not run plays no part.
Init ==
    /\ program \in {"u-boot", "jev-apfs-dump"} /\ DriverInit /\ DumpInit
    /\ program = "u-boot" =>
          /\ role = CHOOSE r \in Roles : TRUE
          /\ dirPath = CHOOSE p \in DirPaths : TRUE

Next ==
    \/ program = "u-boot" /\ DriverNext /\ UNCHANGED <<program, dumpVars>>
    \/ program = "jev-apfs-dump" /\ DumpNext /\ UNCHANGED <<program, driverVars>>

Spec == Init /\ [][Next]_vars

-----------------------------------------------------------------------------
\* The two lookups agree: what the dump finds below the root directory is what
\* the driver finds for the same path behind the component that it skips and
\* the root directory's name; and neither finds what the other does not.
LookupsAgree ==
    step = "done" =>
        LET node == Lookup(MainPartition, <<preboot_vol[2], "skipped", "root">> \o dirPath)
        IN IF res = NoEntry THEN node = NoNode ELSE node = Node(preboot_vol, res)
=============================================================================
