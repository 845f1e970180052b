------------------------------ MODULE DumpTools ------------------------------
(***************************************************************************)
(* The two programs that read the NVRAM: jev-dtree-dump finds its proxy    *)
(* data in a device tree, jev-nvram-dump in a file of its own.  A third is *)
(* a client of the NVRAM's escape coding.                                  *)
(***************************************************************************)
EXTENDS DTreeDump, NvramDump, NvramCoding

VARIABLES program   \* the one that runs

vars == <<program, treeVars, nvramVars, codingVars>>

\* The file of a program that does not run plays no part.
Init ==
    /\ program \in {"jev-dtree-dump", "jev-nvram-dump", "client"}
    /\ TreeInit /\ NvramInit /\ CodingInit
    /\ program # "jev-dtree-dump" => tree = CHOOSE t \in Trees : TRUE
    /\ program # "jev-nvram-dump" => image = CHOOSE data \in Images : TRUE
    /\ program # "client" => plain = <<>> /\ enc_size = 0

Next ==
    \/ program = "jev-dtree-dump" /\ TreeNext /\ UNCHANGED <<program, nvramVars, codingVars>>
    \/ program = "jev-nvram-dump" /\ NvramNext /\ UNCHANGED <<program, treeVars, codingVars>>
    \/ program = "client" /\ CodingNext /\ UNCHANGED <<program, treeVars, nvramVars>>

Spec == Init /\ [][Next]_vars

-----------------------------------------------------------------------------
\* Each partition's lookups stay in that partition, in either program: what
\* jev-nvram-dump lists, and the boot arguments and patches that jev-dtree-dump
\* takes from the tree's proxy data.
ReadsItsPartition ==
    LET t == ProxyData(tree)
        data == DataAt(tree, t)
    IN /\ ListsItsPartition
       /\ phase # "dump" /\ t[2] # Nil =>
             boot_args = OwnValue(data, system_part(data), "boot-args")
       /\ phase = "nvram" =>
             group = IF Owns(data, common_part, "dt-patches")
                       THEN OwnValue(data, common_part, "dt-patches") ELSE <<>>
=============================================================================
