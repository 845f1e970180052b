------------------------------ MODULE NvramDump ------------------------------
(***************************************************************************)
(* jev-nvram-dump: dump_nvram (lib/jevmachopp/NVRAM.cpp) lists the names   *)
(* of the variables in both partitions of the NVRAM's proxy data, then the *)
(* boot arguments of both.  Printing a null pointer is an exception that   *)
(* nobody catches.                                                         *)
(***************************************************************************)
EXTENDS Nvram

CONSTANTS
    Images      \* the proxy data that may be in the file

ASSUME NvramDumpAssumption == \A data \in Images : IsProxyData(data)

VARIABLES
    image,      \* the proxy data
    stage,      \* what is printed next, "done" or "aborted"
    names,      \* partition -> the names listed so far
    args,       \* partition -> its boot arguments as they were printed, or Null
    has_v       \* partition -> whether -v is among them

nvramVars == <<image, stage, names, args, has_v>>

Parts == {"common", "system"}

\* Where a partition begins.
Part(name) == IF name = "common" THEN common_part ELSE system_part(image)

NvramInit ==
    /\ image \in Images
    /\ stage = "common names"
    /\ names = [p \in Parts |-> <<>>] /\ args = [p \in Parts |-> Null]
    /\ has_v = [p \in Parts |-> FALSE]

\* The loops over the variables of a partition.
Names(p, this, next) ==
    /\ stage = this /\ stage' = next
    /\ names' = [names EXCEPT ![p] =
           [i \in DOMAIN partVars(image, Part(p)) |-> varName(image[partVars(image, Part(p))[i]])]]
    /\ UNCHANGED <<image, args, has_v>>

\* common_bootArgsValue and system_bootArgsValue
BootArgsValue(p) == varValue(image, varNamed(image, Part(p), "boot-args"))

\* The value, its words, and whether -v is one of them.
BootArgs(p, this, next) ==
    /\ stage = this
    /\ \/ /\ BootArgsValue(p) = Null /\ stage' = "aborted"
          /\ UNCHANGED <<args, has_v>>
       \/ /\ BootArgsValue(p) # Null /\ stage' = next
          /\ args' = [args EXCEPT ![p] = rangeForSpaceDelimitedCStr(BootArgsValue(p))]
          /\ has_v' = [has_v EXCEPT ![p] = rangeContainsStr(args'[p], "-v")]
    /\ UNCHANGED <<image, names>>

\* The last lookup prints the system's boot arguments again; that they may be
\* missing is considered only here, where they no longer can.
BootArgsAgain ==
    /\ stage = "boot args again" /\ stage' = "done"
    /\ args' = [args EXCEPT !["system"] = rangeForSpaceDelimitedCStr(BootArgsValue("system"))]
    /\ UNCHANGED <<image, names, has_v>>

NvramNext ==
    \/ Names("common", "common names", "system names")
    \/ Names("system", "system names", "common args")
    \/ BootArgs("common", "common args", "system args")
    \/ BootArgs("system", "system args", "boot args again")
    \/ BootArgsAgain

-----------------------------------------------------------------------------
\* The variables of a partition: between its header and its end, before the
\* zeros.
OwnPlaces(data, part) ==
    {k \in part + HEADER_TEXTS .. part + size_bytes(data, part) - 1 : varName(data[k]) # NoName}

PlacesNamed(data, part, name) == {k \in OwnPlaces(data, part) : varName(data[k]) = name}

Owns(data, part, name) == PlacesNamed(data, part, name) # {}

\* The words of a partition's own variable.
OwnValue(data, part, name) ==
    IF Owns(data, part, name) THEN data[Min(PlacesNamed(data, part, name))].words ELSE Null

\* The names listed for a partition are those of its own variables, each once
\* and in order, and its boot arguments are its own too; also when it is empty,
\* or so full that the list runs on into the header behind it.
ListsItsPartition ==
    \A p \in Parts :
        LET first == Part(p) + HEADER_TEXTS
            own == OwnPlaces(image, Part(p))
        IN /\ names[p] # <<>> =>
                 /\ \A i \in DOMAIN names[p] :
                       names[p][i] = IF first + i - 1 \in own
                                       THEN varName(image[first + i - 1]) ELSE NoName
                 /\ \A k \in own : k - first + 1 \in DOMAIN names[p]
           /\ args[p] # Null =>
                 args[p] = rangeForSpaceDelimitedCStr(OwnValue(image, Part(p), "boot-args"))
=============================================================================
