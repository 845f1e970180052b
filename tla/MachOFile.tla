------------------------------ MODULE MachOFile -------------------------------
(***************************************************************************)
(* MachO: the views of a Mach-O file in memory.  A file m is a record:     *)
(*   magic, sizeofcmds                          of the header;             *)
(*   at      offset behind the header -> the load command found there;     *)
(*   image   file offset, in instruction words -> word.                    *)
(* A load command is a record of its cmd, its cmdsize and its own fields;  *)
(* what it points to by an offset and a count (symbols, indirect indices,  *)
(* function starts) is a sequence in it.                                   *)
(***************************************************************************)
EXTENDS Integers, SequencesExt

nullptr == [cmd |-> "nullptr"]

isMagicGood(m) == m.magic = "MH_MAGIC_64"

lc_cbegin == 0
lc_cend(m) == m.sizeofcmds

\* LoadCommand::Iterator: ++ goes on by the command's own size.
After(m, off) == off + m.at[off].cmdsize

\* The range of the load commands ends where the iterator EQUALS the end.
commandsFrom(m) ==
    LET from[off \in DOMAIN m.at \cup {lc_cend(m)}] ==
            IF off = lc_cend(m) THEN <<>>
            ELSE <<m.at[off]>> \o from[After(m, off)]
    IN from
loadCommands(m) == commandsFrom(m)[lc_cbegin]

\* The load commands follow each other and fill the table.
WellFormed(m) ==
    /\ DOMAIN m.at \subseteq 0 .. lc_cend(m) - 1
    /\ lc_cbegin \in DOMAIN m.at \cup {lc_cend(m)}
    /\ \A off \in DOMAIN m.at :
          /\ m.at[off].cmdsize \in Nat \ {0}
          /\ After(m, off) \in DOMAIN m.at \cup {lc_cend(m)}

\* views::filter of the load commands by their type.
keptOfType(lcs, types) ==
    LET kept[i \in 0 .. Len(lcs)] ==
            IF i = 0 THEN <<>>
            ELSE IF lcs[i].cmd \in types THEN Append(kept[i - 1], lcs[i]) ELSE kept[i - 1]
    IN kept
OfType(m, types) == keptOfType(loadCommands(m), types)[Len(loadCommands(m))]

\* The first record whose field has the value: the predicate of every caller.
find_if_or_nullptr(seq, field, value) ==
    LET i == SelectInSeq(seq, LAMBDA e : e[field] = value)
    IN IF i = 0 THEN nullptr ELSE seq[i]

\* The first of the matching positions as an index from 0 on, or none.
None == -1
get_index_in(hits) == IF hits = {} THEN None ELSE Min(hits) - 1

\* The first command of one type, or null.
FirstOfType(m, type) ==
    find_if_or_nullptr(loadCommands(m), "cmd", type)

-----------------------------------------------------------------------------
\* Segments and sections.
segments(m) == OfType(m, {"SEGMENT_64"})

segmentWithName(m, name) ==
    find_if_or_nullptr(segments(m), "segname", name)

textSeg(m) == segmentWithName(m, "__TEXT")

sectionNamed(seg, name) ==
    find_if_or_nullptr(seg.sections, "sectname", name)

vmaddr_range(seg) == [min |-> seg.vmaddr, max |-> seg.vmaddr + seg.vmsize]

vmaddr_fileoff_delta(seg) == seg.vmaddr - seg.fileoff

\* data(): the words of the file the segment is loaded from.
DataOf(m, seg) == [i \in 1 .. seg.filesize |-> m.image[seg.fileoff + i - 1]]

\* An entry per section with the name of its segment; the array is indexed
\* from 0 on and entries without a section are empty.
segmentNamesMap(m) ==
    LET segs == segments(m)
    IN FlattenSeq([s \in DOMAIN segs |->
                     [i \in DOMAIN segs[s].sections |-> segs[s].segname]])

-----------------------------------------------------------------------------
\* Dynamic libraries: the array of their names, indexed from 0 on.
importedDylibCommands(m) == OfType(m, {"LOAD_DYLIB", "LOAD_WEAK_DYLIB"})

dylibNamesMap(m) ==
    LET dylibs == importedDylibCommands(m) IN [i \in DOMAIN dylibs |-> dylibs[i].name]

-----------------------------------------------------------------------------
\* Symbols.
symtab(m) == FirstOfType(m, "SYMTAB")
dysymtab(m) == FirstOfType(m, "DYSYMTAB")

\* Where the symbol table says they are; there are none without it.
nlists(m) == IF symtab(m) = nullptr THEN <<>> ELSE symtab(m).nlists

\* nundefsym symbols from index iundefsym on; nothing without both tables.
undef_syms(m) ==
    LET dysym == dysymtab(m)
    IN IF nullptr \in {symtab(m), dysym} THEN <<>>
       ELSE SubSeq(nlists(m), dysym.iundefsym + 1, dysym.iundefsym + dysym.nundefsym)

\* The bits of an indirect index, scaled down with it.
JEV_INDIRECT_SYMBOL_LOCAL == 32
JEV_INDIRECT_SYMBOL_ABS == 16

indirect_syms_idxes_raw(m) ==
    LET dysym == dysymtab(m) IN IF dysym = nullptr THEN <<>> ELSE dysym.indirect

\* An index with the LOCAL bit loses its LOCAL and ABS bits; one with the ABS
\* bit alone keeps it.
indirect_syms_idxes(m) ==
    LET raw == indirect_syms_idxes_raw(m)
    IN [i \in DOMAIN raw |->
          IF raw[i] >= JEV_INDIRECT_SYMBOL_LOCAL
            THEN raw[i] % JEV_INDIRECT_SYMBOL_ABS ELSE raw[i]]

\* What lies behind the symbol table is not a symbol: nobody checks the index,
\* and one with the ABS bit alone lies 16 GiB behind it.
strayNList == [name |-> "stray", type |-> "stray", sect |-> 0, ordinal |-> 0]

indirect_syms(m) ==
    LET idxes == indirect_syms_idxes(m)
    IN [i \in DOMAIN idxes |->
          IF idxes[i] + 1 \in DOMAIN nlists(m) THEN nlists(m)[idxes[i] + 1] ELSE strayNList]

\* NList::segmentName: the section's number is the index, as it is.
segmentName(nl, map) == IF nl.sect + 1 \in DOMAIN map THEN map[nl.sect + 1] ELSE ""

\* NList::dylibOrdinal asserts that the symbol is undefined.
isUndefined(nl) == nl.type = "UNDF" /\ nl.sect = 0

\* Mutation of dylibName: the ordinal is the index.
dylibNameFromZero(nl, map) ==
    IF nl.ordinal + 1 \in DOMAIN map THEN map[nl.ordinal + 1] ELSE "(null)"

\* NList::dylibName: entry ordinal - 1; libraries that are not in the map
\* are null, and ordinal 0 reads what lies before the array.
dylibName(nl, map) ==
    CASE nl.ordinal = 0 -> "stray"
      [] nl.ordinal \in DOMAIN map -> map[nl.ordinal]
      [] OTHER -> "(null)"

-----------------------------------------------------------------------------
functionStartsCommand(m) == FirstOfType(m, "FUNCTION_STARTS")

filesetEntryCommands(m) == OfType(m, {"FILESET_ENTRY"})
=============================================================================
