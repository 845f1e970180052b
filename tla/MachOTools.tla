------------------------------ MODULE MachOTools ------------------------------
(***************************************************************************)
(* The two programs that read a Mach-O file: jev-macho-dump, which lists   *)
(* load commands, symbols and fileset entries, and jev-macho-callfinder,   *)
(* which looks for the calls of a symbol's stub and for the constant each  *)
(* call passes in x0.  Addresses, offsets and sizes are counted in words   *)
(* of one instruction; a function starts and a stub lies at such a word.   *)
(*                                                                         *)
(* Besides what the programs read (see MachOFile), a file says of itself   *)
(* how it was linked: `functions', the file offsets of its functions, and  *)
(* `libraries', its dylibs in the order that library ordinals count.       *)
(***************************************************************************)
EXTENDS MachOFile, FunctionStarts

CONSTANTS
    Files,          \* the files the programs are run on
    Names,          \* the symbols looked for
    BlBits,         \* bits of a BL's offset; 26 in the code
    Half,           \* values of the 16 bits a MOVZ, MOVK or MOVN carries
    NFlags,         \* flags of CSRConfig; 12 in the code
    BlDistance,     \* reach of a BL; 128 MiB in the code
    WordsPerStub,   \* BYTES_PER_STUB; 16 bytes in the code
    MaxLines        \* lines of the dump that are remembered (a bound)

\* The stubs of the calls looked for: __auth_stubs if __TEXT has it, else __stubs.
stub_sect(text_seg) ==
    IF sectionNamed(text_seg, "__auth_stubs") # nullptr
      THEN sectionNamed(text_seg, "__auth_stubs")
      ELSE sectionNamed(text_seg, "__stubs")

\* Every entry of the indirect table is the index of a symbol.
SymbolsAreThere(m) == \A i \in DOMAIN indirect_syms(m) : indirect_syms(m)[i] # strayNList

\* A list is a list.
IsList(seq) == seq \in Seq(Range(seq))

\* The header counts the commands; symbols lie within their table.
IsCounted(m) ==
    /\ m.ncmds = Len(loadCommands(m))
    /\ IsList(nlists(m))
    /\ dysymtab(m) # nullptr =>
           /\ IsList(dysymtab(m).indirect)
           /\ {dysymtab(m).iundefsym, dysymtab(m).nundefsym} \subseteq Nat
           /\ symtab(m) # nullptr =>
                  dysymtab(m).iundefsym + dysymtab(m).nundefsym <= Len(nlists(m))

\* `libraries' and `functions' are what the file says, which has the words of
\* __TEXT; fields are numbers.
IsLinked(m) ==
    /\ LET dylibs == OfType(m, {"LOAD_DYLIB", "LOAD_WEAK_DYLIB", "REEXPORT_DYLIB"})
       IN m.libraries = [i \in DOMAIN dylibs |-> dylibs[i].name]
    /\ \A at \in DOMAIN m.image : m.image[at].op \in {"movn", "movz", "movk"} =>
           m.image[at].imm \in Nat /\ m.image[at].hw \in Nat
    /\ textSeg(m) # nullptr =>
           LET text_seg == textSeg(m)
           IN /\ {text_seg.vmaddr, text_seg.fileoff, text_seg.filesize} \subseteq Nat
              /\ text_seg.fileoff .. text_seg.fileoff + text_seg.filesize - 1
                     \subseteq DOMAIN m.image
              /\ stub_sect(text_seg) # nullptr =>
                     {stub_sect(text_seg).addr, stub_sect(text_seg).stubs,
                      stub_sect(text_seg).reserved1} \subseteq Nat
              /\ functionStartsCommand(m) # nullptr =>
                     SaysWhere(functionStartsCommand(m).data, text_seg.fileoff, m.functions)

ASSUME ToolsAssumption ==
    /\ {BlBits, Half, NFlags, BlDistance, WordsPerStub,
       MaxLines} \subseteq Nat \ {0}
    /\ \A m \in Files : m.sizeofcmds \in Nat /\ (WellFormed(m) => IsCounted(m) /\ IsLinked(m))

VARIABLES
    macho, tool, symbol_name,   \* chosen when the program starts
    phase,      \* of the program; "done", "aborted" by an assertion or by fmt,
                \* "no start": by an assertion of the search for a function,
                \* "stray": it reads what is no load command or no symbol
    lc, todo,   \* the next load command, the rest of the list being printed
    dylib_names,
    out,        \* the lines of the dump
    symbol_stub_addr, pc,
    found,      \* the calls reported
    res         \* what findCallsTo returns

chosen == <<macho, tool, symbol_name>>
toolsVars == <<chosen, phase, lc, todo, out, dylib_names, symbol_stub_addr, pc, found, res>>

ToolsInit ==
    /\ macho \in Files
    /\ \/ tool = "dump" /\ symbol_name = "none"
       \/ tool = "callfinder" /\ symbol_name \in Names
    /\ phase = "start"
    /\ lc = lc_cbegin /\ todo = <<>> /\ dylib_names = <<>>
    /\ out = <<>>
    /\ symbol_stub_addr = 0 /\ pc = 0
    /\ found = <<>>
    /\ res = FALSE

-----------------------------------------------------------------------------
(* ARM64Disasm: an instruction is a record of its op and its fields.       *)

isBL(inst) == inst.op = "bl"

\* The offset is shifted left and, signed, right again.
decodeBL(inst) ==
    IF inst.imm >= 2 ^ (BlBits - 1) THEN inst.imm - 2 ^ BlBits ELSE inst.imm

isBLTo(inst, at, target_addr) == isBL(inst) /\ decodeBL(inst) + at = target_addr

\* MOVN, MOVZ and MOVK differ in bits the mask leaves out.
isMovWideImm(inst) == inst.op \in {"movn", "movz", "movk"}
isMovWideImmTo(inst, reg) == isMovWideImm(inst) /\ inst.rd = reg

\* 32 bits, and raw_imm << 16 * hw within them.
Word == Half * Half
Shifted(imm, hw) == IF hw = 0 THEN imm ELSE imm * Half

\* raw_imm << 16 * hw in an int, converted to 64 bits: from hw = 1 on the sign
\* may be extended, and from hw = 2 on the shift is undefined; processors
\* shift by its remainder modulo 32, a compiler may produce 0.
decodeMovWideImm(inst) ==
    LET asInt(hw) ==
            Shifted(inst.imm, hw)
              + (IF hw = 1 /\ 2 * inst.imm >= Half THEN Word * Word - Word ELSE 0)
    IN IF inst.hw < 2 THEN {asInt(inst.hw)} ELSE {0, asInt(inst.hw - 2)}

\* (CSRConfig)val has 32 bits; to_strings lists the flags set in it.
to_strings(val) ==
    LET csr == val % Word IN {f \in 0 .. NFlags - 1 : (csr \div 2 ^ f) % 2 = 1}

-----------------------------------------------------------------------------
(* dump_macho *)

PrintLine(line) == out' = IF Len(out) < MaxLines THEN Append(out, line) ELSE out

\* A bad magic number ends the dump.
DumpHeader ==
    /\ tool = "dump" /\ phase = "start"
    /\ phase' = IF isMagicGood(macho) THEN "commands" ELSE "done"
    /\ UNCHANGED <<chosen, lc, todo, out, dylib_names, symbol_stub_addr, pc, found, res>>

\* Mutation of DumpCommand: every command is taken to be as long as a bare one.
DumpCommandBare ==
    /\ phase = "commands"
    /\ lc # lc_cend(macho)
    /\ \/ /\ lc \in DOMAIN macho.at
          /\ PrintLine([line |-> "lc", name |-> macho.at[lc].cmd])
          /\ lc' = lc + 1
          /\ UNCHANGED phase
       \/ /\ lc \notin DOMAIN macho.at
          /\ phase' = "stray"
          /\ UNCHANGED <<out, lc>>
    /\ UNCHANGED <<chosen, todo, dylib_names, symbol_stub_addr, pc, found, res>>

\* A line for the load command the iterator stands on; beyond the commands it
\* takes what it finds for one.
DumpCommand ==
    /\ phase = "commands"
    /\ lc # lc_cend(macho)
    /\ \/ /\ lc \in DOMAIN macho.at
          /\ PrintLine([line |-> "lc", name |-> macho.at[lc].cmd])
          /\ lc' = After(macho, lc)
          /\ UNCHANGED phase
       \/ /\ lc \notin DOMAIN macho.at
          /\ phase' = "stray"
          /\ UNCHANGED <<out, lc>>
    /\ UNCHANGED <<chosen, todo, dylib_names, symbol_stub_addr, pc, found, res>>

\* The symbols are listed only if there is a symbol table.
DumpCommandsEnd ==
    /\ phase = "commands"
    /\ lc = lc_cend(macho)
    /\ IF symtab(macho) = nullptr
         THEN /\ phase' = "filesets"
              /\ todo' = filesetEntryCommands(macho)
              /\ UNCHANGED dylib_names
         ELSE /\ phase' = "undef"
              /\ todo' = undef_syms(macho)
              /\ dylib_names' = dylibNamesMap(macho)
    /\ UNCHANGED <<chosen, lc, out, symbol_stub_addr, pc, found, res>>

\* undef_sym: the symbol and its library; dylibOrdinal asserts its kind.
DumpUndef ==
    /\ phase = "undef"
    /\ todo # <<>>
    /\ LET nl == Head(todo)
       IN \/ /\ isUndefined(nl)
             /\ PrintLine([line |-> "undef", name |-> nl.name,
                           from |-> dylibName(nl, dylib_names)])
             /\ todo' = Tail(todo)
             /\ UNCHANGED phase
          \/ /\ ~isUndefined(nl)
             /\ phase' = "aborted"
             /\ UNCHANGED <<out, todo>>
    /\ UNCHANGED <<chosen, lc, dylib_names, symbol_stub_addr, pc, found, res>>

\* The other lists print a name for each entry.
DumpEntry(list) ==
    /\ phase = list
    /\ todo # <<>>
    /\ \/ /\ Head(todo) # strayNList
          /\ PrintLine([line |-> list, name |-> Head(todo).name])
          /\ todo' = Tail(todo)
          /\ UNCHANGED phase
       \/ /\ Head(todo) = strayNList
          /\ phase' = "stray"
          /\ UNCHANGED <<out, todo>>
    /\ UNCHANGED <<chosen, lc, dylib_names, symbol_stub_addr, pc, found, res>>

\* Mutation of DumpListEnd: the filesets are listed only behind the symbols.
DumpListEndEarly(list) ==
    /\ phase = list
    /\ todo = <<>>
    /\ CASE list = "undef" -> phase' = "indirect" /\ todo' = indirect_syms(macho)
         [] list = "indirect" -> phase' = "done" /\ UNCHANGED todo
         [] list = "filesets" -> phase' = "done" /\ UNCHANGED todo
    /\ UNCHANGED <<chosen, lc, out, dylib_names, symbol_stub_addr, pc, found, res>>

\* The undefined symbols are followed by the indirect ones, those by the
\* fileset entries.
DumpListEnd(list) ==
    /\ phase = list
    /\ todo = <<>>
    /\ CASE list = "undef" -> phase' = "indirect" /\ todo' = indirect_syms(macho)
         [] list = "indirect" -> phase' = "filesets" /\ todo' = filesetEntryCommands(macho)
         [] list = "filesets" -> phase' = "done" /\ UNCHANGED todo
    /\ UNCHANGED <<chosen, lc, out, dylib_names, symbol_stub_addr, pc, found, res>>

Dump ==
    \/ DumpHeader
    \/ DumpCommand
    \/ DumpCommandsEnd
    \/ DumpUndef
    \/ \E list \in {"indirect", "filesets"} : DumpEntry(list)
    \/ \E list \in {"undef", "indirect", "filesets"} : DumpListEnd(list)

-----------------------------------------------------------------------------
(* CallFinder::findCallsTo *)

\* The entries of the indirect table with the symbol's name whose segment is
\* __TEXT, which for an undefined symbol is that of the first section.
Matches(m, name) ==
    LET seg_name_map == segmentNamesMap(m)
        syms == indirect_syms(m)
    IN {i \in DOMAIN syms : /\ syms[i] # strayNList /\ syms[i].name = name
                            /\ segmentName(syms[i], seg_name_map) = "__TEXT"}

symbol_indir_idx(m, name) == get_index_in(Matches(m, name))
symbol_nl(m, name) == indirect_syms(m)[symbol_indir_idx(m, name) + 1]

\* The search for the first one reads an entry beyond the symbol table.
SearchStrays(m, name) ==
    \E i \in DOMAIN indirect_syms(m) :
        /\ indirect_syms(m)[i] = strayNList
        /\ \A j \in Matches(m, name) : i < j

\* The symbol found is printed with the name of its library.  NList::format_to
\* asserts the magic number, dylibOrdinal that the symbol is undefined, and fmt
\* throws at a name that is null; ordinal 0 reads what lies before the array.
PrintsSymbol(m, nl) ==
    isMagicGood(m) /\ isUndefined(nl) /\ nl.ordinal \in {0} \cup DOMAIN dylibNamesMap(m)
PrintAborts(m, nl) ==
    nl.ordinal = 0 \/ ~PrintsSymbol(m, nl)

\* Mutation of StubAddress: the stubs are counted from 1.
StubAddressFromOne(m, name) ==
    stub_sect(textSeg(m)).addr + (symbol_indir_idx(m, name) + 1) * WordsPerStub

\* The stub with the number of the entry, counted in the WHOLE table.
StubAddress(m, name) ==
    stub_sect(textSeg(m)).addr + symbol_indir_idx(m, name) * WordsPerStub

\* What findCallsTo needs of the file, apart from the symbol, is asserted.
Asserted(m) ==
    /\ textSeg(m) # nullptr
    /\ textSeg(m).vmsize < BlDistance
    /\ stub_sect(textSeg(m)) # nullptr
    /\ functionStartsCommand(m) # nullptr

\* What is found: an entry, and none beyond the symbol table before it.
IsFound(m, name) ==
    symtab(m) # nullptr /\ ~SearchStrays(m, name) /\ Matches(m, name) # {}

NothingToScan(how) == phase' = how /\ UNCHANGED <<symbol_stub_addr, pc>>

\* dylibNamesMap walks every load command before anything else is looked at,
\* beyond the table of a file that is not well-formed.
FindSymbol ==
    LET nl == symbol_nl(macho, symbol_name)
    IN /\ tool = "callfinder" /\ phase = "start"
       /\ \/ ~WellFormed(macho) /\ NothingToScan("stray")
          \/ /\ WellFormed(macho)
             /\ \/ symtab(macho) = nullptr /\ NothingToScan("aborted")
                \/ /\ symtab(macho) # nullptr
                   /\ SearchStrays(macho, symbol_name)
                   /\ NothingToScan("stray")
                \/ /\ symtab(macho) # nullptr
                   /\ ~SearchStrays(macho, symbol_name)
                   /\ Matches(macho, symbol_name) = {}
                   /\ NothingToScan("done")
                \/ /\ IsFound(macho, symbol_name)
                   /\ PrintAborts(macho, nl) \/ ~Asserted(macho)
                   /\ NothingToScan("aborted")
                \/ /\ IsFound(macho, symbol_name)
                   /\ PrintsSymbol(macho, nl) /\ Asserted(macho)
                   /\ symbol_stub_addr' = StubAddress(macho, symbol_name)
                   /\ pc' = vmaddr_range(textSeg(macho)).min
                   /\ phase' = "scan"
       /\ UNCHANGED <<chosen, lc, todo, out, dylib_names, found, res>>

\* Mutation of MovsBefore: the search goes back to the start of __TEXT.
MovsBeforeAnywhere(text_instr, func_fileoff, foff) ==
    {i \in 1 .. foff : isMovWideImmTo(text_instr[i], 0)}

\* text_instr.subspan(func_fileoff, foff - func_fileoff), counted from 0: the
\* function's instructions before the call if __TEXT is at file offset 0.
MovsBefore(text_instr, func_fileoff, foff) ==
    {i \in func_fileoff + 1 .. foff : isMovWideImmTo(text_instr[i], 0)}

\* What a call may be reported with: the value the last mov to x0 moves, or
\* nothing.  A subspan that leaves __TEXT reads something else.
Arguments(text_instr, func_fileoff, foff) ==
    IF foff > Len(text_instr) THEN {<<"stray">>}
    ELSE LET movs == MovsBefore(text_instr, func_fileoff, foff)
         IN IF movs = {} THEN {<<>>}
            ELSE {<<to_strings(val)>> : val \in decodeMovWideImm(text_instr[Max(movs)])}

\* One instruction: a call to the stub is reported with its function's start
\* and its argument, if the search for the start comes to an end.
ScanInstruction ==
    LET text_seg == textSeg(macho)
        text_instr == DataOf(macho, text_seg)
        i == pc - text_seg.vmaddr + 1
        foff == pc - vmaddr_fileoff_delta(text_seg)
        func_fileoff == func_start_for_file_offset(
                            foff, functionStartsCommand(macho).data, text_seg)
    IN /\ phase = "scan"
       /\ i <= Len(text_instr)
       /\ \/ /\ isBLTo(text_instr[i], pc, symbol_stub_addr)
             /\ func_fileoff # Aborted
             /\ \E arg \in Arguments(text_instr, func_fileoff, foff) :
                    found' = Append(found, [pc |-> pc, start |-> func_fileoff,
                                            arg |-> arg])
             /\ pc' = pc + 1
             /\ UNCHANGED phase
          \/ /\ isBLTo(text_instr[i], pc, symbol_stub_addr)
             /\ func_fileoff = Aborted
             /\ phase' = "no start"
             /\ UNCHANGED <<found, pc>>
          \/ /\ ~isBLTo(text_instr[i], pc, symbol_stub_addr)
             /\ pc' = pc + 1
             /\ UNCHANGED <<found, phase>>
       /\ UNCHANGED <<chosen, lc, todo, out, dylib_names, symbol_stub_addr, res>>

\* Behind the last word of the segment's data.
ScanEnd ==
    /\ phase = "scan"
    /\ pc - textSeg(macho).vmaddr = textSeg(macho).filesize
    /\ res' = TRUE
    /\ phase' = "done"
    /\ UNCHANGED <<chosen, lc, todo, out, dylib_names, symbol_stub_addr, pc, found>>

FindCalls == FindSymbol \/ ScanInstruction \/ ScanEnd

ToolsNext == Dump \/ FindCalls

ToolsSpec == ToolsInit /\ [][ToolsNext]_toolsVars /\ WF_toolsVars(Dump)

-----------------------------------------------------------------------------
\* The walk by each command's own size ends, although the header's count of
\* commands plays no part: the iterator meets the end of the table exactly and
\* is never beyond it.  So do the lists behind it: the dump of a well-formed
\* file whose indirect table names symbols ends by returning or by an assertion.
DumpEnds ==
    tool = "dump" /\ WellFormed(macho) /\ SymbolsAreThere(macho)
        ~> phase \in {"done", "aborted"}

\* What the dump of a file is: a line for each load command, then the undefined
\* and the indirect symbols of a file that has a symbol table, then the fileset
\* entries.
Listed(list, names) == [i \in DOMAIN names |-> [line |-> list, name |-> names[i].name]]
CommandLines(lcs) == [i \in DOMAIN lcs |-> [line |-> "lc", name |-> lcs[i].cmd]]
UndefLines(syms, map) ==
    [i \in DOMAIN syms |->
        [line |-> "undef", name |-> syms[i].name, from |-> dylibName(syms[i], map)]]
SymbolLines(m) ==
    IF symtab(m) = nullptr THEN <<>>
    ELSE UndefLines(undef_syms(m), dylibNamesMap(m)) \o Listed("indirect", indirect_syms(m))

\* A finished dump lists exactly this, in this order, and as many commands as
\* the header counts, although the walk goes by their sizes alone.
ListsTheCommands ==
    tool = "dump" /\ phase = "done" /\ isMagicGood(macho) /\ WellFormed(macho)
      /\ Len(out) < MaxLines =>
        /\ out = CommandLines(loadCommands(macho)) \o SymbolLines(macho)
                    \o Listed("filesets", filesetEntryCommands(macho))
        /\ Len(CommandLines(loadCommands(macho))) = macho.ncmds

\* The number of a library is its position among ALL dylibs the file depends
\* on.  The dump names the right one for every undefined symbol of a file that
\* re-exports no library; re-exported ones are counted by the linker and left
\* out of dylibNamesMap.  Ordinal 0 (the file itself) reads before the array.
UndefFromItsLibrary ==
    \A i \in DOMAIN out :
        out[i].line = "undef" /\ WellFormed(macho)
          /\ OfType(macho, {"REEXPORT_DYLIB"}) = <<>> =>
            \E nl \in {symtab(macho).nlists[j] : j \in DOMAIN symtab(macho).nlists} :
                /\ nl.name = out[i].name
                /\ nl.ordinal \in DOMAIN macho.libraries =>
                       out[i].from = macho.libraries[nl.ordinal]

\* Where the dynamic linker binds a symbol's stub: stub k of the section has
\* entry reserved1 + k of the indirect table and is reserved2 long.
BoundStubs(m, name) ==
    LET sect == stub_sect(textSeg(m))
        syms == indirect_syms(m)
    IN {sect.addr + k * sect.reserved2 :
          k \in {j \in 0 .. sect.stubs - 1 :
                    /\ sect.reserved1 + j + 1 \in DOMAIN syms
                    /\ syms[sect.reserved1 + j + 1].name = name}}

\* In a file whose stubs have BYTES_PER_STUB bytes, one of them the symbol's, and
\* whose first section belongs to __TEXT, a search for an imported symbol that
\* returns says TRUE and reports the calls of its stub: none is missed and none
\* of another symbol is taken.  That is when the stubs head the indirect table;
\* else they are those of the stub as many further on as entries precede it.
\* A search never says TRUE of a symbol that is only defined: it is not found,
\* its segment being looked up one section too far, or printing it aborts.
FindsCalls ==
    LET text_seg == textSeg(macho)
        sect == stub_sect(text_seg)
        syms == symtab(macho).nlists
        stubs == BoundStubs(macho, symbol_name)
        Named == {i \in DOMAIN syms : syms[i].name = symbol_name}
        CallsIn(first, last) ==
            {at \in first .. last :
                \E stub \in stubs :
                    isBLTo(macho.image[at - vmaddr_fileoff_delta(text_seg)], at,
                           stub + sect.reserved1 * WordsPerStub)}
    IN (/\ tool = "callfinder" /\ phase = "done"
        /\ Asserted(macho)
        /\ sect.reserved2 = WordsPerStub
        /\ symtab(macho) # nullptr /\ dysymtab(macho) # nullptr
        /\ 1 \in DOMAIN segmentNamesMap(macho) /\ segmentNamesMap(macho)[1] = "__TEXT"
        /\ \E stub \in stubs : stubs = {stub}
        /\ \A i \in DOMAIN indirect_syms(macho) :
               i <= sect.reserved1 => indirect_syms(macho)[i].name # symbol_name)
       => /\ (\A i \in Named : isUndefined(syms[i])) =>
                /\ res
                /\ {found[i].pc : i \in DOMAIN found}
                     = CallsIn(text_seg.vmaddr, text_seg.vmaddr + text_seg.filesize - 1)
          /\ res => \E i \in Named : isUndefined(syms[i])

\* The start of the function that contains a file offset; what precedes the
\* first function counts as one.
FunctionOf(m, foff) ==
    Max({f \in m.functions \cup {textSeg(m).fileoff} : f <= foff})

\* The function a call is attributed to is the one that contains it: the
\* exclusive sums and the step back from the first start beyond the call lose
\* neither the first nor the last one.  The step back fails, and the program
\* with it, only in data in which a number is longer than all before it together.
FunctionStartIsGreatest ==
    /\ \A i \in DOMAIN found :
          found[i].start =
              FunctionOf(macho, found[i].pc - vmaddr_fileoff_delta(textSeg(macho)))
    /\ phase = "no start" => HasOverlong(functionStartsCommand(macho).data)

\* A call is reported with what the last instruction that writes x0 moves, if it
\* is a wide mov, among those between the start of the function and the call,
\* and with nothing if no wide mov is among them.  They are the function's own
\* when __TEXT begins the file, and lie as far behind it as __TEXT in the file
\* otherwise.  The flags are those the call gets if the mov is a MOVZ into the
\* low 32 bits; a MOVK and a MOVN are taken for MOVZ, and of a MOVZ into the
\* high 32 bits flags may be reported that the call does not get.
ArgumentIsLastWrite ==
    \A i \in DOMAIN found :
        LET text_seg == textSeg(macho)
            Instr(at) == macho.image[at]
            foff == found[i].pc - vmaddr_fileoff_delta(text_seg)
            body == text_seg.fileoff + FunctionOf(macho, foff) .. text_seg.fileoff + foff - 1
            writes == {at \in body : Instr(at).op = "bl" \/
                          (Instr(at).op # "other" /\ Instr(at).rd = 0)}
            last == Instr(Max(writes))
            Flags(hw) == <<to_strings(Shifted(last.imm, hw))>>
        IN foff <= text_seg.filesize =>
              /\ writes # {} /\ isMovWideImm(last) =>
                    IF last.hw < 2 THEN found[i].arg = Flags(last.hw)
                    ELSE found[i].arg \in {<<to_strings(0)>>, Flags(last.hw - 2)}
              /\ (\A at \in body : ~isMovWideImmTo(Instr(at), 0)) =>
                    found[i].arg = <<>>
=============================================================================
