----------------------------- MODULE MCMachOTools -----------------------------
(* Files for MachOTools: one code layout with varying calls and functions,   *)
(* and one set of load commands with varying symbols and defects.            *)
EXTENDS MachOTools

\* The LEB128 encoding of a number and of a set of starts behind `from', with
\* the terminating zero and `pad' more.
Encoded(n) ==
    LET enc[k \in 0 .. n] ==
            IF k < Base THEN <<k>> ELSE <<Base + (k % Base)>> \o enc[k \div Base]
    IN enc[n]

EncodedStarts(starts, from, pad) ==
    LET sorted == SetToSortSeq(starts, <)
        deltas == [i \in DOMAIN sorted |->
                      sorted[i] - (IF i = 1 THEN from ELSE sorted[i - 1])]
    IN FlattenSeq([i \in DOMAIN deltas |-> Encoded(deltas[i])])
         \o [i \in 1 .. 1 + pad |-> 0]

VmAddr == 24
Other == [op |-> "other"]
Movz(rd, hw, imm) == [op |-> "movz", rd |-> rd, hw |-> hw, imm |-> imm]
Call(at, target) == [op |-> "bl", imm |-> (target - at) % 2 ^ BlBits]

\* Where __stubs lies behind six words of code, and how it is laid out.
StubsAt == 6
Layouts ==
    {[name |-> "__auth_stubs", first |-> 0, words |-> 4],
     [name |-> "__stubs", first |-> 1, words |-> 4],
     [name |-> "__stubs", first |-> 0, words |-> 3]}

\* The code: a header word, `body' and a call of the first stub.  In `body' a
\* number k stands for a call of stub k.
Instr(w, at, layout) ==
    IF w.op = "call" THEN Call(at, VmAddr + StubsAt + w.stub * layout.words) ELSE w

Code(body, layout) ==
    LET words == <<Other>> \o body \o <<[op |-> "call", stub |-> 0]>>
    IN [i \in DOMAIN words |-> Instr(words[i], VmAddr + i - 1, layout)]
         \o [i \in 1 .. 2 * layout.words |-> Other]

Bodies ==
    LET Words == {Other, Movz(0, 0, 3), Movz(0, 1, 2), Movz(1, 0, 1),
                    [op |-> "movk", rd |-> 0, hw |-> 2, imm |-> 1],
                    [op |-> "ldr", rd |-> 0],
                    [op |-> "call", stub |-> 0], [op |-> "call", stub |-> 1]}
    IN {b \in [1 .. 4 -> Words] : b[2] = Other /\ b[3] = Other}

Symbol(name, sect, ordinal) ==
    [name |-> name, type |-> IF sect = 0 THEN "UNDF" ELSE "SECT",
     sect |-> sect, ordinal |-> ordinal]

Nlists == <<Symbol("local", 1, 0), Symbol("_a", 0, 1), Symbol("_b", 0, 2),
            Symbol("_self", 0, 0), Symbol("_flat", 0, 6)>>

Sect(name, addr, layout) ==
    [sectname |-> name, addr |-> addr, reserved1 |-> layout.first,
     reserved2 |-> layout.words, stubs |-> 2]

\* The file: its load commands, each of size 2, one behind the other.
File(cmds, code, fileoff, functions, ncmds) ==
    [magic |-> "MH_MAGIC_64", sizeofcmds |-> 2 * Len(cmds), ncmds |-> ncmds,
     at |-> [off \in {2 * (i - 1) : i \in DOMAIN cmds} |-> cmds[off \div 2 + 1]],
     image |-> [i \in 0 .. fileoff + Len(code) - 1 |->
                  IF i < fileoff THEN Other ELSE code[i - fileoff + 1]],
     functions |-> functions,
     libraries |-> LET libs == SelectSeq(cmds, LAMBDA c : c.cmd \in
                        {"LOAD_DYLIB", "LOAD_WEAK_DYLIB", "REEXPORT_DYLIB"})
                   IN [i \in DOMAIN libs |-> libs[i].name]]

Segment(name, vmaddr, fileoff, size, sections) ==
    [cmd |-> "SEGMENT_64", cmdsize |-> 2, segname |-> name, vmaddr |-> vmaddr,
     vmsize |-> size + 2, fileoff |-> fileoff, filesize |-> size,
     sections |-> sections]

Text(code, fileoff, layout) ==
    Segment("__TEXT", VmAddr, fileoff, Len(code),
            <<Sect("__text", VmAddr + 1, layout),
              Sect(layout.name, VmAddr + StubsAt, layout)>>)

Symtab == [cmd |-> "SYMTAB", cmdsize |-> 2, nlists |-> Nlists]
Dysymtab(indirect, first) ==
    [cmd |-> "DYSYMTAB", cmdsize |-> 2, indirect |-> indirect,
     iundefsym |-> first, nundefsym |-> Len(Nlists) - first]
Indirect(layout) ==
    (IF layout.first = 1 THEN <<JEV_INDIRECT_SYMBOL_LOCAL>> ELSE <<>>)
        \o <<1, 2, JEV_INDIRECT_SYMBOL_LOCAL + JEV_INDIRECT_SYMBOL_ABS, 2>>
Starts(data) == [cmd |-> "FUNCTION_STARTS", cmdsize |-> 2, data |-> data]
Dylib(cmd, name) == [cmd |-> cmd, cmdsize |-> 2, name |-> name]
Libraries == <<Dylib("LOAD_DYLIB", "x"), Dylib("LOAD_WEAK_DYLIB", "y")>>
Fileset(name) == [cmd |-> "FILESET_ENTRY", cmdsize |-> 2, name |-> name]

CodeFiles ==
    {LET code == Code(b, layout)
     IN File(<<Text(code, fileoff, layout)>> \o Libraries
               \o <<Symtab, Dysymtab(Indirect(layout), 1),
                    Starts(EncodedStarts({fileoff + f : f \in starts}, fileoff, fileoff))>>,
             code, fileoff, {fileoff + f : f \in starts}, 6) :
        b \in Bodies, layout \in Layouts, fileoff \in {0, 3},
        starts \in {{1, 3}, {5}, {3, 8}}}

\* One set of load commands in every order of its dylibs, with a defined symbol
\* among the undefined ones, without one of the commands, or malformed.
Code0 == Code(<<Other, Other, Other, Other>>, CHOOSE l \in Layouts : TRUE)
CommandsWith(indirect, libs, first) ==
    <<Segment("__ZERO", 0, 0, 0, <<>>),
      Text(Code0, 0, CHOOSE l \in Layouts : TRUE)>> \o libs
        \o <<Symtab, Dysymtab(indirect, first), Starts(<<1, 0>>),
             Fileset("com.apple.kernel"), Fileset("com.apple.kec")>>
Commands(libs, first) == CommandsWith(Indirect([first |-> 0]), libs, first)
LibOrders ==
    LET x == Dylib("LOAD_DYLIB", "x") y == Dylib("LOAD_WEAK_DYLIB", "y")
        z == Dylib("REEXPORT_DYLIB", "z")
    IN {<<x, y>>, <<y, x>>, <<z, x, y>>, <<x, z, y>>}
CommandFiles ==
    {File(Commands(libs, first), Code0, 0, {1}, Len(Commands(libs, first))) :
        libs \in LibOrders, first \in {0, 1}}
    \cup {LET cmds == SelectSeq(Commands(<<>>, 1), LAMBDA c : c.cmd # gone)
          IN File(cmds, Code0, 0, {1}, Len(cmds)) :
        gone \in {"SYMTAB", "DYSYMTAB", "FUNCTION_STARTS", "SEGMENT_64"}}

\* Indirect tables that begin with the file's own symbol, with one of a library
\* that is not in the map, with a defined one, or with an entry beyond the
\* symbol table; the first section also that of another segment.
SymbolFiles ==
    {LET cmds == (IF data THEN <<Segment("__DATA", 0, 0, 0, <<Sect("__data", 0, [first |-> 0, words |-> 4])>>)>>
                  ELSE <<>>)
                   \o CommandsWith(indirect, Libraries, 1)
     IN File(cmds, Code0, 0, {1}, Len(cmds)) :
        indirect \in {<<3, 1>>, <<4, 1>>, <<0, 1>>, <<1, JEV_INDIRECT_SYMBOL_ABS>>,
                      <<JEV_INDIRECT_SYMBOL_ABS, 1>>},
        data \in BOOLEAN}

Defective ==
    LET f == CHOOSE f \in CommandFiles : "SYMTAB" \in {f.at[o].cmd : o \in DOMAIN f.at}
    IN {[f EXCEPT !.magic = "MH_CIGAM"],
        [f EXCEPT !.at[2].cmdsize = 0], [f EXCEPT !.at[2].cmdsize = 3]}

MCFiles == CodeFiles \cup CommandFiles \cup SymbolFiles \cup Defective
=============================================================================
