---------------------------- MODULE MCDumpTools ------------------------------
(* Instances of DumpTools for TLC: a property of four bytes has one byte. *)
EXTENDS DumpTools, TLC

Prop(name, size, val) == [name |-> name, size |-> size, val |-> val]
TreeNode(nchildren, props) == [props |-> props, nchildren |-> nchildren, torn |-> FALSE]

Dec(digits) == [hex |-> FALSE, digits |-> digits]
HexText(digits) == [hex |-> TRUE, digits |-> digits]

PatchSpec(path, name, value) == [path |-> path, name |-> name, value |-> value]

ChipId(v) == PatchSpec(<<"chosen">>, "chip-id", v)
CpuState(v) == PatchSpec(<<"cpus", "cpu0">>, "cpu-state", v)
MapAddr(v) == PatchSpec(<<"chosen", "memory-map">>, "addr", v)

\* 0x1a3 and 258 do not fit into one byte, 0x0c9 only without its zero.
MCSpecs ==
    { Malformed, ChipId(Dec(<<2>>)), PatchSpec(<<"cpus">>, "num-cpus", Dec(<<1>>)),
      CpuState(HexText(<<0, 12, 9>>)), CpuState(Dec(<<2, 5, 8>>)), MapAddr(HexText(<<1, 10, 3>>)),
      MapAddr(Dec(<<>>)), PatchSpec(<<"cpus", "cpu0">>, "name", Dec(<<1>>)),
      PatchSpec(<<"defaults">>, "flag", Dec(<<1>>)), PatchSpec(<<"cpus", "cpu1">>, "cpu-state", Dec(<<1>>)),
      PatchSpec(<<"cpus", "chosen">>, "chip-id", Dec(<<1>>)),
      ChipId(Dec(<<NotADigit>>)), PatchSpec(<<"chosen">>, "internal-use-only-unit", HexText(<<7, 13>>)) }

-----------------------------------------------------------------------------
(* Proxy data.  Every partition ends in zeros unless it is full.           *)

Text(name, words) == [name |-> name, words |-> words]
Zero == Text("", <<>>)
Header(name, len) ==
    << [name |-> "", words |-> <<"header">>, len |-> len], Text("", <<name>>), Zero >>
Partition(name, variables) == Header(name, HEADER_TEXTS + Len(variables)) \o variables
Data(common, system) ==
    <<Text("", <<"apple">>)>> \o Partition("common", common) \o Partition("system", system)
                             \o <<Zero, Zero>>

Patches(specs) == Text("dt-patches", specs)
BootArgsVar(words) == Text("boot-args", words)
Other == Text("other", <<"1">>)

\* Full, empty and half full partitions; -v on either side or on none.
MCImages ==
    { Data(c, s) :
        c \in { <<>>, <<Zero, Zero>>, <<Other, Zero, Zero>>, <<BootArgsVar(<<"-v", "debug">>)>>,
                 <<Other, BootArgsVar(<<>>), Zero, Zero>>, <<BootArgsVar(<<"debug">>), Other, Zero>> },
        s \in { <<>>, <<Zero>>, <<Other>>, <<Other, BootArgsVar(<<"-v">>), Zero>>, <<BootArgsVar(<<"-x">>)>> } }

DataOfTree ==
    { Data(<<Zero, Zero>>, <<BootArgsVar(<<"-v">>), Zero>>),
      Data(<<Patches(<<ChipId(Dec(<<NotADigit>>)), CpuState(Dec(<<1>>)), MapAddr(Dec(<<2>>))>>)>>,
           <<Patches(<<Malformed>>), BootArgsVar(<<"debug">>)>>) }

-----------------------------------------------------------------------------
\* Root has five children; a walk takes defaults, chosen, memory-map, cpus and
\* cpu0 for them and does not reach cpu1, uart and aes.
Tree(iuou, nvram) ==
    << TreeNode(5, <<Prop("name", 12, "device-tree"), Prop("#size-cells", 4, 2)>>),
       TreeNode(0, <<Prop("name", 9, "defaults"), Prop("flag", 4, 0)>>),
       TreeNode(1, <<Prop("name", 7, "chosen"), iuou, nvram, Prop("chip-id", 4, 0)>>),
       TreeNode(0, <<Prop("name", 11, "memory-map"), Prop("addr", 8, 0)>>),
       TreeNode(2, <<Prop("num-cpus", 4, 2), Prop("name", 5, "cpus")>>),
       TreeNode(0, <<Prop("name", 5, "cpu0"), Prop("cpu-state", 4, 0),
                     Prop("cpu-impl-reg", 8, 33)>>),
       TreeNode(0, <<Prop("name", 5, "cpu1"), Prop("cpu-state", 4, 0)>>),
       TreeNode(0, <<Prop("name", 5, "uart")>>),
       TreeNode(0, <<Prop("name", 4, "aes")>>),
       TreeNode(0, <<>>) >>   \* the memory behind the tree

Unit(name, size) == Prop(name, size, 0)

MCTrees ==
    { Tree(Unit("internal-use-only-unit", 4), Prop("nvram-proxy-data", 8192, data)) : data \in DataOfTree }
    \cup { Tree(Unit("unit", 4), Prop("nvram", 8192, <<>>)),
            Tree(Unit("internal-use-only-unit", 8), Prop("nvram", 8192, <<>>)) }
=============================================================================
