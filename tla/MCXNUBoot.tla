----------------------------- MODULE MCXNUBoot -------------------------------
(* Instances of XNUBoot for TLC. *)
EXTENDS XNUBoot

Prop(name, size, val) == [name |-> name, size |-> size, val |-> val]
RegProp(name, base, size) == Prop(name, REG_SIZE, [base |-> base, size |-> size])
TreeNode(nchildren, props) == [props |-> props, nchildren |-> nchildren, torn |-> FALSE]
Patch4(path, name) == [path |-> path, name |-> name, value |-> [hex |-> FALSE, digits |-> <<1>>]]

\* Where iBoot put things: the payload of four units at 10 has room behind it.
PAYLOAD == 10
SourceSizes == {<<4, 2>>, <<2, 1>>}     \* of SEPFW and of the boot arguments
Layouts ==
    [machoBase : {2, 8, 12}, sepfw : {16, 22}, ba : {14, 26}, sizes : SourceSizes]

\* __TEXT and __DATA; in the last the file has them the other way round.
Seg(name, vmaddr, vmsize, fileoff, filesize) ==
    [name |-> name, vmaddr |-> vmaddr, vmsize |-> vmsize, fileoff |-> fileoff, filesize |-> filesize]
TwoSegments == <<Seg("__TEXT", 100, 2, 0, 2), Seg("__DATA", 102, 2, 2, 2)>>
Kernel(magic, thread, segments) ==
    [magic |-> magic, thread |-> thread, pc |-> 101, segments |-> segments]
Kernels ==
    { Kernel(TRUE, TRUE, TwoSegments), Kernel(FALSE, TRUE, TwoSegments),
      Kernel(TRUE, FALSE, TwoSegments),
      Kernel(TRUE, TRUE, <<Seg("__TEXT", 100, 4, 1, 4)>>),
      Kernel(TRUE, TRUE, <<Seg("__TEXT", 100, 5, 0, 4)>>),
      Kernel(TRUE, TRUE, <<Seg("__TEXT", 100, 3, 0, 2), Seg("__DATA", 103, 1, 2, 2)>>),
      Kernel(TRUE, TRUE, <<Seg("__TEXT", 102, 2, 0, 2), Seg("__DATA", 100, 2, 2, 2)>>) }

MCAddresses == 0 .. 31
File(what, base, size) == [what |-> what, base |-> base, size |-> size]
Files(l) ==
    << File("kc", PAYLOAD, 4), File("sepfw", l.sepfw, l.sizes[1]),
       File("boot args", l.ba, l.sizes[2]) >>

Map(l, others) ==
    <<Prop("name", 11, "memory-map"), RegProp("Kernel-mach_header", l.machoBase, 1),
      RegProp("Kernel-__TEXT", l.machoBase, 3), RegProp("Kernel-PYLD", PAYLOAD, 4)>> \o others

Rest(l) == <<RegProp("SEPFW", l.sepfw, l.sizes[1]), RegProp("BootArgs", l.ba, l.sizes[2])>>

Maps(l) ==
    { Map(l, Rest(l)),
      Map(l, <<RegProp("MemoryMapReserved-0", 0, 0)>> \o Rest(l)),
      Map(l, <<Prop("Kernel-flags", 4, 0)>> \o Rest(l)),
      Map(l, <<Prop("SEPFW", 8, 0)>>), Map(l, <<Head(Rest(l))>>), Map(l, <<Last(Rest(l))>>),
      Remove(Map(l, Rest(l)), RegProp("Kernel-PYLD", PAYLOAD, 4)),
      Remove(Map(l, Rest(l)), RegProp("Kernel-mach_header", l.machoBase, 1)),
      Remove(Map(l, Rest(l)), RegProp("Kernel-__TEXT", l.machoBase, 3)) }

\* The proxy data whose common partition has these patches.
Text(name, words) == [name |-> name, words |-> words]
Header(len) ==
    << [name |-> "", words |-> <<"header">>, len |-> len], Text("", <<"part">>), Text("", <<>>) >>
Data(patches) ==
    <<Text("", <<"apple">>)>> \o Header(HEADER_TEXTS + 1) \o <<Text("dt-patches", patches)>>
        \o Header(HEADER_TEXTS) \o <<Text("", <<>>), Text("", <<>>)>>

MCTree(map, patches) ==
    << TreeNode(5, <<Prop("name", 12, "device-tree")>>),
       TreeNode(1, <<Prop("name", 7, "chosen"), Prop("nvram-proxy-data", 8192, Data(patches)),
                     Prop("chip-id", 4, 0)>>),
       TreeNode(0, map),
       TreeNode(2, <<Prop("name", 5, "cpus")>>),
       TreeNode(0, <<Prop("name", 5, "cpu0"), Prop("state", 4, 0), Prop("cpu-impl-reg", 8, 33)>>),
       TreeNode(0, <<Prop("name", 5, "cpu1"), Prop("cpu-impl-reg", 8, 34)>>),
       TreeNode(0, <<>>) >>

PatchLists ==
    { <<>>, <<Patch4(<<"cpus", "cpu0">>, "state")>>,
      <<Patch4(<<"chosen">>, "chip-id"), Patch4(<<"cpus", "cpu0">>, "state")>> }

NoMap == [MCTree(<<>>, <<>>) EXCEPT ![3].props = <<Prop("name", 4, "map")>>]

PlainLayout == [machoBase |-> 2, sepfw |-> 22, ba |-> 26, sizes |-> <<4, 2>>]
PlainTree == MCTree(Map(PlainLayout, Rest(PlainLayout)), <<Patch4(<<"chosen">>, "chip-id")>>)

MCInputs ==
    UNION { [flags : {{"-v"}}, tree : {MCTree(m, p) : m \in Maps(l), p \in PatchLists},
             kc : Kernels, files : {Files(l)}] : l \in Layouts }
    \cup [flags : {{"null"}, {}, {"-v"}, {"-v", "-no-dt-patches"}}, tree : {NoMap, PlainTree},
          kc : {Kernel(TRUE, TRUE, TwoSegments)}, files : {Files(PlainLayout)}]
=============================================================================
