------------------------------- MODULE XNUBoot -------------------------------
(***************************************************************************)
(* load_and_prep_xnu_kernelcache (lib/jevmachopp/XNUBoot.cpp) and the jump *)
(* stub it leaves for m1n1 (m1n1.cpp).  The kernelcache that was loaded as *)
(* a payload is extended in place by copies of SEPFW, the boot arguments   *)
(* and the stub; the memory map in the device tree is rewritten to say     *)
(* where things are after the stub has moved the image down to the base of *)
(* the running kernel; the tree is patched; and the stub moves the image.  *)
(* Addresses and sizes count units of eight bytes.                         *)
(***************************************************************************)
EXTENDS DeviceTree, TLC

CONSTANTS
    Addresses,  \* the mapped memory
    Inputs      \* what iBoot may leave behind: [flags, tree, kc, files]

STUB_SIZE == 1
PAGE == 512             \* 4096 bytes
REG_SIZE == 16          \* sizeof(DTRegister), the size of a property
RESERVED_FROM == 99     \* MemoryMapReserved-%d counts down from here

VARIABLES
    flags,      \* words of the command line; "null": there are no boot arguments
    kc,         \* [magic, thread, pc, segments] of the kernelcache
    dt,         \* the device tree
    memory,     \* address -> what is there
    before,     \* the tree and the memory as iBoot left them
    stage,      \* the step to take, or how the function has ended
    turn,       \* index of the loop the step is in
    locals,     \* addresses the function has computed so far, the number of the
                \* next reserved region and the region the next segment gets
    stub,       \* registers x1, x2 and x3 of the stub
    rvbar       \* register -> the reset address it was given

vars == <<flags, kc, dt, memory, before, stage, turn, locals, stub, rvbar>>
input == <<flags, kc, before, rvbar>>

Ended == {"returned", "aborted", "entered", "runaway"}

\* The loaded kernelcache's ranges, which its segments are added to one by one; none
\* of them is empty.
VmMin(k) == Min({s.vmaddr : s \in Range(k.segments)})
VmSize(k) == Max({s.vmaddr + s.vmsize : s \in Range(k.segments)}) - VmMin(k)
FileMin(k) == Min({s.fileoff : s \in Range(k.segments)})
FileSize(k) == Max({s.fileoff + s.filesize : s \in Range(k.segments)}) - FileMin(k)

\* memory_map_node; its properties are the regions of the memory map.
MemoryMap(t) ==
    LET chosen == ChildNamed(t, Root, "chosen")
    IN IF chosen \in {Nil, Undefined} THEN chosen ELSE ChildNamed(t, chosen, "memory-map")
Region(t, name) == PropertyNamed(t[MemoryMap(t)], name)
Reg(t, name) == t[MemoryMap(t)].props[Region(t, name)].val
IsRegister(t, name) == t[MemoryMap(t)].props[Region(t, name)].size = REG_SIZE
HasRegister(t, name) == Region(t, name) # Nil /\ IsRegister(t, name)

\* Registers hold numbers, and there is memory where SEPFW and the boot arguments
\* are, and where the image is and where it will be moved to, also for what it is
\* extended by.
HasRoom(t, k) ==
    /\ \A name \in {"Kernel-mach_header", "Kernel-PYLD", "SEPFW", "BootArgs"} :
          HasRegister(t, name) => Reg(t, name).base \in Nat /\ Reg(t, name).size \in Nat
    /\ (\A name \in {"Kernel-mach_header", "Kernel-PYLD", "SEPFW", "BootArgs"} : HasRegister(t, name)) =>
          LET size == VmSize(k) + Reg(t, "SEPFW").size + Reg(t, "BootArgs").size
          IN /\ \A name \in {"Kernel-mach_header", "Kernel-PYLD"} :
                   Reg(t, name).base .. Reg(t, name).base + size - 1 \subseteq Addresses
             /\ \A name \in {"SEPFW", "BootArgs"} :
                   Reg(t, name).base .. Reg(t, name).base + Reg(t, name).size - 1 \subseteq Addresses

ASSUME XNUBootAssumption ==
    \A in \in Inputs :
        /\ in.flags \subseteq {"null", "-v", "-no-dt-patches"}
        /\ \A s \in Range(in.kc.segments) : s.vmsize > 0 /\ s.filesize > 0
        /\ VmSize(in.kc) \in Nat \ {0}
        /\ MemoryMap(in.tree) # Nil => HasRoom(in.tree, in.kc)

\* Mutation of MemCpy: one unit too many.
MemCpyOneMore(m, from, to, size) ==
    [a \in DOMAIN m |-> IF a \in to .. to + size THEN m[a - to + from] ELSE m[a]]

\* memcpy from one place to another that does not overlap it.
MemCpy(m, from, to, size) ==
    [a \in DOMAIN m |-> IF a \in to .. to + size - 1 THEN m[a - to + from] ELSE m[a]]

\* jev-xnu-load plays iBoot: it copies the files [what, base, size] to their places,
\* one after the other.
Loaded(files) ==
    [a \in Addresses |->
        LET k == SelectLastInSeq(files, LAMBDA f : a \in f.base .. f.base + f.size - 1)
        IN IF k = 0 THEN <<"zero", 0>> ELSE <<files[k].what, a - files[k].base>>]

Init ==
    /\ \E in \in Inputs :
          /\ flags = in.flags /\ kc = in.kc /\ dt = in.tree /\ memory = Loaded(in.files)
          /\ before = [dt |-> in.tree, memory |-> Loaded(in.files)]
    /\ stage = "boot args" /\ turn = 1
    /\ locals = [machoBase |-> 0, payload |-> 0, entry |-> 0, sepfw |-> 0, ba |-> 0, stub |-> 0,
             number |-> RESERVED_FROM, region |-> Nil]
    /\ stub = [x1 |-> 0, x2 |-> 0, x3 |-> 0] /\ rvbar = <<>>

Goto(step) == stage' = step /\ turn' = 1
End(how) == stage' = how /\ UNCHANGED <<turn, input, dt, memory, locals, stub>>

-----------------------------------------------------------------------------
(* Finding everything.  A missing part is reported and the function        *)
(* returns; a region that is not a register fails the assertion of as_reg. *)

IsAskedFor == "null" \notin flags /\ "-v" \in flags /\ MemoryMap(dt) # Nil

BootArgs ==
    /\ stage = "boot args"
    /\ \/ ~IsAskedFor /\ End("returned")
       \/ IsAskedFor /\ Goto("mach_header") /\ UNCHANGED <<input, dt, memory, locals, stub>>

Missing(step, name) ==
    /\ stage = step
    /\ \/ Region(dt, name) = Nil /\ End("returned")
       \/ Region(dt, name) # Nil /\ ~IsRegister(dt, name) /\ End("aborted")

Found(step, name, next) ==
    /\ stage = step /\ HasRegister(dt, name)
    /\ Goto(next) /\ UNCHANGED <<input, dt, memory, stub>>

MachHeader ==
    \/ Missing("mach_header", "Kernel-mach_header")
    \/ /\ Found("mach_header", "Kernel-mach_header", "payload")
       /\ locals' = [locals EXCEPT !.machoBase = Reg(dt, "Kernel-mach_header").base]

Payload ==
    \/ Missing("payload", "Kernel-PYLD")
    \/ /\ Found("payload", "Kernel-PYLD", "kernelcache")
       /\ locals' = [locals EXCEPT !.payload = Reg(dt, "Kernel-PYLD").base]

KernelcacheIsHandled ==
    kc.magic /\ FileMin(kc) = 0 /\ FileSize(kc) = VmSize(kc) /\ kc.thread

Kernelcache ==
    /\ stage = "kernelcache"
    /\ \/ ~KernelcacheIsHandled /\ End("returned")
       \/ /\ KernelcacheIsHandled /\ Goto("sepfw")
          /\ locals' = [locals EXCEPT !.entry = locals.machoBase + kc.pc - VmMin(kc)]
          /\ UNCHANGED <<input, dt, memory, stub>>

Sepfw ==
    \/ Missing("sepfw", "SEPFW")
    \/ /\ Found("sepfw", "SEPFW", "copy sepfw")
       /\ locals' = [locals EXCEPT !.sepfw = locals.payload + VmSize(kc)]

-----------------------------------------------------------------------------
(* Extending the image.  SEPFW is copied before the boot arguments are     *)
(* looked for.                                                             *)

CopyTo(name, to) == memory' = MemCpy(memory, Reg(dt, name).base, to, Reg(dt, name).size)

CopySepfw ==
    /\ stage = "copy sepfw" /\ Goto("boot args region")
    /\ CopyTo("SEPFW", locals.sepfw)
    /\ UNCHANGED <<input, dt, locals, stub>>

BootArgsRegion ==
    \/ Missing("boot args region", "BootArgs")
    \/ /\ Found("boot args region", "BootArgs", "copy boot args")
       /\ LET ba == locals.sepfw + Reg(dt, "SEPFW").size
          IN locals' = [locals EXCEPT !.ba = ba, !.stub = ba + Reg(dt, "BootArgs").size]

CopyBootArgs ==
    /\ stage = "copy boot args" /\ Goto("copy stub")
    /\ CopyTo("BootArgs", locals.ba)
    /\ UNCHANGED <<input, dt, locals, stub>>

CopyStub ==
    /\ stage = "copy stub" /\ Goto("reserve")
    /\ memory' = [a \in DOMAIN memory |->
                    IF a \in locals.stub .. locals.stub + STUB_SIZE - 1 THEN <<"stub", a - locals.stub>>
                    ELSE memory[a]]
    /\ UNCHANGED <<input, dt, locals, stub>>

-----------------------------------------------------------------------------
(* Rewriting the memory map.                                               *)

Regions == dt[MemoryMap(dt)].props
SetRegion(p, name, base, size) ==
    [dt EXCEPT ![MemoryMap(dt)].props[p].name = name,
               ![MemoryMap(dt)].props[p].val = [base |-> base, size |-> size]]
KernelName(name) == "Kernel-" \o name
ReservedName(number) == "MemoryMapReserved-" \o ToString(number)
StartsWith(name, prefix) == IsPrefix(prefix, name)

\* The next region that has the prefix, from p on: a filter view looks for it
\* when it is advanced, in the names as they are then.
NextWithPrefix(prefix, p) ==
    LET k == SelectInSeq(SubSeq(Regions, p, Len(Regions)),
                         LAMBDA r : StartsWith(r.name, prefix))
    IN IF k = 0 THEN Nil ELSE p + k - 1

NextNumber(number) == number - 1

\* The loop over the regions of the running kernel: each is emptied and renamed.
Reserve ==
    /\ stage = "reserve"
    /\ LET p == NextWithPrefix("Kernel-", turn)
       IN \/ /\ p = Nil /\ Goto("segments")
             /\ locals' = [locals EXCEPT !.region = NextWithPrefix("MemoryMapReserved-", 1)]
             /\ UNCHANGED <<input, dt, memory, stub>>
          \/ /\ p # Nil
             /\ \/ /\ Regions[p].name = KernelName("mach_header")
                   /\ turn' = p + 1 /\ UNCHANGED <<stage, input, dt, memory, locals, stub>>
                \/ /\ Regions[p].name # KernelName("mach_header")
                   /\ Regions[p].size # REG_SIZE /\ End("aborted")
                \/ /\ Regions[p].name # KernelName("mach_header")
                   /\ Regions[p].size = REG_SIZE
                   /\ dt' = SetRegion(p, ReservedName(locals.number), 0, 0)
                   /\ locals' = [locals EXCEPT !.number = NextNumber(locals.number)]
                   /\ turn' = p + 1 /\ UNCHANGED <<stage, input, memory, stub>>

\* The loop over the segments: each takes the next reserved region, for which
\* the code does not check that there is one.
Segment ==
    /\ stage = "segments"
    /\ IF turn > Len(kc.segments) THEN Goto("regs") /\ UNCHANGED <<input, dt, memory, locals, stub>>
       ELSE LET s == kc.segments[turn]
                p == locals.region
            IN IF p = Nil \/ s.vmsize # s.filesize THEN End("aborted")
               ELSE IF Regions[p].size # REG_SIZE THEN End("aborted")
               ELSE /\ dt' = SetRegion(p, KernelName(s.name), locals.machoBase + s.fileoff, s.filesize)
                    /\ locals' = [locals EXCEPT !.region = NextWithPrefix("MemoryMapReserved-", p + 1)]
                    /\ turn' = turn + 1 /\ UNCHANGED <<stage, input, memory, stub>>

\* Mutation of Moved: the address before the move.
NotMoved(address) == address

\* Where something that was copied behind the payload is after the stub's move.
Moved(address) == address - locals.payload + locals.machoBase

\* SEPFW and the boot arguments are where the stub will have moved them.
Regs ==
    /\ stage = "regs" /\ Goto("patch")
    /\ LET m == MemoryMap(dt)
       IN dt' = [dt EXCEPT ![m].props[Region(dt, "SEPFW")].val.base = Moved(locals.sepfw),
                           ![m].props[Region(dt, "BootArgs")].val.base = Moved(locals.ba)]
    /\ UNCHANGED <<input, memory, locals, stub>>

-----------------------------------------------------------------------------
(* Patching the tree, and leaving everything to the stub.                  *)

Patches == IF "-no-dt-patches" \in flags THEN <<>> ELSE NvramPatches(dt)
AfterPatches(specs) ==
    LET after[k \in 0 .. Len(specs)] ==
            IF k = 0 THEN dt
            ELSE IF Applies(after[k - 1], specs[k]) THEN Patched(after[k - 1], specs[k])
            ELSE after[k - 1]
    IN after[Len(specs)]

\* processPatches of the NVRAM, whose result is only printed.
Patch ==
    /\ stage = "patch"
    /\ \/ /\ dt' = AfterPatches(Patches) /\ Goto("next stage")
          /\ UNCHANGED <<input, memory, locals, stub>>
       \/ /\ \E k \in DOMAIN Patches :
                LET spec == Patches[k]
                IN spec # Malformed
                   /\ Target(AfterPatches(SubSeq(Patches, 1, k - 1)), spec)[1] = Undefined
          /\ End("aborted")

\* In a build for m1n1 every CPU of the tree but the first is to start at the
\* entry's page.  The arguments of the stub.
NextStage ==
    /\ stage = "next stage" /\ Goto("stub")
    /\ LET regs == CpuImplRegs(dt)
       IN rvbar' = [r \in ToSet(SubSeq(regs, 2, Len(regs))) |-> locals.entry - (locals.entry % PAGE)]
    /\ stub' = [x1 |-> locals.payload, x2 |-> locals.machoBase, x3 |-> locals.stub - locals.payload]
    /\ UNCHANGED <<flags, kc, before, dt, memory, locals>>

\* Mutation of Left: the loop counts 32 bytes a round.
LeftFar(x3) == x3 - 4

\* sub x3, x3, #16
Left(x3) == x3 - 2

\* One round of xnu_jump_stub: two registers are loaded, stored, and counted;
\* the loop ends when nothing is left, and never when the count jumps over zero.
Stub ==
    /\ stage = "stub"
    /\ \/ ~ {stub.x1 + 1, stub.x2 + 1} \subseteq Addresses /\ End("runaway")
       \/ /\ {stub.x1 + 1, stub.x2 + 1} \subseteq Addresses
          /\ memory' = [memory EXCEPT ![stub.x2] = memory[stub.x1],
                                      ![stub.x2 + 1] = memory[stub.x1 + 1]]
          /\ stub' = [x1 |-> stub.x1 + 2, x2 |-> stub.x2 + 2, x3 |-> Left(stub.x3)]
          /\ stage' = IF Left(stub.x3) = 0 THEN "entered" ELSE "stub"
          /\ UNCHANGED <<turn, input, dt, locals>>

Next ==
    \/ BootArgs \/ MachHeader \/ Payload \/ Kernelcache \/ Sepfw \/ CopySepfw
    \/ BootArgsRegion \/ CopyBootArgs \/ CopyStub \/ Reserve \/ Segment \/ Regs
    \/ Patch \/ NextStage \/ Stub

Spec == Init /\ [][Next]_vars

-----------------------------------------------------------------------------
(* What the function takes for granted of what iBoot leaves behind.        *)

\* What the names of regions and of other properties begin with.
OtherNames == {NoName, "name", "SEPFW", "BootArgs", "nvram-proxy-data"}
NamesAreApart(in) ==
    /\ \A name \in OtherNames :
          ~ StartsWith(name, "Kernel-") /\ ~ StartsWith(name, "MemoryMapReserved-")
    /\ \A s \in Range(in.kc.segments) :
          StartsWith(KernelName(s.name), "Kernel-") /\ KernelName(s.name) # KernelName("mach_header")
    /\ \A i, j \in DOMAIN in.kc.segments :
          KernelName(in.kc.segments[i].name) = KernelName(in.kc.segments[j].name) => i = j
    /\ MemoryMap(in.tree) # Nil =>
          \A k \in DOMAIN in.tree[MemoryMap(in.tree)].props :
              LET name == ReservedName(RESERVED_FROM + 1 - k)
              IN StartsWith(name, "MemoryMapReserved-") /\ ~ StartsWith(name, "Kernel-")

\* Regions are in the memory map, and SEPFW and BootArgs are there once.
RegionsAreInTheMap(t) ==
    \A n \in DOMAIN t : \A p \in DOMAIN t[n].props :
        LET name == t[n].props[p].name
        IN /\ StartsWith(name, "Kernel-") => n = MemoryMap(t)
           /\ name \in {"SEPFW", "BootArgs"} => n = MemoryMap(t) /\ p = Region(t, name)

\* The kernel begins in one of its segments.
SegmentsAreSound(k) ==
    /\ k.segments \in Seq(Range(k.segments))
    /\ \A s \in Range(k.segments) : {s.vmaddr, s.vmsize, s.fileoff, s.filesize} \subseteq Nat
    /\ \E s \in Range(k.segments) : k.pc \in s.vmaddr .. s.vmaddr + s.vmsize - 1

\* The first units of a file are at an address.
IsAt(m, base, what, size) == \A k \in 0 .. size - 1 : m[base + k] = <<what, k>>

\* The map says where the files are that the function copies and moves.
IsThere(t, m, name, what, size) ==
    HasRegister(t, name) =>
        /\ Reg(t, name) = [base |-> Reg(t, name).base, size |-> Reg(t, name).size]
        /\ IsAt(m, Reg(t, name).base, what, size)
FilesAreThere(in) ==
    LET t == in.tree
        m == Loaded(in.files)
    IN /\ IsThere(t, m, "Kernel-PYLD", "kc", FileSize(in.kc))
       /\ IsThere(t, m, "SEPFW", "sepfw", Reg(t, "SEPFW").size)
       /\ IsThere(t, m, "BootArgs", "boot args", Reg(t, "BootArgs").size)

ASSUME iBootAssumption ==
    \A in \in Inputs :
        /\ IsTree(in.tree) /\ HasProxyData(in.tree) /\ NamesAreApart(in)
        /\ SegmentsAreSound(in.kc)
        /\ MemoryMap(in.tree) # Nil => RegionsAreInTheMap(in.tree) /\ FilesAreThere(in)

-----------------------------------------------------------------------------
\* Returning early leaves the tree as it was, and of the memory it has changed
\* at most what lies behind the payload.
BailingOutIsHarmless ==
    stage = "returned" =>
        /\ dt = before.dt
        /\ \A a \in DOMAIN memory : memory[a] # before.memory[a] =>
              /\ locals.sepfw > 0
              /\ a \in locals.payload + VmSize(kc) .. locals.sepfw + Reg(dt, "SEPFW").size - 1

\* The stub's loop runs away only when what it moves is not a whole number of
\* pairs of registers.
StubEnds == stage = "runaway" => (locals.stub - locals.payload) % 2 = 1

Disjoint(a, sizeA, b, sizeB) == a + sizeA <= b \/ b + sizeB <= a

\* Nothing is overwritten before it is copied: neither copy hits the source of
\* SEPFW or of the boot arguments, and the image moves down, if it moves.
LayoutIsSound ==
    LET old == before.dt
        area == Reg(old, "SEPFW").size + Reg(old, "BootArgs").size
    IN /\ Disjoint(Reg(old, "SEPFW").base, Reg(old, "SEPFW").size, locals.sepfw, area)
       /\ Disjoint(Reg(old, "BootArgs").base, Reg(old, "BootArgs").size, locals.sepfw, area)
       /\ locals.machoBase <= locals.payload

\* The stub has moved the whole image, as the function has put it together: the
\* payload, then SEPFW and the boot arguments as iBoot left them.
ImageIsMoved ==
    LET old == before.dt
    IN /\ \A k \in 0 .. VmSize(kc) - 1 :
             memory[locals.machoBase + k] = before.memory[locals.payload + k]
       /\ \A k \in 0 .. Reg(old, "SEPFW").size - 1 :
             memory[Moved(locals.sepfw) + k] = before.memory[Reg(old, "SEPFW").base + k]
       /\ \A k \in 0 .. Reg(old, "BootArgs").size - 1 :
             memory[Moved(locals.ba) + k] = before.memory[Reg(old, "BootArgs").base + k]

Holds(name, what, from) ==
    Region(dt, name) # Nil => \A k \in 0 .. Reg(dt, name).size - 1 :
        memory[Reg(dt, name).base + k] = <<what, from + k>>

\* When the kernel is entered, the image is in its place, and each region of the
\* map holds what its name says: its part of the new kernelcache, SEPFW, the boot
\* arguments; and the entry is in the new kernel when its segments lie in memory
\* as in the file.
MapIsTrue ==
    stage = "entered" /\ LayoutIsSound =>
        /\ ImageIsMoved
        /\ MemoryMap(dt) > 0 =>
              /\ \A s \in Range(kc.segments) : Holds(KernelName(s.name), "kc", s.fileoff)
              /\ Holds("SEPFW", "sepfw", 0) /\ Holds("BootArgs", "boot args", 0)
        /\ (\A s \in Range(kc.segments) : s.vmaddr - VmMin(kc) = s.fileoff) =>
              memory[locals.entry] = <<"kc", kc.pc - VmMin(kc)>>
=============================================================================
