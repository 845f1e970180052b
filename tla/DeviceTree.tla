----------------------------- MODULE DeviceTree ------------------------------
(***************************************************************************)
(* The flattened Apple device tree (lib/jevmachopp/DeviceTree.cpp and .h): *)
(* walking it, looking nodes and properties up and patching it in place.   *)
(* A tree is the sequence of its nodes in the order of the buffer, which   *)
(* is preorder, and then one element for the memory behind it.  A node     *)
(* [props, nchildren, torn] counts its direct children; a property is      *)
(* [name, size, val].  A torn node is one whose property count has been    *)
(* overwritten with 0: its properties are no longer found, nor is whatever *)
(* follows it found where a node begins.                                   *)
(***************************************************************************)
EXTENDS Nvram, Hex

CONSTANTS
    Word4   \* bytes in a property of four bytes; it is 4, or less for TLC's integers

ASSUME DeviceTreeAssumption == Word4 \in Nat \ {0}

Nil == 0            \* nullptr
Undefined == -1     \* what a walk past a torn node leads to
Root == 1

MAX_CPUS == 16

-----------------------------------------------------------------------------
\* The range that DTProp::Iterator walks, which ends when the count is used up.
properties(node) == IF node.torn THEN <<>> ELSE node.props

PropertyNamed(node, name) ==
    SelectInSeq(properties(node), LAMBDA p : p.name = name)

\* What children() iterates over: the iterator steps from the end of a node's
\* properties to the next node, which is the first of that node's own children
\* when it has any; it stops after nchildren nodes.
Children(dt, n) == SubSeq(dt, n + 1, n + dt[n].nchildren)

IsNamed(node, name) ==
    LET p == PropertyNamed(node, "name")
    IN p # Nil /\ node.props[p].val = name

ChildNamed(dt, n, name) ==
    LET found == SelectInSeq(Children(dt, n), LAMBDA c : IsNamed(c, name))
        tear == SelectInSeq(Children(dt, n), LAMBDA c : c.torn)
    IN IF found # Nil /\ (tear = Nil \/ found < tear) THEN n + found
       ELSE IF tear # Nil /\ tear < Len(Children(dt, n)) THEN Undefined
       ELSE Nil

\* The components of a path after its leading slash, each looked up among the
\* children of the node the walk began at, not of the one found before.
LookupNode(dt, n, path) ==
    FoldLeft(LAMBDA res, name : IF res \in {Nil, Undefined} THEN res
                                ELSE ChildNamed(dt, n, name),
             n, path)

\* <<node, property>>; either is Nil when it is missing.
LookupProperty(dt, n, path, name) ==
    LET node == LookupNode(dt, n, path)
    IN IF node \in {Nil, Undefined} THEN <<node, Nil>>
       ELSE <<node, PropertyNamed(dt[node], name)>>

\* getCPUImplRegAddrs: one per walked child of "cpus" that has the property.
CpuImplRegs(dt) ==
    LET cpus == ChildNamed(dt, Root, "cpus")
        regs == SelectSeq(Children(dt, cpus),
                          LAMBDA c : PropertyNamed(c, "cpu-impl-reg") # Nil)
    IN IF cpus \in {Nil, Undefined} THEN <<>>
       ELSE [i \in DOMAIN regs |->
                regs[i].props[PropertyNamed(regs[i], "cpu-impl-reg")].val]

-----------------------------------------------------------------------------
(* Patching.  A specification "path#name=value" that does not split into   *)
(* its three parts is malformed.                                           *)

PatchSpecs == [path : Seq(STRING), name : STRING, value : [hex : BOOLEAN, digits : Seq(Nat)]]

NoText == [hex |-> FALSE, digits |-> <<>>]
Malformed == [path |-> <<>>, name |-> "", value |-> NoText]

Target(dt, spec) == LookupProperty(dt, Root, spec.path, spec.name)

\* The value as an integer of the property's size, which is four or eight.
Parsed(spec, size) ==
    IF size \in {4, 8} THEN sv2int(spec.value, (size \div 4) * Word4) ELSE NoInt

\* The patch finds its property and can parse the value for its size.
Applies(dt, spec) ==
    /\ spec # Malformed
    /\ LET t == Target(dt, spec)
       IN t[2] # Nil /\ Parsed(spec, dt[t[1]].props[t[2]].size) # NoInt

\* What lies right behind property p of node n: the name of the next property,
\* or the property count of the next node, loses its first four bytes.
ZeroBehind(dt, n, p) ==
    IF p < Len(dt[n].props) THEN [dt EXCEPT ![n].props[p + 1].name = ""]
    ELSE [dt EXCEPT ![n + 1].torn = TRUE]

\* Mutations of SetProperty: an 8-byte property is written with 16 bytes; a
\* property of 8 bytes is written with 4.
SetPropertyWide(dt, n, p, word) ==
    ZeroBehind([dt EXCEPT ![n].props[p].val = word], n, p)

SetPropertyNarrow(dt, n, p, word) ==
    LET set == [dt EXCEPT ![n].props[p].val = word % 256 ^ Word4]
    IN IF dt[n].props[p].size = 4 THEN ZeroBehind(set, n, p) ELSE set

\* A property of either size is assigned through a uint64_t reference.
SetProperty(dt, n, p, word) ==
    LET set == [dt EXCEPT ![n].props[p].val = word]
    IN IF dt[n].props[p].size = 4 THEN ZeroBehind(set, n, p) ELSE set

\* processPatch, for a specification that applies.
Patched(dt, spec) ==
    LET t == Target(dt, spec)
    IN SetProperty(dt, t[1], t[2], Parsed(spec, dt[t[1]].props[t[2]].size))

\* processPatches of the NVRAM: the property with the proxy data, the variable
\* dt-patches of its common partition, and the patches in there.
ProxyData(dt) == LookupProperty(dt, Root, <<"chosen">>, "nvram-proxy-data")
DataAt(dt, t) == dt[t[1]].props[t[2]].val
PatchesVar(data) == varNamed(data, common_part, "dt-patches")
NvramPatches(dt) ==
    LET t == ProxyData(dt)
        data == DataAt(dt, t)
    IN IF t[2] = Nil THEN <<>>
       ELSE IF PatchesVar(data) = NoVar THEN <<>>
       ELSE varValue(data, PatchesVar(data))

-----------------------------------------------------------------------------
\* A tree as it is read: no node counts more children than follow it, nothing is
\* torn, and the last element is the memory behind the tree.
IsTree(t) ==
    /\ t \in Seq(Range(t)) /\ t # <<>> /\ t[Len(t)].props = <<>>
    /\ \A n \in DOMAIN t :
          /\ t[n] = [props |-> t[n].props, nchildren |-> t[n].nchildren, torn |-> FALSE]
          /\ t[n].nchildren \in Nat /\ n + t[n].nchildren <= Len(t)
          /\ t[n].props \in Seq(Range(t[n].props))
          /\ \A p \in DOMAIN t[n].props :
                LET prop == t[n].props[p]
                IN prop = [name |-> prop.name, size |-> prop.size, val |-> prop.val]

\* Proxy data are in one place, where the lookup of them leads; they are no
\* integer, and the words of their dt-patches specifications.
HasProxyData(t) ==
    \A n \in DOMAIN t : \A p \in DOMAIN t[n].props :
        LET prop == t[n].props[p]
        IN prop.name = "nvram-proxy-data" =>
              /\ <<n, p>> = ProxyData(t)
              /\ prop.size \notin {4, 8} /\ IsProxyData(prop.val)
              /\ PatchesVar(prop.val) # NoVar =>
                    varValue(prop.val, PatchesVar(prop.val)) \in Seq(PatchSpecs)
=============================================================================
