------------------------------ MODULE DTreeDump ------------------------------
(***************************************************************************)
(* jev-dtree-dump: dump_dtree, then the patches of the command line one by *)
(* one (-P), as one list (-m), and those of the NVRAM variable dt-patches. *)
(* The walks of all of them go over the tree as the earlier patches left   *)
(* it.                                                                     *)
(***************************************************************************)
EXTENDS DeviceTree

CONSTANTS
    Trees,      \* the device trees that may be read
    Specs,      \* patch specifications that may be given
    MaxPatches  \* length of a list of them (a bound)

ASSUME DTreeDumpAssumption ==
    /\ Specs \subseteq PatchSpecs /\ MaxPatches \in Nat
    /\ \A t \in Trees : IsTree(t) /\ HasProxyData(t)

VARIABLES
    dt,         \* the tree in memory
    tree,       \* the tree as it was read
    phase,      \* "dump", the group of patches being applied, or "done"
    group,      \* that group's specifications
    results,    \* what processPatch returned for those done so far
    good,       \* of a list: what processPatches will return
    written,    \* <<node, property>> of every successful patch so far
    boot_args,  \* the boot-args that dump_dtree has printed, or Null
    verbose,    \* whether it has found -v among them
    status      \* "running" or "aborted"

treeVars == <<dt, tree, phase, group, results, good, written, boot_args, verbose, status>>
printed == <<boot_args, verbose>>

Lists == BoundedSeq(Specs, MaxPatches)

TreeInit ==
    /\ tree \in Trees /\ dt = tree
    /\ phase = "dump" /\ group = <<>> /\ results = <<>> /\ good = TRUE
    /\ written = {} /\ boot_args = Null /\ verbose = FALSE /\ status = "running"

Abort ==
    /\ status' = "aborted"
    /\ UNCHANGED <<dt, tree, phase, group, results, good, written, printed>>

Begin(next, specs) ==
    /\ phase' = next /\ group' = specs /\ results' = <<>> /\ good' = TRUE
    /\ UNCHANGED <<tree, written, status>>

-----------------------------------------------------------------------------
\* The boot-args of the system partition, which dump_dtree looks up once and,
\* for -v, system_hasBootArg once more.
DumpedBootArgs ==
    LET t == ProxyData(dt)
        data == DataAt(dt, t)
        var == varNamed(data, system_part(data), "boot-args")
    IN IF t[2] = Nil THEN Null ELSE varValue(data, var)

\* dump_dtree sets internal-use-only-unit, if it is there, to 1; it must have
\* four bytes.  Then it prints the boot arguments and the CPUs' registers.
Dump ==
    /\ phase = "dump"
    /\ LET t == LookupProperty(dt, Root, <<"chosen">>, "internal-use-only-unit")
           size == dt[t[1]].props[t[2]].size
       IN \/ /\ t[2] # Nil => size = 4
             /\ dt' = IF t[2] = Nil THEN dt ELSE [dt EXCEPT ![t[1]].props[t[2]].val = 1]
             /\ boot_args' = DumpedBootArgs
             /\ verbose' = (DumpedBootArgs # Null
                               /\ rangeContainsStr(rangeForSpaceDelimitedCStr(DumpedBootArgs), "-v"))
             /\ \E specs \in Lists : Begin("patch", specs)
          \/ t[2] # Nil /\ size # 4 /\ Abort

\* Mutation of Accumulate: the last patch decides.
AccumulateLast(before, ok) == ok

\* good &= ...
Accumulate(before, ok) == before /\ ok

\* One round of the loops over patches.  A patch that fails changes nothing, and
\* the next is tried all the same.
PatchNext ==
    /\ phase \in {"patch", "multipatch", "nvram"}
    /\ Len(results) < Len(group)
    /\ LET spec == group[Len(results) + 1]
           ok == Applies(dt, spec)
       IN \/ /\ results' = Append(results, ok)
             /\ good' = IF phase = "patch" THEN good ELSE Accumulate(good, ok)
             /\ dt' = IF ok THEN Patched(dt, spec) ELSE dt
             /\ written' = IF ok THEN written \cup {Target(dt, spec)} ELSE written
             /\ UNCHANGED <<tree, phase, group, printed, status>>
          \/ spec # Malformed /\ Target(dt, spec)[1] = Undefined /\ Abort

Through(p) == phase = p /\ Len(results) = Len(group) /\ UNCHANGED <<dt, printed>>

\* The -P arguments are done; a list may follow, or none.
Multipatch == Through("patch") /\ \E specs \in Lists : Begin("multipatch", specs)

\* processPatches of the NVRAM: without chosen or its nvram-proxy-data it fails,
\* without the variable dt-patches there is nothing to do.
NvramPatch ==
    /\ Through("multipatch")
    /\ LET t == ProxyData(dt)
       IN \/ t[1] = Undefined /\ Abort
          \/ t[2] # Nil /\ Begin("nvram", NvramPatches(dt))
          \/ /\ t[2] = Nil
             /\ phase' = "done" /\ group' = <<>> /\ results' = <<>> /\ good' = FALSE
             /\ UNCHANGED <<tree, written, status>>

\* The -v option is not given, or the NVRAM's list is through.
Done ==
    \/ Through("multipatch") /\ Begin("done", <<>>)
    \/ /\ Through("nvram") /\ phase' = "done"
       /\ UNCHANGED <<tree, group, results, good, written, status>>

TreeNext ==
    /\ status = "running"
    /\ Dump \/ PatchNext \/ Multipatch \/ NvramPatch \/ Done

-----------------------------------------------------------------------------
\* processPatches tries every patch of its list, also behind one that fails, and
\* is good when all of them were.
GoodMeansAll ==
    phase \in {"multipatch", "nvram"} \/ (phase = "done" /\ group # <<>>) =>
        /\ good = \A i \in DOMAIN results : results[i]
        /\ phase = "done" => Len(results) = Len(group)

FourBytes(t, n, p) == t[n].props[p].size = 4

\* A property keeps its name and a node its properties unless they lie right
\* behind a property of four bytes that was patched; and no value changes but
\* those of patched properties and of internal-use-only-unit.
DamageIsBehindPatch ==
    \A n \in DOMAIN tree :
        /\ dt[n].torn => /\ n > 1
                         /\ LET p == Len(tree[n - 1].props)
                            IN <<n - 1, p>> \in written /\ FourBytes(tree, n - 1, p)
        /\ ~dt[n].torn => \A p \in DOMAIN tree[n].props :
              LET now == dt[n].props[p]
                  was == tree[n].props[p]
              IN /\ now.name # was.name =>
                       <<n, p - 1>> \in written /\ FourBytes(tree, n, p - 1)
                 /\ now.val # was.val =>
                       <<n, p>> \in written \/ was.name = "internal-use-only-unit"

\* To write property p of node n takes that node's name away, or tears the node
\* behind it although a component of the path leads there or further.
CutsPath(d, path, n, p) ==
    LET name == PropertyNamed(d[n], "name")
    IN \/ path # <<>> /\ p = name
       \/ path # <<>> /\ FourBytes(d, n, p) /\ p + 1 = name
       \/ /\ FourBytes(d, n, p) /\ p = Len(d[n].props)
          /\ \E component \in Range(path) : ChildNamed(d, Root, component) > n

\* The property holds the number the text says: all of it in hexadecimal, in
\* decimal what the property has room for.
Same(text, prop) ==
    LET room == Integers256((prop.size \div 4) * Word4)
    IN prop.val = IF text.hex THEN Denotes(text) ELSE Denotes(text) % room

\* What a successful patch has set is what the next lookup of the same path finds,
\* whatever earlier patches have damaged, unless that patch itself cuts the path.
TakesEffect ==
    LET i == Len(results')
        spec == group[i]
        t == Target(dt, spec)
    IN i > Len(results) /\ results'[i] /\ ~CutsPath(dt, spec.path, t[1], t[2]) =>
          Target(dt', spec) = t /\ Same(spec.value, dt'[t[1]].props[t[2]])
PatchTakesEffect == [][TakesEffect]_treeVars

\* What "Patched %.*s from 0x%x to 0x%x" says: one property is patched, so the
\* tree keeps its shape.
PatchKeepsShape ==
    \A n \in DOMAIN tree :
        /\ ~dt[n].torn
        /\ \A p \in DOMAIN tree[n].props : dt[n].props[p].name = tree[n].props[p].name
=============================================================================
