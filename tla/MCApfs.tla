---------------------------- MODULE MCApfs ----------------------------------
(* Instances of ApfsDump and the driver for TLC. *)
EXTENDS ApfsDump, TLC

Entry(name, type, ino) == [name |-> name, type |-> type, ino |-> ino]

\* Two partitions, which both have a volume of the one name.
MCVolumes == "internal" :> <<"Data", "Preboot">> @@ "external" :> <<"Preboot">>
MCPreboot == <<"internal", "Preboot">>
MCData == <<"internal", "Data">>
MCOther == <<"external", "Preboot">>
MCRoles ==
    { "Data" :> "data" @@ "Preboot" :> "preboot", "Data" :> "preboot" @@ "Preboot" :> "data",
      "Data" :> "data" @@ "Preboot" :> "data" }

\* The root directory of a volume hangs below inode 1 as "root".
MCDir ==
    <<MCPreboot, 1>> :> <<Entry("root", "dir", 2), Entry("private-dir", "dir", 3)>>
    @@ <<MCPreboot, 2>> :> <<Entry("boot", "dir", 16), Entry("kernelcache", "file", 17),
                             Entry("latest", "link", 18)>>
    @@ <<MCPreboot, 3>> :> <<>>
    @@ <<MCPreboot, 16>> :> <<Entry("active", "file", 19), Entry("boot", "dir", 20)>>
    @@ <<MCPreboot, 20>> :> <<Entry("root", "dir", 21)>>
    @@ <<MCPreboot, 21>> :> <<>>
    @@ <<MCData, 1>> :> <<Entry("root", "dir", 2)>>
    @@ <<MCData, 2>> :> <<Entry("boot", "dir", 40)>>
    @@ <<MCData, 40>> :> <<Entry("root", "dir", 41)>>
    @@ <<MCData, 41>> :> <<>>
    @@ <<MCOther, 1>> :> <<Entry("private-dir", "dir", 3), Entry("root", "dir", 2)>>
    @@ <<MCOther, 2>> :> <<Entry("boot", "file", 16)>>
    @@ <<MCOther, 3>> :> <<>>

MCPaths ==
    { <<"">>, <<"Preboot">>, <<"Preboot", "">>, <<"Nope">>, <<"", "boot">>,
      <<"Preboot", "root">>, <<"Preboot", "skipped", "root">>,
      <<"Preboot", "skipped", "root", "boot">>,
      <<"Preboot", "skipped", "root", "kernelcache">>,
      <<"Preboot", "skipped", "root", "latest", "active">>, <<"Data">> }

MCDirPaths ==
    { <<"boot">>, <<"boot", "boot">>, <<"boot", "boot", "root">>, <<"boot", "active">>,
      <<"boot", "active", "boot">>, <<"boot", "root">>, <<"latest", "active">>, <<"root">>,
      <<"boot", "">> }
=============================================================================
