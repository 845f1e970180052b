CONSTANTS
    Partitions = {"internal", "external"}
    MainPartition = "internal"
    Volumes <- MCVolumes
    Dir <- MCDir
    Paths <- MCPaths
    Roles <- MCRoles
    DirPaths <- MCDirPaths
    Streams = {s1, s2}
    MaxLive = 3
SPECIFICATION Spec
CHECK_DEADLOCK FALSE
INVARIANTS OpenedIsReady ReaddirIsWhole ListsItsVolume LookupsAgree
