CONSTANTS
    Files <- MCFiles
    Names = {"_a", "_b", "_self", "_flat", "local"}
    Base = 4
    BlBits = 6
    Half = 4
    NFlags = 3
    BlDistance = 32
    WordsPerStub = 4
    MaxLines = 40
SPECIFICATION ToolsSpec
CHECK_DEADLOCK FALSE
INVARIANTS ListsTheCommands UndefFromItsLibrary FindsCalls FunctionStartIsGreatest ArgumentIsLastWrite
PROPERTY DumpEnds
