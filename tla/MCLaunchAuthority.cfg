SPECIFICATION LaunchSpec
CONSTANTS
    Alphabet <- mcAlphabet
    Fold <- mcFold
    AsciiFold <- mcAsciiFold
    NFC <- mcNFC
    NFD <- mcNFD
    Unmatchable <- mcUnmatchable
    Paths <- mcPaths
    Trees <- mcTrees
    Requests <- mcRequests
    HostPaths <- mcHostPaths
    LinkTargets <- mcLinkTargets
    Home <- mcHome
    Workspace <- mcWorkspace
    Sessions <- mcSessions
    Operations <- mcOperations
    Session <- mcSession
    SessionHome <- mcSessionHome
    Temporary <- mcTemporary
    Executable <- mcExecutable
    Supervisor <- mcSupervisor
    RuntimeInputs <- mcRuntimeInputs
    Private <- mcPrivate
    SearchPath <- mcSearchPath
    Tool <- mcTool
    MCPNames = {"mcp"}
    Margin = 1
    MaxHost = 1
    MaxClock = 3
CHECK_DEADLOCK FALSE
INVARIANTS AuthorityIsExact DenialsHold BackendsAgree
PROPERTIES ExecutableAsHashed AcceptedAsCaptured
